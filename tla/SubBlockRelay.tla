---------------------------- MODULE SubBlockRelay ----------------------------
(***************************************************************************)
(* How a sub block that was handed to one node of the top chain comes to   *)
(* others: the node announces it to its peers, a peer that does not have   *)
(* it asks for it, now or two minutes after it last asked another peer,    *)
(* and gets it.                                                            *)
(*                                                                         *)
(* A connection delivers messages in order until it is dropped; with it go *)
(* the messages under way and all that the two nodes keep for that peer.   *)
(* What a node keeps of sub blocks on disk is the subject of SubBlockStore;*)
(* here a node has a block or not, and may lose some in a crash.           *)
(*                                                                         *)
(* Times are relative to the clock and counted in the two minutes that     *)
(* AskFor waits: 0 is now, and a time long past is -1.                     *)
(***************************************************************************)
EXTENDS Integers, Sequences, FiniteSets, SequencesExt

CONSTANTS Nodes,             \* nodes of the top chain
          Links,             \* sets of two nodes that may connect
          SubBlocks,         \* hashes of sub blocks
          Senders,           \* the nodes each sub block may be handed to
          Newcomers,         \* nodes that may be downloading blocks at first
          SETASKFOR_MAX_SZ,  \* limit of setAskFor
          MAPASKFOR_MAX_SZ,  \* limit of mapAskFor
          MaxSends,          \* bound: calls of commitsubchaininfo
          MaxFailures,       \* bound: received blocks that cannot be stored
          MaxDrops,          \* bound: connections dropped
          MaxCrashes         \* bound: crashes of nodes

ASSUME SubBlockRelayAssumption ==
  /\ \A l \in Links : l \subseteq Nodes /\ Cardinality(l) = 2
  /\ IsFiniteSet(SubBlocks)
  /\ Senders \in [SubBlocks -> SUBSET Nodes]
  /\ Newcomers \subseteq Nodes
  /\ SETASKFOR_MAX_SZ \in Nat /\ MAPASKFOR_MAX_SZ \in Nat
  /\ MaxSends \in Nat /\ MaxFailures \in Nat /\ MaxDrops \in Nat /\ MaxCrashes \in Nat

Pairs == {c \in Nodes \X Nodes : {c[1], c[2]} \in Links}

VARIABLES
  mapSubBlockIndex,    \* the sub blocks a node has
  syncing,             \* initial block download, import or reindex
  up,                  \* the links that are connected
  toSend,              \* vInventorySubBlockToSend of a node for a peer
  setAskFor,           \* per node and peer
  mapAskFor,           \* per node and peer: when to ask for which block
  mapAlreadyAskedFor,  \* per node: when each block is, or was, to be asked for
  channel,             \* messages under way, in order
  promised,            \* history: <<n, p, b>> if n has announced b to p, and neither was
                       \* the connection dropped, nor did p pass over the announcement,
                       \* nor could p not store what n sent it
  left                 \* what the bounds still allow

peerState == <<toSend, setAskFor, mapAskFor>>
vars == <<mapSubBlockIndex, syncing, up, peerState, mapAlreadyAskedFor, channel, promised,
          left>>

Message(command, blocks) == [command |-> command, blocks |-> blocks]
Connected(n, p) == {n, p} \in up
Never == [b \in SubBlocks |-> -1]

Later(s, t) == IF s > t THEN s ELSE t

-------------------------------------------------------------------------------
Init ==
  /\ mapSubBlockIndex = [n \in Nodes |-> {}]
  /\ \E s \in SUBSET Newcomers : syncing = [n \in Nodes |-> n \in s]
  /\ up = Links
  /\ toSend = [c \in Pairs |-> {}] /\ setAskFor = [c \in Pairs |-> {}]
  /\ mapAskFor = [c \in Pairs |-> {}]
  /\ mapAlreadyAskedFor = [n \in Nodes |-> Never]
  /\ channel = [c \in Pairs |-> <<>>]
  /\ promised = {}
  /\ left = [sends |-> MaxSends, failures |-> MaxFailures, drops |-> MaxDrops,
             crashes |-> MaxCrashes]

AlreadyHave(n, b) == b \in mapSubBlockIndex[n]

(* Mutant: the block is announced, and not stored. *)
commitsubchaininfo_unstored(n, b) ==
  /\ left.sends > 0 /\ n \in Senders[b]
  /\ left' = [left EXCEPT !.sends = @ - 1]
  /\ toSend' = [c \in Pairs |->
                  IF c[1] = n /\ Connected(n, c[2]) THEN toSend[c] \cup {b} ELSE toSend[c]]
  /\ promised' = promised \cup {<<n, p, b>> : p \in {q \in Nodes : Connected(n, q)}}
  /\ UNCHANGED <<mapSubBlockIndex, syncing, up, setAskFor, mapAskFor, mapAlreadyAskedFor,
                 channel>>

(* commitsubchaininfo with a backup transaction: store the sub block,      *)
(* where a failure ends the call and nothing has happened; then commit the *)
(* transaction, which may fail; then RelaySubBlock.  A call may be         *)
(* repeated.                                                               *)
commitsubchaininfo(n, b) ==
  /\ left.sends > 0 /\ n \in Senders[b]
  /\ mapSubBlockIndex' = [mapSubBlockIndex EXCEPT ![n] = @ \cup {b}]
  /\ left' = [left EXCEPT !.sends = @ - 1]
  /\ \/ /\ toSend' = [c \in Pairs |->
                        IF c[1] = n /\ Connected(n, c[2]) THEN toSend[c] \cup {b} ELSE toSend[c]]
        /\ promised' = promised \cup {<<n, p, b>> : p \in {q \in Nodes : Connected(n, q)}}
     \/ UNCHANGED <<toSend, promised>>
  /\ UNCHANGED <<syncing, up, setAskFor, mapAskFor, mapAlreadyAskedFor, channel>>

(* SendMessages: the inventory of sub blocks, and the requests that are    *)
(* due and still needed.                                                   *)
Due(n, p) == {e \in mapAskFor[<<n, p>>] : e.at <= 0}

Wanted(n, p) == {b \in {e.block : e \in Due(n, p)} : ~AlreadyHave(n, b)}

SendMessages(n, p) ==
  LET c == <<n, p>>
      due == {e.block : e \in Due(n, p)}
      wanted == Wanted(n, p)
      inv == IF toSend[c] = {} THEN <<>> ELSE <<Message("inv", toSend[c])>>
      getdata == IF wanted = {} THEN <<>> ELSE <<Message("getdata", wanted)>>
  IN /\ Connected(n, p)
     /\ toSend[c] # {} \/ Due(n, p) # {}
     /\ channel' = [channel EXCEPT ![c] = @ \o inv \o getdata]
     /\ toSend' = [toSend EXCEPT ![c] = {}]
     /\ mapAskFor' = [mapAskFor EXCEPT ![c] = @ \ Due(n, p)]
     /\ setAskFor' = [setAskFor EXCEPT ![c] = @ \ (due \ wanted)]
     /\ UNCHANGED <<mapSubBlockIndex, syncing, up, mapAlreadyAskedFor, promised, left>>

(* Mutant: a block that another peer was asked for is passed over. *)
New_elsewhere(n, p, blocks) ==
  {b \in blocks \ mapSubBlockIndex[n] : mapAlreadyAskedFor[n][b] = -1}

(* The announced blocks that the node has not, and has not asked the peer  *)
(* for.                                                                    *)
New(n, p, blocks) == (blocks \ mapSubBlockIndex[n]) \ setAskFor[<<n, p>>]

(* AskFor: at once, but two minutes after the last request, from whatever  *)
(* peer.                                                                   *)
request_time(n, b) == Later(mapAlreadyAskedFor[n][b] + 1, 0)

(* Mutant: AskFor has no early returns. *)
Taken_all(n, p, blocks) == {blocks \ mapSubBlockIndex[n]}

(* Those that AskFor takes: it does nothing when setAskFor or mapAskFor is *)
(* full.                                                                   *)
Room(n, p) ==
  Min({SETASKFOR_MAX_SZ + 1 - Cardinality(setAskFor[<<n, p>>]),
       MAPASKFOR_MAX_SZ + 1 - Cardinality(mapAskFor[<<n, p>>])})

Taken(n, p, blocks) ==
  LET new == New(n, p, blocks)
      room == Later(Room(n, p), 0)
  IN {s \in SUBSET new : Cardinality(s) <= room
                         /\ (Cardinality(s) < room => s = new)}

(* The requests of n to p for a block that are queued, under way or        *)
(* answered by a block under way.                                          *)
Mentions(c, command, b) ==
  Cardinality({i \in DOMAIN channel[c] :
                 channel[c][i].command = command /\ b \in channel[c][i].blocks})

Outstanding(n, p, b) ==
  Cardinality({e \in mapAskFor[<<n, p>>] : e.block = b})
  + Mentions(<<n, p>>, "getdata", b) + Mentions(<<p, n>>, "subblock", b)

(* The announced blocks that were asked for over this connection and came, *)
(* but could not be stored: setAskFor has them still, so AskFor passes     *)
(* them over.                                                              *)
Forsaken(n, p, blocks) ==
  {b \in (blocks \cap setAskFor[<<n, p>>]) \ mapSubBlockIndex[n] : Outstanding(n, p, b) = 0}

Arrives(n, p, command) == channel[<<p, n>>] # <<>> /\ Head(channel[<<p, n>>]).command = command
Consumed(n, p) == [channel EXCEPT ![<<p, n>>] = Tail(@)]

(* The INV handler of n, for a message of p. *)
handle_inv(n, p) ==
  LET c == <<n, p>>
      announced == Head(channel[<<p, n>>]).blocks
  IN /\ Arrives(n, p, "inv")
     /\ channel' = Consumed(n, p)
     /\ \E asked \in (IF syncing[n] THEN {{}} ELSE Taken(n, p, announced)) :
          /\ setAskFor' = [setAskFor EXCEPT ![c] = @ \cup asked]
          /\ mapAskFor' = [mapAskFor EXCEPT ![c] =
               @ \cup {[at |-> request_time(n, b), block |-> b] : b \in asked}]
          /\ mapAlreadyAskedFor' = [mapAlreadyAskedFor EXCEPT ![n] =
               [b \in SubBlocks |-> IF b \in asked THEN request_time(n, b) ELSE @[b]]]
          /\ promised' = promised \ {<<p, n, b>> :
               b \in (New(n, p, announced) \ asked) \cup Forsaken(n, p, announced)}
     /\ UNCHANGED <<mapSubBlockIndex, syncing, up, toSend, left>>

(* ProcessGetData: the blocks that are known, and NOTFOUND for the others. *)
(* The peer does not care about a NOTFOUND; AsksHolders says that there    *)
(* are none, so no action takes one.                                       *)
ProcessGetData(n, p) ==
  LET requested == Head(channel[<<p, n>>]).blocks
      known == SetToSeq(requested \cap mapSubBlockIndex[n])
      unknown == requested \ mapSubBlockIndex[n]
  IN /\ Arrives(n, p, "getdata")
     /\ channel' = [Consumed(n, p) EXCEPT ![<<n, p>>] =
          @ \o [i \in DOMAIN known |-> Message("subblock", {known[i]})]
            \o (IF unknown = {} THEN <<>> ELSE <<Message("notfound", unknown)>>)]
     /\ UNCHANGED <<mapSubBlockIndex, syncing, up, peerState, mapAlreadyAskedFor, promised,
                    left>>

(* The SUBBLOCK handler: ProcessNewSubBlock, and nothing else: the block   *)
(* stays in setAskFor and mapAlreadyAskedFor, and is not announced.  That  *)
(* it could not be stored is not noticed.  (The handler does nothing       *)
(* during an import or a reindex; a node that asks has done with them.)    *)
handle_subblock(n, p) ==
  LET got == Head(channel[<<p, n>>]).blocks
  IN /\ Arrives(n, p, "subblock")
     /\ channel' = Consumed(n, p)
     /\ \/ /\ mapSubBlockIndex' = [mapSubBlockIndex EXCEPT ![n] = @ \cup got]
           /\ UNCHANGED <<promised, left>>
        \/ /\ left.failures > 0 /\ got \cap mapSubBlockIndex[n] = {}
           /\ promised' = promised \ {<<p, n, b>> : b \in got}
           /\ left' = [left EXCEPT !.failures = @ - 1]
           /\ UNCHANGED mapSubBlockIndex
     /\ UNCHANGED <<syncing, up, peerState, mapAlreadyAskedFor>>

(* Two minutes pass. *)
Tick ==
  /\ \/ \E c \in Pairs : \E e \in mapAskFor[c] : e.at > 0
     \/ \E n \in Nodes : mapAlreadyAskedFor[n] # Never
  /\ mapAskFor' = [c \in Pairs |-> {[e EXCEPT !.at = Later(@ - 1, 0)] : e \in mapAskFor[c]}]
  /\ mapAlreadyAskedFor' =
       [n \in Nodes |-> [b \in SubBlocks |-> Later(mapAlreadyAskedFor[n][b] - 1, -1)]]
  /\ UNCHANGED <<mapSubBlockIndex, syncing, up, toSend, setAskFor, channel, promised,
                 left>>

(* Initial block download, an import or a reindex ends. *)
Synced(n) ==
  /\ syncing[n]
  /\ syncing' = [syncing EXCEPT ![n] = FALSE]
  /\ UNCHANGED <<mapSubBlockIndex, up, peerState, mapAlreadyAskedFor, channel, promised,
                 left>>

-------------------------------------------------------------------------------
(* Connections are dropped, and what the nodes keep for them. *)
Cut(links) ==
  LET gone(c) == {c[1], c[2]} \in links
  IN /\ up' = up \ links
     /\ toSend' = [c \in Pairs |-> IF gone(c) THEN {} ELSE toSend[c]]
     /\ setAskFor' = [c \in Pairs |-> IF gone(c) THEN {} ELSE setAskFor[c]]
     /\ mapAskFor' = [c \in Pairs |-> IF gone(c) THEN {} ELSE mapAskFor[c]]
     /\ channel' = [c \in Pairs |-> IF gone(c) THEN <<>> ELSE channel[c]]
     /\ promised' = {x \in promised : {x[1], x[2]} \notin links}

Disconnect(l) ==
  /\ left.drops > 0 /\ l \in up
  /\ Cut({l})
  /\ left' = [left EXCEPT !.drops = @ - 1]
  /\ UNCHANGED <<mapSubBlockIndex, syncing, mapAlreadyAskedFor>>

(* A peer that has connected is told of nothing that was sent before. *)
Connect(l) ==
  /\ l \in Links \ up
  /\ up' = up \cup {l}
  /\ UNCHANGED <<mapSubBlockIndex, syncing, peerState, mapAlreadyAskedFor, channel,
                 promised, left>>

(* A node stops and starts.  Sub blocks that were not saved are lost. *)
Crash(n) ==
  /\ left.crashes > 0
  /\ Cut({l \in up : n \in l})
  /\ \E kept \in SUBSET mapSubBlockIndex[n] :
       mapSubBlockIndex' = [mapSubBlockIndex EXCEPT ![n] = kept]
  /\ syncing' = [syncing EXCEPT ![n] = TRUE]
  /\ mapAlreadyAskedFor' = [mapAlreadyAskedFor EXCEPT ![n] = Never]
  /\ left' = [left EXCEPT !.crashes = @ - 1]

Handle(n, p) == handle_inv(n, p) \/ ProcessGetData(n, p) \/ handle_subblock(n, p)

Next ==
  \/ \E n \in Nodes, b \in SubBlocks : commitsubchaininfo(n, b)
  \/ \E c \in Pairs : SendMessages(c[1], c[2]) \/ Handle(c[1], c[2])
  \/ Tick
  \/ \E n \in Nodes : Synced(n) \/ Crash(n)
  \/ \E l \in Links : Disconnect(l) \/ Connect(l)

(* The message handler's thread goes round all peers, and handles what it  *)
(* finds for each of them; and time passes.  Nothing makes a node hand in  *)
(* a block, connect or finish its download.                                *)
Fairness ==
  /\ \A c \in Pairs : WF_vars(SendMessages(c[1], c[2]) \/ Handle(c[1], c[2]))
  /\ WF_vars(Tick)

Spec == Init /\ [][Next]_vars /\ Fairness

-------------------------------------------------------------------------------
Announcements ==
  {x \in Nodes \X Nodes \X SubBlocks : x[1] \in Senders[x[3]] /\ {x[1], x[2]} \in Links}

(* Type correctness. *)
TypeOK ==
  /\ mapSubBlockIndex \in [Nodes -> SUBSET SubBlocks]
  /\ syncing \in [Nodes -> BOOLEAN] /\ up \subseteq Links
  /\ toSend \in [Pairs -> SUBSET SubBlocks] /\ setAskFor \in [Pairs -> SUBSET SubBlocks]
  /\ mapAskFor \in [Pairs -> SUBSET [at : Nat, block : SubBlocks]]
  /\ mapAlreadyAskedFor \in [Nodes -> [SubBlocks -> Int]]
  /\ promised \subseteq Announcements
  /\ channel \in [Pairs -> Seq([command : {"inv", "getdata", "subblock", "notfound"},
                                blocks : SUBSET SubBlocks])]

(* "A peer may not have multiple non-responded queue positions for a       *)
(* single inv item": a block is never twice on its way over a connection,  *)
(* however often it is announced.                                          *)
OneRequestPerPeer ==
  \A c \in Pairs, b \in SubBlocks :
    /\ Outstanding(c[1], c[2], b) <= 1
    /\ Outstanding(c[1], c[2], b) = 1 => b \in setAskFor[c]

(* A node is only ever asked for a block that it has: an announcement does *)
(* not outlive the announcer's knowledge of the block.                     *)
AsksHolders == \A c \in Pairs, b \in SubBlocks : Mentions(c, "notfound", b) = 0

(* A peer that a block was announced to gets it, from the announcer or,    *)
(* two minutes after it asked another peer that did not answer or whose    *)
(* answer could not be stored, all the same; unless the connection is      *)
(* dropped, the peer cannot store what the announcer sends it, or it       *)
(* passes the announcement over: it is still downloading blocks, its       *)
(* setAskFor or mapAskFor is full, or it had the block from the announcer  *)
(* before and could not store it.                                          *)
AnnouncedArrives ==
  \A x \in Announcements :
    x \in promised ~> x[3] \in mapSubBlockIndex[x[2]] \/ x \notin promised
===============================================================================
