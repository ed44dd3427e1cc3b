-------------------------- MODULE SubBlockRelayProofs --------------------------
(***************************************************************************)
(* Proofs about the relay of sub blocks, for every set of nodes, links and *)
(* sub blocks, any limits and any number of crashes, dropped connections   *)
(* and blocks that cannot be stored: a node is never asked for a block it  *)
(* does not have (AsksHolders), and a block is never twice on its way over *)
(* a connection (OneRequestPerPeer).                                       *)
(*                                                                         *)
(* The argument.  HoldInv follows a block from the announcement to the     *)
(* request for it: as long as either is queued or under way, the announcer *)
(* has the block; it can only lose it in a crash, which drops all that     *)
(* (DownInv).  RequestInv says at which one of three places a request is:  *)
(* in mapAskFor, in a GETDATA, or answered in a SUBBLOCK; setAskFor        *)
(* outlives all three.                                                     *)
(***************************************************************************)
EXTENDS SubBlockRelay, FiniteSetTheorems, SequenceTheorems, FunctionTheorems, TLAPS

Commands == {"inv", "getdata", "subblock", "notfound"}
Messages == [command : Commands, blocks : SUBSET SubBlocks]
Requests == [at : Nat, block : SubBlocks]

(* The other end's view of a connection. *)
Rev(c) == <<c[2], c[1]>>

(* Where block b is mentioned in a sequence of messages. *)
Sent(s, command, b) == {i \in DOMAIN s : s[i].command = command /\ b \in s[i].blocks}

Asked(c, b) == {e \in mapAskFor[c] : e.block = b}
Requested(c, b) == Sent(channel[c], "getdata", b)
Answered(c, b) == Sent(channel[Rev(c)], "subblock", b)

AtMostOne(S) == \A x, y \in S : x = y

(* A request of c[1] to c[2] is at one place, and remembered. *)
RequestInv(c, b) ==
  /\ AtMostOne(Asked(c, b)) /\ AtMostOne(Requested(c, b)) /\ AtMostOne(Answered(c, b))
  /\ Asked(c, b) = {} \/ (Requested(c, b) = {} /\ Answered(c, b) = {})
  /\ Requested(c, b) = {} \/ Answered(c, b) = {}
  /\ b \notin setAskFor[c] =>
       Asked(c, b) = {} /\ Requested(c, b) = {} /\ Answered(c, b) = {}

(* c[1] has what it has announced to c[2], or c[2] is about to ask for. *)
HoldInv(c, b) ==
  /\ b \notin mapSubBlockIndex[c[1]] =>
       /\ b \notin toSend[c] /\ Sent(channel[c], "inv", b) = {}
       /\ Asked(Rev(c), b) = {} /\ Requested(Rev(c), b) = {}
  /\ Sent(channel[c], "notfound", b) = {}

(* Nothing is kept for a connection that is down. *)
DownInv ==
  \A c \in Pairs : ~Connected(c[1], c[2]) =>
    toSend[c] = {} /\ setAskFor[c] = {} /\ mapAskFor[c] = {} /\ channel[c] = <<>>

IInv ==
  /\ TypeOK /\ DownInv
  /\ \A c \in Pairs, b \in SubBlocks : RequestInv(c, b) /\ HoldInv(c, b)


-------------------------------------------------------------------------------
LEMMA PairFacts ==
  ASSUME NEW c \in Pairs
  PROVE  /\ c = <<c[1], c[2]>> /\ c[1] \in Nodes /\ c[2] \in Nodes /\ c[1] # c[2]
         /\ Rev(c) \in Pairs /\ Rev(Rev(c)) = c /\ Rev(c) # c
         /\ Rev(c)[1] = c[2] /\ Rev(c)[2] = c[1]
         /\ {Rev(c)[1], Rev(c)[2]} = {c[1], c[2]}
<1>1. c \in Nodes \X Nodes /\ {c[1], c[2]} \in Links
  BY DEF Pairs
<1>2. c = <<c[1], c[2]>> /\ c[1] \in Nodes /\ c[2] \in Nodes
  BY <1>1
<1>3. Cardinality({c[1], c[2]}) = 2
  BY <1>1, SubBlockRelayAssumption
<1>4. c[1] # c[2]
  <2> SUFFICES ASSUME c[1] = c[2] PROVE FALSE
    OBVIOUS
  <2>1. {c[1], c[2]} = {c[1]}
    OBVIOUS
  <2>2. Cardinality({c[1]}) = 1
    BY FS_Singleton
  <2> QED
    BY <1>3, <2>1, <2>2
<1>5. Rev(c) = <<c[2], c[1]>> /\ Rev(c)[1] = c[2] /\ Rev(c)[2] = c[1]
  BY DEF Rev
<1>6. {c[2], c[1]} = {c[1], c[2]}
  OBVIOUS
<1>7. Rev(c) \in Pairs
  BY <1>1, <1>2, <1>5, <1>6 DEF Pairs
<1>8. Rev(Rev(c)) = c
  BY <1>2, <1>5 DEF Rev
<1>9. Rev(c) # c
  BY <1>4, <1>5
<1> QED
  BY <1>2, <1>4, <1>5, <1>6, <1>7, <1>8, <1>9

LEMMA RevEqual ==
  ASSUME NEW c \in Pairs, NEW d \in Pairs
  PROVE  Rev(c) = d <=> c = Rev(d)
BY PairFacts

(* What a message mentions, in what is left of a sequence or added to it. *)
LEMMA SentTail ==
  ASSUME NEW s \in Seq(Messages), s # <<>>, NEW command, NEW b
  PROVE  /\ Tail(s) \in Seq(Messages) /\ Head(s) \in Messages
         /\ \A i : i \in Sent(Tail(s), command, b) <=> i \in Nat \ {0} /\ i + 1 \in Sent(s, command, b)
         /\ Head(s).command = command /\ b \in Head(s).blocks <=> 1 \in Sent(s, command, b)
<1>1. /\ Len(s) \in Nat \ {0} /\ DOMAIN s = 1..Len(s) /\ Head(s) = s[1] /\ Head(s) \in Messages
      /\ Tail(s) \in Seq(Messages) /\ Len(Tail(s)) = Len(s) - 1 /\ DOMAIN Tail(s) = 1..(Len(s) - 1)
      /\ \A i \in 1..(Len(s) - 1) : Tail(s)[i] = s[i + 1]
  OBVIOUS
<1>2. ASSUME NEW i
      PROVE  i \in Sent(Tail(s), command, b) <=> i \in Nat \ {0} /\ i + 1 \in Sent(s, command, b)
  <2>1. i \in 1..(Len(s) - 1) <=> i \in Nat \ {0} /\ i + 1 \in 1..Len(s)
    BY <1>1
  <2> QED
    BY <1>1, <2>1 DEF Sent
<1>3. Head(s).command = command /\ b \in Head(s).blocks <=> 1 \in Sent(s, command, b)
  BY <1>1 DEF Sent
<1> QED
  BY <1>1, <1>2, <1>3

LEMMA SentConcat ==
  ASSUME NEW s \in Seq(Messages), NEW t \in Seq(Messages), NEW command, NEW b
  PROVE  /\ s \o t \in Seq(Messages)
         /\ Sent(s \o t, command, b) =
              Sent(s, command, b) \cup {i + Len(s) : i \in Sent(t, command, b)}
<1>1. /\ Len(s) \in Nat /\ Len(t) \in Nat /\ DOMAIN s = 1..Len(s) /\ DOMAIN t = 1..Len(t)
      /\ s \o t \in Seq(Messages) /\ DOMAIN (s \o t) = 1..(Len(s) + Len(t))
      /\ \A i \in 1..(Len(s) + Len(t)) :
           (s \o t)[i] = IF i <= Len(s) THEN s[i] ELSE t[i - Len(s)]
  OBVIOUS
<1>2. ASSUME NEW i \in Sent(s \o t, command, b)
      PROVE  i \in Sent(s, command, b) \/ \E j \in Sent(t, command, b) : i = j + Len(s)
  <2>1. i \in 1..(Len(s) + Len(t)) /\ (s \o t)[i].command = command /\ b \in (s \o t)[i].blocks
    BY <1>1, <1>2 DEF Sent
  <2>2. CASE i <= Len(s)
    BY <1>1, <2>1, <2>2 DEF Sent
  <2>3. CASE ~(i <= Len(s))
    <3>1. i - Len(s) \in 1..Len(t) /\ (i - Len(s)) + Len(s) = i
      BY <1>1, <2>1, <2>3
    <3>2. i - Len(s) \in Sent(t, command, b)
      BY <1>1, <2>1, <2>3, <3>1 DEF Sent
    <3> QED
      BY <3>1, <3>2
  <2> QED
    BY <2>2, <2>3
<1>3. ASSUME NEW i \in Sent(s, command, b)
      PROVE  i \in Sent(s \o t, command, b)
  BY <1>1, <1>3 DEF Sent
<1>4. ASSUME NEW j \in Sent(t, command, b)
      PROVE  j + Len(s) \in Sent(s \o t, command, b)
  <2>1. j \in 1..Len(t) /\ t[j].command = command /\ b \in t[j].blocks
    BY <1>1, <1>4 DEF Sent
  <2>2. j + Len(s) \in 1..(Len(s) + Len(t)) /\ ~(j + Len(s) <= Len(s)) /\ (j + Len(s)) - Len(s) = j
    BY <1>1, <2>1
  <2>3. (s \o t)[j + Len(s)] = t[j]
    BY <1>1, <2>2
  <2> QED
    BY <1>1, <2>1, <2>2, <2>3 DEF Sent
<1>5. Sent(s \o t, command, b) = Sent(s, command, b) \cup {i + Len(s) : i \in Sent(t, command, b)}
  BY <1>2, <1>3, <1>4
<1> QED
  BY <1>1, <1>5

LEMMA SentNoMore ==
  ASSUME NEW s \in Seq(Messages), NEW t \in Seq(Messages), NEW command, NEW b,
         Sent(t, command, b) = {}
  PROVE  Sent(s \o t, command, b) = Sent(s, command, b)
<1>1. Sent(s \o t, command, b) =
        Sent(s, command, b) \cup {i + Len(s) : i \in Sent(t, command, b)}
  BY SentConcat
<1>2. {i + Len(s) : i \in Sent(t, command, b)} = {}
  OBVIOUS
<1> QED
  BY <1>1, <1>2

LEMMA SentFirst ==
  ASSUME NEW s \in Seq(Messages), NEW t \in Seq(Messages), NEW command, NEW b,
         Sent(s, command, b) = {}, AtMostOne(Sent(t, command, b))
  PROVE  AtMostOne(Sent(s \o t, command, b))
BY SentConcat DEF AtMostOne

(* A sequence of no or one message. *)
LEMMA SentOne ==
  ASSUME NEW m \in Messages, NEW command, NEW b
  PROVE  /\ <<m>> \in Seq(Messages)
         /\ Sent(<<m>>, command, b) = IF m.command = command /\ b \in m.blocks THEN {1} ELSE {}
         /\ <<>> \in Seq(Messages) /\ Sent(<<>>, command, b) = {}
<1>1. <<m>> \in Seq(Messages) /\ DOMAIN <<m>> = {1} /\ <<m>>[1] = m
  OBVIOUS
<1>2. <<>> \in Seq(Messages) /\ DOMAIN <<>> = {}
  OBVIOUS
<1> QED
  BY <1>1, <1>2 DEF Sent

LEMMA SentIntegers ==
  ASSUME NEW s \in Seq(Messages), NEW command, NEW b
  PROVE  Sent(s, command, b) \subseteq Nat \ {0}
BY DEF Sent

(* SetToSeq lists each element once. *)
LEMMA SetToSeqLists ==
  ASSUME NEW S, IsFiniteSet(S)
  PROVE  /\ DOMAIN SetToSeq(S) = 1..Cardinality(S) /\ Cardinality(S) \in Nat
         /\ \A i \in DOMAIN SetToSeq(S) : SetToSeq(S)[i] \in S
         /\ \A i, j \in DOMAIN SetToSeq(S) : SetToSeq(S)[i] = SetToSeq(S)[j] => i = j
<1>1. ExistsBijection(1..Cardinality(S), S) /\ Cardinality(S) \in Nat
  BY FS_CardinalityType
<1>2. PICK f \in [1..Cardinality(S) -> S] : IsInjective(f)
  BY <1>1 DEF ExistsBijection, Bijection, Injection, IsInjective
<1>3. SetToSeq(S) \in [1..Cardinality(S) -> S] /\ IsInjective(SetToSeq(S))
  BY <1>2, Zenon DEF SetToSeq
<1> QED
  BY <1>1, <1>3 DEF IsInjective


-------------------------------------------------------------------------------
(* The two invariants of a connection only read this. *)
LEMMA RequestFrame ==
  ASSUME NEW c \in Pairs, NEW b, RequestInv(c, b),
         channel'[c] = channel[c], channel'[Rev(c)] = channel[Rev(c)],
         mapAskFor'[c] = mapAskFor[c], setAskFor'[c] = setAskFor[c]
  PROVE  RequestInv(c, b)'
BY DEF RequestInv, Asked, Requested, Answered

LEMMA HoldFrame ==
  ASSUME NEW c \in Pairs, NEW b, HoldInv(c, b),
         b \in mapSubBlockIndex[c[1]] => b \in mapSubBlockIndex'[c[1]],
         b \in toSend'[c] => b \in toSend[c] \/ b \in mapSubBlockIndex'[c[1]],
         channel'[c] = channel[c], channel'[Rev(c)] = channel[Rev(c)],
         mapAskFor'[Rev(c)] = mapAskFor[Rev(c)]
  PROVE  HoldInv(c, b)'
BY DEF HoldInv, Asked, Requested

LEMMA InitInv == Init => IInv
<1> SUFFICES ASSUME Init PROVE IInv
  OBVIOUS
<1>1. TypeOK
  <2>1. \A c \in Pairs : <<>> \in Seq([command : {"inv", "getdata", "subblock", "notfound"},
                                       blocks : SUBSET SubBlocks])
    OBVIOUS
  <2>2. channel \in [Pairs -> Seq([command : {"inv", "getdata", "subblock", "notfound"},
                                   blocks : SUBSET SubBlocks])]
    BY <2>1 DEF Init
  <2>3. mapAlreadyAskedFor \in [Nodes -> [SubBlocks -> Int]]
    BY DEF Init, Never
  <2>4. syncing \in [Nodes -> BOOLEAN]
    BY DEF Init
  <2> QED
    BY <2>2, <2>3, <2>4 DEF Init, TypeOK
<1>2. DownInv
  BY DEF Init, DownInv
<1>3. ASSUME NEW c \in Pairs, NEW b \in SubBlocks PROVE RequestInv(c, b) /\ HoldInv(c, b)
  <2>1. /\ channel[c] = <<>> /\ channel[Rev(c)] = <<>> /\ mapAskFor[c] = {} /\ mapAskFor[Rev(c)] = {}
        /\ toSend[c] = {}
    BY PairFacts DEF Init
  <2>2. \A d \in {c, Rev(c)} : \A k : Sent(channel[d], k, b) = {}
    BY <2>1 DEF Sent
  <2> QED
    BY <2>1, <2>2 DEF RequestInv, HoldInv, Asked, Requested, Answered, AtMostOne
<1> QED
  BY <1>1, <1>2, <1>3 DEF IInv

LEMMA CommitInv ==
  ASSUME IInv, NEW n \in Nodes, NEW b0 \in SubBlocks, commitsubchaininfo(n, b0)
  PROVE  IInv'
<1>1. /\ mapSubBlockIndex' = [mapSubBlockIndex EXCEPT ![n] = @ \cup {b0}]
      /\ UNCHANGED <<syncing, up, setAskFor, mapAskFor, mapAlreadyAskedFor, channel>>
      /\ n \in Senders[b0]
  BY DEF commitsubchaininfo
<1>2. mapSubBlockIndex' \in [Nodes -> SUBSET SubBlocks] /\ b0 \in mapSubBlockIndex'[n]
      /\ \A m \in Nodes : mapSubBlockIndex[m] \subseteq mapSubBlockIndex'[m]
  BY <1>1 DEF IInv, TypeOK
<1>3. /\ toSend' \in [Pairs -> SUBSET SubBlocks]
      /\ \A c \in Pairs : toSend'[c] = toSend[c]
                          \/ (c[1] = n /\ Connected(n, c[2]) /\ toSend'[c] = toSend[c] \cup {b0})
  <2>1. toSend \in [Pairs -> SUBSET SubBlocks]
    BY DEF IInv, TypeOK
  <2>2. CASE UNCHANGED toSend
    BY <2>1, <2>2
  <2>3. CASE toSend' = [c \in Pairs |->
                IF c[1] = n /\ Connected(n, c[2]) THEN toSend[c] \cup {b0} ELSE toSend[c]]
    BY <2>1, <2>3
  <2> QED
    BY <2>2, <2>3 DEF commitsubchaininfo
<1>4. promised' \subseteq Announcements
  <2>1. promised \subseteq Announcements /\ up \subseteq Links
    BY DEF IInv, TypeOK
  <2>2. ASSUME NEW q \in Nodes, Connected(n, q) PROVE <<n, q, b0>> \in Announcements
    BY <1>1, <2>1, <2>2 DEF Announcements, Connected
  <2> QED
    BY <2>1, <2>2 DEF commitsubchaininfo
<1>5. TypeOK'
  BY <1>1, <1>2, <1>3, <1>4 DEF IInv, TypeOK
<1>6. DownInv'
  <2>1. ASSUME NEW c \in Pairs, ~Connected(c[1], c[2])'
        PROVE  toSend'[c] = {} /\ setAskFor'[c] = {} /\ mapAskFor'[c] = {} /\ channel'[c] = <<>>
    <3>1. ~Connected(c[1], c[2])
      BY <1>1, <2>1 DEF Connected
    <3> QED
      BY <1>1, <1>3, <3>1 DEF IInv, DownInv
  <2> QED
    BY <2>1 DEF DownInv
<1>7. ASSUME NEW c \in Pairs, NEW b \in SubBlocks PROVE RequestInv(c, b)' /\ HoldInv(c, b)'
  <2>1. RequestInv(c, b) /\ HoldInv(c, b)
    BY DEF IInv
  <2>2. b \in mapSubBlockIndex[c[1]] => b \in mapSubBlockIndex'[c[1]]
    BY <1>2, PairFacts
  <2>3. b \in toSend'[c] => b \in toSend[c] \/ b \in mapSubBlockIndex'[c[1]]
    BY <1>2, <1>3
  <2> QED
    BY <1>1, <2>1, <2>2, <2>3, RequestFrame, HoldFrame
<1> QED
  BY <1>5, <1>6, <1>7 DEF IInv

LEMMA SyncedInv ==
  ASSUME IInv, NEW n \in Nodes, Synced(n)
  PROVE  IInv'
<1>1. /\ UNCHANGED <<mapSubBlockIndex, up, toSend, setAskFor, mapAskFor, mapAlreadyAskedFor,
                     channel, promised>>
      /\ syncing' = [syncing EXCEPT ![n] = FALSE]
  BY DEF Synced, peerState
<1>2. TypeOK' /\ DownInv'
  BY <1>1 DEF IInv, TypeOK, DownInv, Connected
<1>3. ASSUME NEW c \in Pairs, NEW b \in SubBlocks PROVE RequestInv(c, b)' /\ HoldInv(c, b)'
  BY <1>1, RequestFrame, HoldFrame DEF IInv
<1> QED
  BY <1>2, <1>3 DEF IInv

LEMMA ConnectInv ==
  ASSUME IInv, NEW l \in Links, Connect(l)
  PROVE  IInv'
<1>1. /\ UNCHANGED <<mapSubBlockIndex, syncing, toSend, setAskFor, mapAskFor,
                     mapAlreadyAskedFor, channel, promised>>
      /\ up' = up \cup {l}
  BY DEF Connect, peerState
<1>2. TypeOK' /\ DownInv'
  BY <1>1 DEF IInv, TypeOK, DownInv, Connected
<1>3. ASSUME NEW c \in Pairs, NEW b \in SubBlocks PROVE RequestInv(c, b)' /\ HoldInv(c, b)'
  BY <1>1, RequestFrame, HoldFrame DEF IInv
<1> QED
  BY <1>2, <1>3 DEF IInv

(* Connections are dropped; a node loses blocks only if all of its own are.  *)
LEMMA CutInv ==
  ASSUME IInv, NEW links \in SUBSET Links, Cut(links),
         mapSubBlockIndex' \in [Nodes -> SUBSET SubBlocks],
         syncing' \in [Nodes -> BOOLEAN],
         mapAlreadyAskedFor' \in [Nodes -> [SubBlocks -> Int]],
         \A n \in Nodes : \/ mapSubBlockIndex'[n] = mapSubBlockIndex[n]
                          \/ \A l \in up : n \in l => l \in links
  PROVE  IInv'
<1> DEFINE gone(c) == {c[1], c[2]} \in links
<1>1. /\ up' = up \ links
      /\ toSend' = [c \in Pairs |-> IF gone(c) THEN {} ELSE toSend[c]]
      /\ setAskFor' = [c \in Pairs |-> IF gone(c) THEN {} ELSE setAskFor[c]]
      /\ mapAskFor' = [c \in Pairs |-> IF gone(c) THEN {} ELSE mapAskFor[c]]
      /\ channel' = [c \in Pairs |-> IF gone(c) THEN <<>> ELSE channel[c]]
      /\ promised' \subseteq promised
  BY DEF Cut
<1>2. TypeOK'
  <2>1. <<>> \in Seq([command : {"inv", "getdata", "subblock", "notfound"},
                      blocks : SUBSET SubBlocks])
    OBVIOUS
  <2>2. channel' \in [Pairs -> Seq([command : {"inv", "getdata", "subblock", "notfound"},
                                    blocks : SUBSET SubBlocks])]
    <3> HIDE DEF gone
    <3> QED BY <1>1, <2>1 DEF IInv, TypeOK
  <2> QED
    BY <1>1, <2>2 DEF IInv, TypeOK
<1>3. DownInv'
  <2>1. ASSUME NEW c \in Pairs, ~Connected(c[1], c[2])'
        PROVE  toSend'[c] = {} /\ setAskFor'[c] = {} /\ mapAskFor'[c] = {} /\ channel'[c] = <<>>
    <3>1. CASE gone(c)
      BY <1>1, <3>1
    <3>2. CASE ~gone(c)
      <4>1. ~Connected(c[1], c[2])
        BY <1>1, <2>1, <3>2 DEF Connected
      <4> QED
        BY <1>1, <3>2, <4>1 DEF IInv, DownInv
    <3> QED
      BY <3>1, <3>2
  <2> QED
    BY <2>1 DEF DownInv
<1>4. ASSUME NEW c \in Pairs, NEW b \in SubBlocks PROVE RequestInv(c, b)' /\ HoldInv(c, b)'
  <2>1. c \in Pairs /\ Rev(c) \in Pairs /\ (gone(Rev(c)) <=> gone(c)) /\ c[1] \in Nodes
    BY PairFacts
  <2>2. CASE toSend'[c] = {} /\ mapAskFor'[c] = {} /\ mapAskFor'[Rev(c)] = {}
             /\ channel'[c] = <<>> /\ channel'[Rev(c)] = <<>>
    <3>1. \A d \in {c, Rev(c)} : \A k : Sent(channel'[d], k, b) = {}
      BY <2>2 DEF Sent
    <3> QED
      BY <2>2, <3>1 DEF RequestInv, HoldInv, Asked, Requested, Answered, AtMostOne
  <2>3. CASE gone(c)
    BY <1>1, <2>1, <2>2, <2>3
  <2>4. CASE ~gone(c) /\ mapSubBlockIndex'[c[1]] = mapSubBlockIndex[c[1]]
    <3>1. /\ toSend'[c] = toSend[c] /\ setAskFor'[c] = setAskFor[c] /\ mapAskFor'[c] = mapAskFor[c]
          /\ mapAskFor'[Rev(c)] = mapAskFor[Rev(c)]
          /\ channel'[c] = channel[c] /\ channel'[Rev(c)] = channel[Rev(c)]
      BY <1>1, <2>1, <2>4
    <3>2. RequestInv(c, b) /\ HoldInv(c, b)
      BY DEF IInv
    <3> QED
      BY <2>4, <3>1, <3>2, RequestFrame, HoldFrame
  <2>5. CASE ~gone(c) /\ \A l \in up : c[1] \in l => l \in links
    <3>1. ~Connected(c[1], c[2]) /\ ~Connected(Rev(c)[1], Rev(c)[2])
      BY <2>1, <2>5, PairFacts DEF Connected
    <3>2. toSend[c] = {} /\ mapAskFor[c] = {} /\ mapAskFor[Rev(c)] = {}
          /\ channel[c] = <<>> /\ channel[Rev(c)] = <<>>
      BY <2>1, <3>1 DEF IInv, DownInv
    <3> QED
      BY <1>1, <2>1, <2>2, <3>2
  <2> QED
    BY <2>1, <2>3, <2>4, <2>5
<1> QED
  BY <1>2, <1>3, <1>4 DEF IInv

LEMMA DisconnectInv ==
  ASSUME IInv, NEW l \in Links, Disconnect(l)
  PROVE  IInv'
<1>1. Cut({l}) /\ UNCHANGED <<mapSubBlockIndex, syncing, mapAlreadyAskedFor>>
  BY DEF Disconnect
<1>2. {l} \in SUBSET Links
  OBVIOUS
<1> QED
  BY <1>1, <1>2, CutInv DEF IInv, TypeOK

LEMMA CrashInv ==
  ASSUME IInv, NEW n \in Nodes, Crash(n)
  PROVE  IInv'
<1> DEFINE links == {l \in up : n \in l}
<1>1. Cut(links)
  BY DEF Crash
<1>2. links \in SUBSET Links /\ \A l \in up : n \in l => l \in links
  BY DEF IInv, TypeOK
<1>3. mapSubBlockIndex' \in [Nodes -> SUBSET SubBlocks]
      /\ \A m \in Nodes \ {n} : mapSubBlockIndex'[m] = mapSubBlockIndex[m]
  BY DEF Crash, IInv, TypeOK
<1>4. syncing' \in [Nodes -> BOOLEAN] /\ mapAlreadyAskedFor' \in [Nodes -> [SubBlocks -> Int]]
  BY DEF Crash, IInv, TypeOK, Never
<1> HIDE DEF links
<1> QED
  BY <1>1, <1>2, <1>3, <1>4, CutInv


LEMMA TickInv == ASSUME IInv, Tick PROVE IInv'
<1> DEFINE aged(e) == [e EXCEPT !.at = Later(@ - 1, 0)]
<1>1. /\ mapAskFor' = [c \in Pairs |-> {aged(e) : e \in mapAskFor[c]}]
      /\ mapAlreadyAskedFor' =
           [n \in Nodes |-> [b \in SubBlocks |-> Later(mapAlreadyAskedFor[n][b] - 1, -1)]]
      /\ UNCHANGED <<mapSubBlockIndex, syncing, up, toSend, setAskFor, channel, promised>>
  BY DEF Tick
<1>2. \A c \in Pairs : mapAskFor[c] \in SUBSET Requests
  BY DEF IInv, TypeOK, Requests
<1>3. \A e \in Requests : aged(e) \in Requests /\ aged(e).block = e.block
  BY DEF Requests, Later
<1> HIDE DEF aged
<1>4. \A c \in Pairs : mapAskFor'[c] = {aged(e) : e \in mapAskFor[c]}
  BY <1>1
<1>5. TypeOK'
  <2>1. mapAskFor' \in [Pairs -> SUBSET Requests]
    BY <1>1, <1>2, <1>3
  <2>2. mapAlreadyAskedFor' \in [Nodes -> [SubBlocks -> Int]]
    <3>1. \A n \in Nodes, b \in SubBlocks : Later(mapAlreadyAskedFor[n][b] - 1, -1) \in Int
      BY DEF IInv, TypeOK, Later
    <3> QED
      BY <1>1, <3>1
  <2> QED
    BY <1>1, <2>1, <2>2 DEF IInv, TypeOK, Requests
<1>6. DownInv'
  <2>1. \A c \in Pairs : mapAskFor[c] = {} => mapAskFor'[c] = {}
    BY <1>4
  <2> QED
    BY <1>1, <2>1 DEF IInv, DownInv, Connected
<1>7. ASSUME NEW c \in Pairs, NEW b \in SubBlocks PROVE RequestInv(c, b)' /\ HoldInv(c, b)'
  <2>1. RequestInv(c, b) /\ HoldInv(c, b) /\ Rev(c) \in Pairs
    BY PairFacts DEF IInv
  <2>2. \A d \in Pairs : \A x \in Asked(d, b)' : \E e \in Asked(d, b) : x = aged(e)
    BY <1>2, <1>3, <1>4 DEF Asked
  <2>3. AtMostOne(Asked(c, b))'
    BY <2>1, <2>2 DEF RequestInv, AtMostOne
  <2>4. \A d \in Pairs : Asked(d, b) = {} => Asked(d, b)' = {}
    BY <2>2
  <2>5. \A d \in {c, Rev(c)} : \A k : Sent(channel'[d], k, b) = Sent(channel[d], k, b)
    BY <1>1
  <2> QED
    BY <1>1, <2>1, <2>3, <2>4, <2>5 DEF RequestInv, HoldInv, Requested, Answered
<1> QED
  BY <1>5, <1>6, <1>7 DEF IInv

LEMMA ChannelType ==
  ASSUME IInv, NEW c \in Pairs
  PROVE  /\ channel[c] \in Seq(Messages) /\ channel \in [Pairs -> Seq(Messages)]
         /\ toSend[c] \in SUBSET SubBlocks /\ setAskFor[c] \in SUBSET SubBlocks
         /\ mapAskFor[c] \in SUBSET Requests
BY DEF IInv, TypeOK, Messages, Commands, Requests

LEMMA MessageType ==
  ASSUME NEW command \in Commands, NEW blocks \in SUBSET SubBlocks
  PROVE  /\ Message(command, blocks) \in Messages
         /\ Message(command, blocks).command = command /\ Message(command, blocks).blocks = blocks
BY DEF Message, Messages

(* A channel is for connected peers. *)
LEMMA InUse ==
  ASSUME IInv, NEW c \in Pairs, channel[c] # <<>>
  PROVE  Connected(c[1], c[2]) /\ Connected(c[2], c[1])
<1>1. Connected(c[1], c[2])
  BY DEF IInv, DownInv
<1> QED
  BY <1>1, PairFacts DEF Connected

LEMMA SendInv ==
  ASSUME IInv, NEW c0 \in Pairs, SendMessages(c0[1], c0[2])
  PROVE  IInv'
<1> DEFINE n == c0[1]
           p == c0[2]
           due == {e.block : e \in Due(n, p)}
           wanted == Wanted(n, p)
           inv == IF toSend[c0] = {} THEN <<>> ELSE <<Message("inv", toSend[c0])>>
           getdata == IF wanted = {} THEN <<>> ELSE <<Message("getdata", wanted)>>
<1>1. c0 = <<n, p>> /\ n \in Nodes /\ p \in Nodes /\ Rev(c0) \in Pairs /\ Rev(c0) # c0
  BY PairFacts
<1>2. /\ Connected(n, p)
      /\ channel' = [channel EXCEPT ![c0] = @ \o inv \o getdata]
      /\ toSend' = [toSend EXCEPT ![c0] = {}]
      /\ mapAskFor' = [mapAskFor EXCEPT ![c0] = @ \ Due(n, p)]
      /\ setAskFor' = [setAskFor EXCEPT ![c0] = @ \ (due \ wanted)]
      /\ UNCHANGED <<mapSubBlockIndex, syncing, up, mapAlreadyAskedFor, promised>>
  BY <1>1 DEF SendMessages
<1>3. /\ channel[c0] \in Seq(Messages) /\ channel \in [Pairs -> Seq(Messages)]
      /\ toSend[c0] \in SUBSET SubBlocks /\ setAskFor[c0] \in SUBSET SubBlocks
      /\ mapAskFor[c0] \in SUBSET Requests
  BY ChannelType
<1>4. Due(n, p) \subseteq mapAskFor[c0] /\ wanted \subseteq due /\ wanted \in SUBSET SubBlocks
      /\ \A b : b \in due <=> \E e \in Due(n, p) : e.block = b
  <2>1. Due(n, p) \subseteq mapAskFor[c0]
    BY <1>1 DEF Due
  <2>2. wanted \subseteq due
    BY DEF Wanted
  <2>3. \A e \in Requests : e.block \in SubBlocks
    BY DEF Requests
  <2>4. due \subseteq SubBlocks
    BY <1>3, <2>1, <2>3
  <2> QED
    BY <2>1, <2>2, <2>4
<1>5. /\ inv \in Seq(Messages)
      /\ \A b : /\ Sent(inv, "inv", b) = IF b \in toSend[c0] THEN {1} ELSE {}
                /\ \A k \in Commands \ {"inv"} : Sent(inv, k, b) = {}
  <2>1. <<>> \in Seq(Messages) /\ \A k, b : Sent(<<>>, k, b) = {}
    BY DEF Sent
  <2>2. CASE toSend[c0] = {}
    BY <2>1, <2>2
  <2>3. CASE toSend[c0] # {}
    <3>1. /\ Message("inv", toSend[c0]) \in Messages
          /\ Message("inv", toSend[c0]).command = "inv" /\ Message("inv", toSend[c0]).blocks = toSend[c0]
      BY <1>3, MessageType DEF Commands
    <3> QED
      BY <2>3, <3>1, SentOne
  <2> QED
    BY <2>2, <2>3
<1>6. /\ getdata \in Seq(Messages)
      /\ \A b : /\ Sent(getdata, "getdata", b) = IF b \in wanted THEN {1} ELSE {}
                /\ \A k \in Commands \ {"getdata"} : Sent(getdata, k, b) = {}
  <2>1. <<>> \in Seq(Messages) /\ \A k, b : Sent(<<>>, k, b) = {}
    BY DEF Sent
  <2>2. CASE wanted = {}
    BY <2>1, <2>2
  <2>3. CASE wanted # {}
    <3>1. /\ Message("getdata", wanted) \in Messages
          /\ Message("getdata", wanted).command = "getdata" /\ Message("getdata", wanted).blocks = wanted
      BY <1>4, MessageType DEF Commands
    <3> QED
      BY <2>3, <3>1, SentOne, ZenonT(60)
  <2> QED
    BY <2>2, <2>3
<1> HIDE DEF inv, getdata, wanted, due
<1> DEFINE ch == channel[c0]
           X == ch \o inv \o getdata
<1>7. /\ X \in Seq(Messages)
      /\ \A b : \A k \in {"subblock", "notfound"} : Sent(X, k, b) = Sent(ch, k, b)
      /\ \A b : b \notin toSend[c0] => Sent(X, "inv", b) = Sent(ch, "inv", b)
      /\ \A b : b \notin wanted => Sent(X, "getdata", b) = Sent(ch, "getdata", b)
      /\ \A b : Sent(ch, "getdata", b) = {} => AtMostOne(Sent(X, "getdata", b))
  <2> HIDE DEF ch
  <2>1. ch \in Seq(Messages) /\ ch \o inv \in Seq(Messages) /\ X \in Seq(Messages)
    BY <1>3, <1>5, <1>6 DEF ch
  <2>2. ASSUME NEW b, NEW k, Sent(inv, k, b) = {}, Sent(getdata, k, b) = {}
        PROVE  Sent(X, k, b) = Sent(ch, k, b)
    <3>1. Sent(ch \o inv, k, b) = Sent(ch, k, b)
      BY <1>5, <2>1, <2>2, SentNoMore
    <3>2. Sent(X, k, b) = Sent(ch \o inv, k, b)
      <4> DEFINE Y == ch \o inv
      <4>1. Y \in Seq(Messages) /\ X = Y \o getdata
        BY <2>1
      <4> HIDE DEF Y, X
      <4>2. Sent(X, k, b) = Sent(Y, k, b)
        BY <1>6, <2>2, <4>1, SentNoMore
      <4> QED
        BY <4>2 DEF Y
    <3> QED
      BY <3>1, <3>2
  <2>3. ASSUME NEW b, Sent(ch, "getdata", b) = {} PROVE AtMostOne(Sent(X, "getdata", b))
    <3>1. Sent(inv, "getdata", b) = {} /\ AtMostOne(Sent(getdata, "getdata", b))
      BY <1>5, <1>6 DEF Commands, AtMostOne
    <3>2. Sent(ch \o inv, "getdata", b) = {}
      BY <1>5, <2>1, <2>3, <3>1, SentNoMore
    <3> QED
      BY <1>6, <2>1, <3>1, <3>2, SentFirst
  <2>4. \A b : \A k \in {"subblock", "notfound"} : Sent(inv, k, b) = {} /\ Sent(getdata, k, b) = {}
    BY <1>5, <1>6 DEF Commands
  <2>5. \A b : b \notin toSend[c0] => Sent(inv, "inv", b) = {} /\ Sent(getdata, "inv", b) = {}
    BY <1>5, <1>6 DEF Commands
  <2>6. \A b : b \notin wanted => Sent(inv, "getdata", b) = {} /\ Sent(getdata, "getdata", b) = {}
    BY <1>5, <1>6 DEF Commands
  <2> HIDE DEF X
  <2> QED
    BY <2>1, <2>2, <2>3, <2>4, <2>5, <2>6
<1> HIDE DEF X
<1>8. /\ channel'[c0] = X
      /\ \A d \in Pairs \ {c0} : /\ channel'[d] = channel[d] /\ toSend'[d] = toSend[d]
                                 /\ mapAskFor'[d] = mapAskFor[d] /\ setAskFor'[d] = setAskFor[d]
      /\ toSend'[c0] = {} /\ mapAskFor'[c0] = mapAskFor[c0] \ Due(n, p)
      /\ setAskFor'[c0] = setAskFor[c0] \ (due \ wanted)
  BY <1>2 DEF IInv, TypeOK, X
<1>9. TypeOK'
  <2>1. channel' \in [Pairs -> Seq(Messages)]
    BY <1>2, <1>3, <1>7 DEF X
  <2>2. /\ toSend' \in [Pairs -> SUBSET SubBlocks]
        /\ setAskFor' \in [Pairs -> SUBSET SubBlocks]
        /\ mapAskFor' \in [Pairs -> SUBSET Requests]
    BY <1>2 DEF IInv, TypeOK, Requests
  <2> QED
    BY <1>2, <2>1, <2>2 DEF IInv, TypeOK, Messages, Commands, Requests
<1>10. DownInv'
  <2>1. ASSUME NEW c \in Pairs, ~Connected(c[1], c[2])'
        PROVE  toSend'[c] = {} /\ setAskFor'[c] = {} /\ mapAskFor'[c] = {} /\ channel'[c] = <<>>
    <3>1. ~Connected(c[1], c[2]) /\ c # c0
      BY <1>2, <2>1 DEF Connected
    <3> QED
      BY <1>8, <3>1 DEF IInv, DownInv
  <2> QED
    BY <2>1 DEF DownInv
<1>11. ASSUME NEW c \in Pairs, NEW b \in SubBlocks PROVE RequestInv(c, b)'
  <2>1. RequestInv(c, b)
    BY DEF IInv
  <2>2. CASE c = c0
    <3>1. channel'[Rev(c)] = channel[Rev(c)]
      BY <1>1, <1>8, <2>2
    <3>2. Answered(c, b)' = Answered(c, b)
      BY <3>1 DEF Answered
    <3>3. Asked(c, b)' = Asked(c, b) \ Due(n, p)
      BY <1>8, <2>2 DEF Asked
    <3>4. CASE b \notin due
      <4>1. Asked(c, b)' = Asked(c, b)
        BY <1>4, <3>3, <3>4 DEF Asked
      <4>2. Requested(c, b)' = Requested(c, b)
        BY <1>4, <1>7, <1>8, <2>2, <3>4 DEF Requested
      <4>3. b \in setAskFor'[c] <=> b \in setAskFor[c]
        BY <1>8, <2>2, <3>4
      <4> QED
        BY <2>1, <3>2, <4>1, <4>2, <4>3 DEF RequestInv
    <3>5. CASE b \in due
      <4>1. PICK e \in Due(n, p) : e.block = b
        BY <1>4, <3>5
      <4>2. e \in Asked(c, b)
        BY <1>4, <2>2, <4>1 DEF Asked
      <4>3. Asked(c, b)' = {}
        BY <2>1, <3>3, <4>1, <4>2 DEF RequestInv, AtMostOne
      <4>4. Requested(c, b) = {} /\ Answered(c, b) = {} /\ b \in setAskFor[c]
        BY <2>1, <4>2 DEF RequestInv
      <4>5. Requested(c, b)' = Sent(X, "getdata", b) /\ Requested(c, b) = Sent(ch, "getdata", b)
        BY <1>8, <2>2 DEF Requested
      <4>6. AtMostOne(Requested(c, b)')
        BY <1>7, <4>4, <4>5
      <4>7. CASE b \in wanted
        BY <1>8, <2>2, <3>2, <4>3, <4>4, <4>6, <4>7 DEF RequestInv, AtMostOne
      <4>8. CASE b \notin wanted
        <5>1. Requested(c, b)' = {}
          BY <1>7, <4>4, <4>5, <4>8
        <5> QED
          BY <3>2, <4>3, <4>4, <5>1 DEF RequestInv, AtMostOne
      <4> QED
        BY <4>7, <4>8
    <3> QED
      BY <3>4, <3>5
  <2>3. CASE c = Rev(c0)
    <3>1. Rev(c) = c0 /\ c # c0
      BY <1>1, <2>3, PairFacts
    <3>2. channel'[c] = channel[c] /\ mapAskFor'[c] = mapAskFor[c] /\ setAskFor'[c] = setAskFor[c]
      BY <1>8, <3>1
    <3>3. Answered(c, b)' = Answered(c, b)
      BY <1>7, <1>8, <3>1 DEF Answered
    <3> QED
      BY <2>1, <3>2, <3>3 DEF RequestInv, Asked, Requested
  <2>4. CASE c # c0 /\ c # Rev(c0)
    <3>1. Rev(c) \in Pairs /\ Rev(c) # c0
      BY <2>4, PairFacts
    <3> QED
      BY <1>8, <2>1, <2>4, <3>1, RequestFrame
  <2> QED
    BY <2>2, <2>3, <2>4
<1>12. ASSUME NEW c \in Pairs, NEW b \in SubBlocks PROVE HoldInv(c, b)'
  <2>1. HoldInv(c, b)
    BY DEF IInv
  <2>2. CASE c = c0
    <3>1. Rev(c) # c0 /\ Rev(c) \in Pairs
      BY <1>1, <2>2
    <3>2. Asked(Rev(c), b)' = Asked(Rev(c), b) /\ Requested(Rev(c), b)' = Requested(Rev(c), b)
      BY <1>8, <3>1 DEF Asked, Requested
    <3>3. Sent(channel'[c], "notfound", b) = {}
      BY <1>7, <1>8, <2>1, <2>2 DEF HoldInv
    <3>4. b \notin mapSubBlockIndex[c[1]] => Sent(channel'[c], "inv", b) = {}
      <4> SUFFICES ASSUME b \notin mapSubBlockIndex[c[1]] PROVE Sent(channel'[c], "inv", b) = {}
        OBVIOUS
      <4>1. Sent(channel[c0], "inv", b) = {} /\ b \notin toSend[c0]
        BY <2>1, <2>2 DEF HoldInv
      <4> QED
        BY <1>7, <1>8, <2>2, <4>1
    <3> QED
      BY <1>2, <1>8, <2>1, <2>2, <3>2, <3>3, <3>4 DEF HoldInv
  <2>3. CASE c = Rev(c0)
    <3>1. Rev(c) = c0 /\ c # c0 /\ c[1] = p
      BY <1>1, <2>3, PairFacts
    <3>2. channel'[c] = channel[c] /\ toSend'[c] = toSend[c]
      BY <1>8, <3>1
    <3>3. Asked(Rev(c), b)' \subseteq Asked(Rev(c), b)
      BY <1>8, <3>1 DEF Asked
    <3>4. b \notin mapSubBlockIndex[c[1]] => Requested(Rev(c), b)' = {}
      <4> SUFFICES ASSUME b \notin mapSubBlockIndex[c[1]] PROVE Requested(Rev(c), b)' = {}
        OBVIOUS
      <4>1. Requested(c0, b) = {} /\ Asked(c0, b) = {}
        BY <2>1, <3>1 DEF HoldInv
      <4>2. b \notin due
        BY <1>4, <4>1 DEF Asked
      <4> QED
        BY <1>4, <1>7, <1>8, <3>1, <4>1, <4>2 DEF Requested
    <3> QED
      BY <1>2, <2>1, <3>2, <3>3, <3>4 DEF HoldInv
  <2>4. CASE c # c0 /\ c # Rev(c0)
    <3>1. Rev(c) \in Pairs /\ Rev(c) # c0
      BY <2>4, PairFacts
    <3> QED
      BY <1>2, <1>8, <2>1, <2>4, <3>1, HoldFrame
  <2> QED
    BY <2>2, <2>3, <2>4
<1> QED
  BY <1>9, <1>10, <1>11, <1>12 DEF IInv


-------------------------------------------------------------------------------
(* A set that has lost elements, or whose elements have moved. *)
Less(S, T) == (T = {} => S = {}) /\ (AtMostOne(T) => AtMostOne(S))

LEMMA RequestLess ==
  ASSUME NEW c \in Pairs, NEW b, RequestInv(c, b),
         Less(Asked(c, b)', Asked(c, b)), Less(Requested(c, b)', Requested(c, b)),
         Less(Answered(c, b)', Answered(c, b)), setAskFor'[c] = setAskFor[c]
  PROVE  RequestInv(c, b)'
BY DEF RequestInv, Less, AtMostOne

LEMMA HoldLess ==
  ASSUME NEW c \in Pairs, NEW b, HoldInv(c, b),
         b \in mapSubBlockIndex[c[1]] => b \in mapSubBlockIndex'[c[1]],
         toSend'[c] = toSend[c],
         Less(Sent(channel'[c], "inv", b), Sent(channel[c], "inv", b)),
         Less(Sent(channel'[c], "notfound", b), Sent(channel[c], "notfound", b)),
         Less(Requested(Rev(c), b)', Requested(Rev(c), b)),
         Less(Asked(Rev(c), b)', Asked(Rev(c), b)) \/ b \in mapSubBlockIndex'[c[1]]
  PROVE  HoldInv(c, b)'
BY DEF HoldInv, Less

LEMMA LessSame == ASSUME NEW S PROVE Less(S, S)
BY DEF Less

(* The first message is taken from a channel. *)
LEMMA SentConsumed ==
  ASSUME NEW s \in Seq(Messages), s # <<>>, NEW command, NEW b
  PROVE  /\ Less(Sent(Tail(s), command, b), Sent(s, command, b))
         /\ Head(s).command = command /\ b \in Head(s).blocks =>
              /\ Sent(s, command, b) # {}
              /\ AtMostOne(Sent(s, command, b)) => Sent(Tail(s), command, b) = {}
<1> DEFINE S == Sent(s, command, b)
           T == Sent(Tail(s), command, b)
<1>1. \A i : i \in T <=> i \in Nat \ {0} /\ i + 1 \in S
  BY SentTail
<1>2. Head(s).command = command /\ b \in Head(s).blocks <=> 1 \in S
  BY SentTail
<1> HIDE DEF S, T
<1>3. ASSUME AtMostOne(S), NEW i \in T, NEW j \in T PROVE i = j
  <2>1. i + 1 = j + 1 /\ i \in Nat /\ j \in Nat
    BY <1>1, <1>3 DEF AtMostOne
  <2> QED
    BY <2>1
<1>4. S = {} => T = {}
  BY <1>1
<1>5. ASSUME 1 \in S, AtMostOne(S), NEW i \in T PROVE FALSE
  <2>1. i \in Nat \ {0} /\ i + 1 = 1
    BY <1>1, <1>5 DEF AtMostOne
  <2> QED
    BY <2>1
<1>6. Less(T, S)
  BY <1>3, <1>4 DEF Less, AtMostOne
<1> QED
  BY <1>2, <1>5, <1>6 DEF S, T

(* c0[1] takes the first message that c0[2] has sent, and may answer: what *)
(* all three handlers have in common.                                      *)
LEMMA ConsumedFacts ==
  ASSUME IInv, NEW c0 \in Pairs, channel[Rev(c0)] # <<>>
  PROVE  /\ Consumed(c0[1], c0[2]) \in [Pairs -> Seq(Messages)]
         /\ Consumed(c0[1], c0[2])[Rev(c0)] = Tail(channel[Rev(c0)])
         /\ \A d \in Pairs \ {Rev(c0)} : Consumed(c0[1], c0[2])[d] = channel[d]
         /\ Head(channel[Rev(c0)]) \in Messages
         /\ Connected(c0[1], c0[2]) /\ Connected(c0[2], c0[1])
<1>1. Rev(c0) = <<c0[2], c0[1]>> /\ Rev(c0) \in Pairs /\ Rev(c0)[1] = c0[2] /\ Rev(c0)[2] = c0[1]
  BY PairFacts DEF Rev
<1>2. channel[Rev(c0)] \in Seq(Messages) /\ channel \in [Pairs -> Seq(Messages)]
  BY <1>1, ChannelType
<1>3. Tail(channel[Rev(c0)]) \in Seq(Messages) /\ Head(channel[Rev(c0)]) \in Messages
  BY <1>2
<1>4. Connected(c0[1], c0[2]) /\ Connected(c0[2], c0[1])
  BY <1>1, InUse
<1> QED
  BY <1>1, <1>2, <1>3, <1>4 DEF Consumed

LEMMA HandleInvInv ==
  ASSUME IInv, NEW c0 \in Pairs, handle_inv(c0[1], c0[2])
  PROVE  IInv'
<1> DEFINE n == c0[1]
           p == c0[2]
           r == Rev(c0)
           announced == Head(channel[r]).blocks
<1>1. /\ c0 = <<n, p>> /\ r = <<p, n>> /\ n \in Nodes /\ p \in Nodes /\ r \in Pairs /\ r # c0
      /\ r[1] = p /\ Rev(r) = c0
  BY PairFacts DEF Rev
<1>2. channel[r] # <<>> /\ Head(channel[r]).command = "inv" /\ channel' = Consumed(n, p)
      /\ UNCHANGED <<mapSubBlockIndex, syncing, up, toSend>>
  BY <1>1 DEF handle_inv, Arrives
<1>3. PICK asked \in (IF syncing[n] THEN {{}} ELSE Taken(n, p, announced)) :
          /\ setAskFor' = [setAskFor EXCEPT ![c0] = @ \cup asked]
          /\ mapAskFor' = [mapAskFor EXCEPT ![c0] =
               @ \cup {[at |-> request_time(n, b), block |-> b] : b \in asked}]
          /\ mapAlreadyAskedFor' = [mapAlreadyAskedFor EXCEPT ![n] =
               [b \in SubBlocks |-> IF b \in asked THEN request_time(n, b) ELSE @[b]]]
          /\ promised' \subseteq promised
  BY <1>1 DEF handle_inv
<1>4. /\ channel' \in [Pairs -> Seq(Messages)] /\ channel'[r] = Tail(channel[r])
      /\ \A d \in Pairs \ {r} : channel'[d] = channel[d]
      /\ Head(channel[r]) \in Messages /\ channel[r] \in Seq(Messages)
      /\ Connected(n, p) /\ Connected(p, n)
  BY <1>1, <1>2, ConsumedFacts, ChannelType
<1>5. announced \in SUBSET SubBlocks
  BY <1>4 DEF Messages
<1>6. asked \subseteq announced /\ asked \cap setAskFor[c0] = {} /\ asked \in SUBSET SubBlocks
  BY <1>1, <1>3, <1>5 DEF Taken, New
<1>7. \A b \in asked : request_time(n, b) \in Nat
  BY <1>1, <1>6 DEF request_time, Later, IInv, TypeOK
<1> DEFINE new == {[at |-> request_time(n, b), block |-> b] : b \in asked}
<1>8. /\ new \in SUBSET Requests
      /\ \A b : AtMostOne({e \in new : e.block = b})
      /\ \A b : b \notin asked => {e \in new : e.block = b} = {}
  BY <1>6, <1>7 DEF Requests, AtMostOne
<1> HIDE DEF new, announced
<1>9. /\ setAskFor' \in [Pairs -> SUBSET SubBlocks] /\ mapAskFor' \in [Pairs -> SUBSET Requests]
      /\ setAskFor'[c0] = setAskFor[c0] \cup asked /\ mapAskFor'[c0] = mapAskFor[c0] \cup new
      /\ \A d \in Pairs \ {c0} : setAskFor'[d] = setAskFor[d] /\ mapAskFor'[d] = mapAskFor[d]
  <2>1. setAskFor \in [Pairs -> SUBSET SubBlocks] /\ mapAskFor \in [Pairs -> SUBSET Requests]
    BY DEF IInv, TypeOK, Requests
  <2>2. mapAskFor' = [mapAskFor EXCEPT ![c0] = @ \cup new]
    BY <1>3 DEF new
  <2> QED
    BY <1>3, <1>6, <1>8, <2>1, <2>2
<1>10. \A b : Asked(c0, b)' = Asked(c0, b) \cup {e \in new : e.block = b}
  BY <1>9 DEF Asked
<1>11. TypeOK'
  <2>1. mapAlreadyAskedFor' \in [Nodes -> [SubBlocks -> Int]]
    <3>1. mapAlreadyAskedFor \in [Nodes -> [SubBlocks -> Int]]
      BY DEF IInv, TypeOK
    <3>2. [b \in SubBlocks |-> IF b \in asked THEN request_time(n, b)
                               ELSE mapAlreadyAskedFor[n][b]] \in [SubBlocks -> Int]
      BY <1>1, <1>7, <3>1
    <3> QED
      BY <1>1, <1>3, <3>1, <3>2
  <2>2. promised' \subseteq Announcements
    BY <1>3 DEF IInv, TypeOK
  <2> QED
    BY <1>2, <1>4, <1>9, <2>1, <2>2 DEF IInv, TypeOK, Messages, Commands, Requests
<1>12. DownInv'
  <2>1. ASSUME NEW c \in Pairs, ~Connected(c[1], c[2])'
        PROVE  toSend'[c] = {} /\ setAskFor'[c] = {} /\ mapAskFor'[c] = {} /\ channel'[c] = <<>>
    <3>1. ~Connected(c[1], c[2])
      BY <1>2, <2>1 DEF Connected
    <3>2. c # c0 /\ c # r
      BY <1>1, <1>4, <3>1, PairFacts
    <3> QED
      BY <1>2, <1>4, <1>9, <3>1, <3>2 DEF IInv, DownInv
  <2> QED
    BY <2>1 DEF DownInv
<1>13. \A k, b : Less(Sent(channel'[r], k, b), Sent(channel[r], k, b))
  BY <1>2, <1>4, SentConsumed
<1>14. ASSUME NEW c \in Pairs, NEW b \in SubBlocks PROVE RequestInv(c, b)'
  <2>1. RequestInv(c, b) /\ Rev(c) \in Pairs
    BY PairFacts DEF IInv
  <2>2. CASE c = c0 /\ b \in asked
    <3>1. Asked(c, b) = {} /\ Requested(c, b) = {} /\ Answered(c, b) = {}
      BY <1>6, <2>1, <2>2 DEF RequestInv
    <3>2. Requested(c, b)' = {} /\ Answered(c, b)' = {}
      BY <1>1, <1>4, <1>13, <2>2, <3>1 DEF Requested, Answered, Less
    <3>3. Asked(c, b)' = {e \in new : e.block = b}
      BY <1>10, <2>2, <3>1
    <3>4. AtMostOne(Asked(c, b)')
      BY <1>8, <3>3
    <3>5. b \in setAskFor'[c]
      BY <1>9, <2>2
    <3> QED
      BY <3>2, <3>4, <3>5 DEF RequestInv, AtMostOne
  <2>3. CASE c = c0 /\ b \notin asked
    <3>1. Asked(c, b)' = Asked(c, b)
      BY <1>8, <1>10, <2>3
    <3>2. Requested(c, b)' = Requested(c, b) /\ Less(Answered(c, b)', Answered(c, b))
      BY <1>1, <1>4, <1>13, <2>3 DEF Requested, Answered
    <3>3. b \in setAskFor'[c] <=> b \in setAskFor[c]
      BY <1>9, <2>3
    <3> QED
      BY <2>1, <3>1, <3>2, <3>3 DEF RequestInv, Less
  <2>4. CASE c = r
    <3>1. Asked(c, b)' = Asked(c, b) /\ setAskFor'[c] = setAskFor[c]
      BY <1>1, <1>9, <2>4 DEF Asked
    <3>2. Less(Requested(c, b)', Requested(c, b)) /\ Answered(c, b)' = Answered(c, b)
      BY <1>1, <1>4, <1>13, <2>4 DEF Requested, Answered
    <3> QED
      BY <2>1, <3>1, <3>2, LessSame, RequestLess
  <2>5. CASE c # c0 /\ c # r
    <3>1. Rev(c) # r
      BY <2>5, PairFacts
    <3> QED
      BY <1>4, <1>9, <2>1, <2>5, <3>1, RequestFrame
  <2> QED
    BY <2>2, <2>3, <2>4, <2>5
<1>15. ASSUME NEW c \in Pairs, NEW b \in SubBlocks PROVE HoldInv(c, b)'
  <2>1. HoldInv(c, b) /\ Rev(c) \in Pairs
    BY PairFacts DEF IInv
  <2>2. CASE c = c0
    <3>1. channel'[c] = channel[c] /\ Asked(r, b)' = Asked(r, b)
      BY <1>1, <1>4, <1>9, <2>2 DEF Asked
    <3>2. Less(Requested(r, b)', Requested(r, b))
      BY <1>13 DEF Requested
    <3> QED
      BY <1>2, <2>1, <2>2, <3>1, <3>2, LessSame, HoldLess
  <2>3. CASE c = r
    <3>1. Requested(Rev(c), b)' = Requested(Rev(c), b)
      BY <1>1, <1>4, <2>3 DEF Requested
    <3>2. CASE b \in asked
      <4>1. Sent(channel[r], "inv", b) # {}
        <5> DEFINE s == channel[r]
        <5>1. s \in Seq(Messages) /\ s # <<>> /\ Head(s).command = "inv" /\ b \in Head(s).blocks
          BY <1>2, <1>4, <1>6, <3>2 DEF announced
        <5> HIDE DEF s
        <5>2. Sent(s, "inv", b) # {}
          BY <5>1, SentConsumed
        <5> QED
          BY <5>2 DEF s
      <4>2. b \in mapSubBlockIndex'[c[1]]
        BY <1>2, <2>1, <2>3, <4>1 DEF HoldInv
      <4> QED
        BY <1>2, <1>13, <2>1, <2>3, <3>1, <4>2, LessSame, HoldLess
    <3>3. CASE b \notin asked
      <4>1. Asked(Rev(c), b)' = Asked(Rev(c), b)
        BY <1>1, <1>8, <1>10, <2>3, <3>3, ZenonT(60)
      <4> QED
        BY <1>2, <1>13, <2>1, <2>3, <3>1, <4>1, LessSame, HoldLess
    <3> QED
      BY <3>2, <3>3
  <2>4. CASE c # c0 /\ c # r
    <3>1. Rev(c) # r /\ Rev(c) # c0
      BY <1>1, <2>4, PairFacts
    <3> QED
      BY <1>2, <1>4, <1>9, <2>1, <2>4, <3>1, HoldFrame
  <2> QED
    BY <2>2, <2>3, <2>4
<1> QED
  BY <1>11, <1>12, <1>14, <1>15 DEF IInv


(* The SUBBLOCK messages that answer a request. *)
LEMMA AnswerFacts ==
  ASSUME NEW known \in SUBSET SubBlocks
  PROVE  LET list == SetToSeq(known)
             answer == [i \in DOMAIN list |-> Message("subblock", {list[i]})]
         IN /\ answer \in Seq(Messages)
            /\ \A b : AtMostOne(Sent(answer, "subblock", b))
            /\ \A b : b \notin known => Sent(answer, "subblock", b) = {}
            /\ \A b : \A k \in Commands \ {"subblock"} : Sent(answer, k, b) = {}
<1> DEFINE list == SetToSeq(known)
           answer == [i \in DOMAIN list |-> Message("subblock", {list[i]})]
<1>1. IsFiniteSet(known)
  BY SubBlockRelayAssumption, FS_Subset
<1>2. /\ DOMAIN list = 1..Cardinality(known) /\ Cardinality(known) \in Nat
      /\ \A i \in DOMAIN list : list[i] \in known
      /\ \A i, j \in DOMAIN list : list[i] = list[j] => i = j
  BY <1>1, SetToSeqLists
<1> HIDE DEF list
<1>3. \A i \in DOMAIN list :
        /\ Message("subblock", {list[i]}) \in Messages
        /\ Message("subblock", {list[i]}).command = "subblock"
        /\ Message("subblock", {list[i]}).blocks = {list[i]}
  BY <1>2, MessageType DEF Commands
<1>4. DOMAIN answer = DOMAIN list /\ \A i \in DOMAIN list : answer[i] = Message("subblock", {list[i]})
  OBVIOUS
<1>5. answer \in Seq(Messages)
  <2>1. answer \in [1..Cardinality(known) -> Messages]
    BY <1>2, <1>3
  <2> HIDE DEF answer
  <2> QED
    BY <1>2, <2>1, SeqDef
<1> HIDE DEF answer
<1>6. \A b : Sent(answer, "subblock", b) = {i \in DOMAIN list : list[i] = b}
  BY <1>3, <1>4 DEF Sent
<1>7. \A b : AtMostOne(Sent(answer, "subblock", b))
  BY <1>2, <1>6 DEF AtMostOne
<1>8. \A b : b \notin known => Sent(answer, "subblock", b) = {}
  BY <1>2, <1>6
<1>9. \A b : \A k \in Commands \ {"subblock"} : Sent(answer, k, b) = {}
  BY <1>3, <1>4 DEF Sent
<1> QED
  BY <1>5, <1>7, <1>8, <1>9 DEF answer, list

LEMMA GetDataInv ==
  ASSUME IInv, NEW c0 \in Pairs, ProcessGetData(c0[1], c0[2])
  PROVE  IInv'
<1> DEFINE n == c0[1]
           p == c0[2]
           r == Rev(c0)
           requested == Head(channel[r]).blocks
           known == requested \cap mapSubBlockIndex[n]
           list == SetToSeq(known)
           answer == [i \in DOMAIN list |-> Message("subblock", {list[i]})]
           unknown == requested \ mapSubBlockIndex[n]
<1>1. /\ c0 = <<n, p>> /\ r = <<p, n>> /\ n \in Nodes /\ p \in Nodes /\ r \in Pairs /\ r # c0
      /\ r[1] = p /\ Rev(r) = c0
  BY PairFacts DEF Rev
<1>2. /\ channel[r] # <<>> /\ Head(channel[r]).command = "getdata"
      /\ channel' = [Consumed(n, p) EXCEPT ![c0] =
           @ \o answer \o (IF unknown = {} THEN <<>> ELSE <<Message("notfound", unknown)>>)]
      /\ UNCHANGED <<mapSubBlockIndex, syncing, up, toSend, setAskFor, mapAskFor,
                     mapAlreadyAskedFor, promised>>
  BY <1>1, Zenon DEF ProcessGetData, Arrives, peerState
<1>3. /\ Consumed(n, p) \in [Pairs -> Seq(Messages)] /\ Consumed(n, p)[r] = Tail(channel[r])
      /\ \A d \in Pairs \ {r} : Consumed(n, p)[d] = channel[d]
      /\ Head(channel[r]) \in Messages /\ channel[r] \in Seq(Messages)
      /\ channel[c0] \in Seq(Messages)
      /\ Connected(n, p) /\ Connected(p, n)
  BY <1>1, <1>2, ConsumedFacts, ChannelType
<1>4. \A b \in requested : Requested(r, b) # {}
  <2> DEFINE s == channel[r]
  <2>1. s \in Seq(Messages) /\ s # <<>> /\ Head(s).command = "getdata"
    BY <1>2, <1>3
  <2> HIDE DEF s
  <2>2. \A b \in Head(s).blocks : Sent(s, "getdata", b) # {}
    BY <2>1, SentConsumed
  <2> QED
    BY <2>2 DEF s, Requested
<1>5. requested \in SUBSET SubBlocks /\ known \in SUBSET SubBlocks
  BY <1>3 DEF Messages
<1>6. unknown = {}
  <2>1. \A b \in requested : HoldInv(c0, b)
    BY <1>5 DEF IInv
  <2> QED
    BY <1>4, <2>1 DEF HoldInv
<1>7. /\ answer \in Seq(Messages)
      /\ \A b : AtMostOne(Sent(answer, "subblock", b))
      /\ \A b : b \notin known => Sent(answer, "subblock", b) = {}
      /\ \A b : \A k \in Commands \ {"subblock"} : Sent(answer, k, b) = {}
  BY <1>5, AnswerFacts
<1> HIDE DEF answer, list, requested, unknown
<1> DEFINE X == channel[c0] \o answer
<1>8. X \in Seq(Messages) /\ X \o <<>> = X
  BY <1>3, <1>7
<1>9. /\ \A b : \A k \in Commands \ {"subblock"} : Sent(X, k, b) = Sent(channel[c0], k, b)
      /\ \A b : b \notin known => Sent(X, "subblock", b) = Sent(channel[c0], "subblock", b)
      /\ \A b : Sent(channel[c0], "subblock", b) = {} => AtMostOne(Sent(X, "subblock", b))
  <2> HIDE DEF known
  <2>1. ASSUME NEW b, NEW k, Sent(answer, k, b) = {} PROVE Sent(X, k, b) = Sent(channel[c0], k, b)
    BY <1>3, <1>7, <2>1, SentNoMore
  <2>2. ASSUME NEW b, Sent(channel[c0], "subblock", b) = {}
        PROVE  AtMostOne(Sent(X, "subblock", b))
    BY <1>3, <1>7, <2>2, SentFirst
  <2> HIDE DEF X
  <2> QED
    BY <1>7, <2>1, <2>2
<1> HIDE DEF X, known
<1>10. /\ channel' \in [Pairs -> Seq(Messages)] /\ channel'[r] = Tail(channel[r])
       /\ channel'[c0] = X /\ \A d \in Pairs \ {r, c0} : channel'[d] = channel[d]
  <2>1. channel' = [Consumed(n, p) EXCEPT ![c0] = Consumed(n, p)[c0] \o answer \o <<>>]
    BY <1>2, <1>6
  <2>2. Consumed(n, p)[c0] \o answer \o <<>> = X
    BY <1>1, <1>3, <1>8 DEF X
  <2> QED
    BY <1>1, <1>3, <1>8, <2>1, <2>2
<1>11. TypeOK'
  BY <1>2, <1>10 DEF IInv, TypeOK, Messages, Commands
<1>12. DownInv'
  <2>1. ASSUME NEW c \in Pairs, ~Connected(c[1], c[2])'
        PROVE  toSend'[c] = {} /\ setAskFor'[c] = {} /\ mapAskFor'[c] = {} /\ channel'[c] = <<>>
    <3>1. ~Connected(c[1], c[2])
      BY <1>2, <2>1 DEF Connected
    <3>2. c # c0 /\ c # r
      BY <1>1, <1>3, <3>1, PairFacts
    <3> QED
      BY <1>2, <1>10, <3>1, <3>2 DEF IInv, DownInv
  <2> QED
    BY <2>1 DEF DownInv
<1>13. \A k, b : Less(Sent(channel'[r], k, b), Sent(channel[r], k, b))
  BY <1>2, <1>3, <1>10, SentConsumed
<1>14. \A d, b : Asked(d, b)' = Asked(d, b)
  BY <1>2 DEF Asked
<1>15. ASSUME NEW c \in Pairs, NEW b \in SubBlocks PROVE RequestInv(c, b)'
  <2>1. RequestInv(c, b) /\ Rev(c) \in Pairs
    BY PairFacts DEF IInv
  <2>2. CASE c = c0
    <3>1. Requested(c, b)' = Requested(c, b) /\ Less(Answered(c, b)', Answered(c, b))
      BY <1>1, <1>9, <1>10, <1>13, <2>2 DEF Requested, Answered, Commands
    <3> QED
      BY <1>2, <1>14, <2>1, <3>1, LessSame, RequestLess
  <2>3. CASE c = r /\ b \notin known
    <3>1. Less(Requested(c, b)', Requested(c, b))
      BY <1>13, <2>3 DEF Requested
    <3>2. Answered(c, b)' = Answered(c, b)
      BY <1>1, <1>9, <1>10, <2>3 DEF Answered
    <3> QED
      BY <1>2, <1>14, <2>1, <3>1, <3>2, LessSame, RequestLess
  <2>4. CASE c = r /\ b \in known
    <3>1. Requested(c, b) # {}
      BY <1>4, <2>4 DEF known
    <3>2. /\ AtMostOne(Requested(c, b)) /\ Asked(c, b) = {} /\ Answered(c, b) = {}
          /\ b \in setAskFor[c]
      BY <2>1, <3>1 DEF RequestInv
    <3>3. Requested(c, b)' = {}
      <4> DEFINE s == channel[r]
      <4>1. s \in Seq(Messages) /\ s # <<>> /\ Head(s).command = "getdata" /\ b \in Head(s).blocks
        BY <1>2, <1>3, <2>4 DEF known, requested
      <4>2. AtMostOne(Sent(s, "getdata", b))
        BY <2>4, <3>2 DEF Requested
      <4> HIDE DEF s
      <4>3. Sent(Tail(s), "getdata", b) = {}
        BY <4>1, <4>2, SentConsumed
      <4> QED
        BY <1>10, <2>4, <4>3 DEF Requested, s
    <3>4. AtMostOne(Answered(c, b)')
      BY <1>1, <1>9, <1>10, <2>4, <3>2 DEF Answered
    <3> QED
      BY <1>2, <1>14, <3>2, <3>3, <3>4 DEF RequestInv, AtMostOne
  <2>5. CASE c # c0 /\ c # r
    <3>1. Rev(c) # r /\ Rev(c) # c0
      BY <1>1, <2>5, PairFacts
    <3> QED
      BY <1>2, <1>10, <2>1, <2>5, <3>1, RequestFrame
  <2> QED
    BY <2>2, <2>3, <2>4, <2>5
<1>16. ASSUME NEW c \in Pairs, NEW b \in SubBlocks PROVE HoldInv(c, b)'
  <2>1. HoldInv(c, b) /\ Rev(c) \in Pairs
    BY PairFacts DEF IInv
  <2>2. CASE c = c0
    <3>1. Sent(channel'[c], "inv", b) = Sent(channel[c], "inv", b)
          /\ Sent(channel'[c], "notfound", b) = Sent(channel[c], "notfound", b)
      BY <1>9, <1>10, <2>2 DEF Commands
    <3>2. Less(Requested(Rev(c), b)', Requested(Rev(c), b))
      BY <1>13, <2>2 DEF Requested
    <3> QED
      BY <1>2, <1>14, <2>1, <3>1, <3>2, LessSame, HoldLess
  <2>3. CASE c = r
    <3>1. Requested(Rev(c), b)' = Requested(Rev(c), b)
      BY <1>1, <1>9, <1>10, <2>3 DEF Requested, Commands
    <3> QED
      BY <1>2, <1>13, <1>14, <2>1, <2>3, <3>1, LessSame, HoldLess
  <2>4. CASE c # c0 /\ c # r
    <3>1. Rev(c) # r /\ Rev(c) # c0
      BY <1>1, <2>4, PairFacts
    <3> QED
      BY <1>2, <1>10, <2>1, <2>4, <3>1, HoldFrame
  <2> QED
    BY <2>2, <2>3, <2>4
<1> QED
  BY <1>11, <1>12, <1>15, <1>16 DEF IInv

LEMMA SubBlockInv ==
  ASSUME IInv, NEW c0 \in Pairs, handle_subblock(c0[1], c0[2])
  PROVE  IInv'
<1> DEFINE n == c0[1]
           p == c0[2]
           r == Rev(c0)
           got == Head(channel[r]).blocks
<1>1. /\ r = <<p, n>> /\ n \in Nodes /\ p \in Nodes /\ r \in Pairs /\ r # c0 /\ Rev(r) = c0
  BY PairFacts DEF Rev
<1>2. /\ channel[r] # <<>> /\ channel' = Consumed(n, p)
      /\ \/ mapSubBlockIndex' = [mapSubBlockIndex EXCEPT ![n] = @ \cup got]
         \/ mapSubBlockIndex' = mapSubBlockIndex
      /\ promised' \subseteq promised
      /\ UNCHANGED <<syncing, up, toSend, setAskFor, mapAskFor, mapAlreadyAskedFor>>
  BY <1>1 DEF handle_subblock, Arrives, peerState
<1>3. /\ channel' \in [Pairs -> Seq(Messages)] /\ channel'[r] = Tail(channel[r])
      /\ \A d \in Pairs \ {r} : channel'[d] = channel[d]
      /\ Head(channel[r]) \in Messages /\ channel[r] \in Seq(Messages)
      /\ Connected(n, p) /\ Connected(p, n)
  BY <1>1, <1>2, ConsumedFacts, ChannelType
<1>4. got \in SUBSET SubBlocks
  BY <1>3 DEF Messages
<1> HIDE DEF got
<1>5. mapSubBlockIndex' \in [Nodes -> SUBSET SubBlocks]
      /\ \A m \in Nodes : mapSubBlockIndex[m] \subseteq mapSubBlockIndex'[m]
  BY <1>1, <1>2, <1>4 DEF IInv, TypeOK
<1>6. TypeOK'
  BY <1>2, <1>3, <1>5 DEF IInv, TypeOK, Messages, Commands
<1>7. DownInv'
  <2>1. ASSUME NEW c \in Pairs, ~Connected(c[1], c[2])'
        PROVE  toSend'[c] = {} /\ setAskFor'[c] = {} /\ mapAskFor'[c] = {} /\ channel'[c] = <<>>
    <3>1. ~Connected(c[1], c[2])
      BY <1>2, <2>1 DEF Connected
    <3>2. c # r
      BY <1>3, <3>1, PairFacts
    <3> QED
      BY <1>2, <1>3, <3>1, <3>2 DEF IInv, DownInv
  <2> QED
    BY <2>1 DEF DownInv
<1>8. \A d \in Pairs : \A k, b : Less(Sent(channel'[d], k, b), Sent(channel[d], k, b))
  <2>1. \A k, b : Less(Sent(channel'[r], k, b), Sent(channel[r], k, b))
    BY <1>2, <1>3, SentConsumed
  <2> QED
    BY <1>3, <2>1, LessSame
<1>9. \A d, b : Asked(d, b)' = Asked(d, b)
  BY <1>2 DEF Asked
<1>10. ASSUME NEW c \in Pairs, NEW b \in SubBlocks PROVE RequestInv(c, b)' /\ HoldInv(c, b)'
  <2>1. RequestInv(c, b) /\ HoldInv(c, b) /\ Rev(c) \in Pairs /\ c[1] \in Nodes
    BY PairFacts DEF IInv
  <2>2. \A d \in {c, Rev(c)} : Less(Requested(d, b)', Requested(d, b))
    BY <1>8, <2>1 DEF Requested
  <2>3. Less(Answered(c, b)', Answered(c, b))
    BY <1>8, <2>1 DEF Answered
  <2>4. RequestInv(c, b)'
    BY <1>2, <1>9, <2>1, <2>2, <2>3, LessSame, RequestLess
  <2>5. HoldInv(c, b)'
    BY <1>2, <1>5, <1>8, <1>9, <2>1, <2>2, LessSame, HoldLess
  <2> QED
    BY <2>4, <2>5
<1> QED
  BY <1>6, <1>7, <1>10 DEF IInv

-------------------------------------------------------------------------------
LEMMA Invariance == Spec => []IInv
<1>1. Init => IInv
  BY InitInv
<1>2. IInv /\ [Next]_vars => IInv'
  <2> SUFFICES ASSUME IInv, [Next]_vars PROVE IInv'
    OBVIOUS
  <2>1. ASSUME NEW n \in Nodes, NEW b \in SubBlocks, commitsubchaininfo(n, b) PROVE IInv'
    BY <2>1, CommitInv
  <2>2. ASSUME NEW c \in Pairs, SendMessages(c[1], c[2]) \/ Handle(c[1], c[2]) PROVE IInv'
    BY <2>2, SendInv, HandleInvInv, GetDataInv, SubBlockInv DEF Handle
  <2>3. CASE Tick
    BY <2>3, TickInv
  <2>4. ASSUME NEW n \in Nodes, Synced(n) \/ Crash(n) PROVE IInv'
    BY <2>4, SyncedInv, CrashInv
  <2>5. ASSUME NEW l \in Links, Disconnect(l) \/ Connect(l) PROVE IInv'
    BY <2>5, DisconnectInv, ConnectInv
  <2>6. CASE UNCHANGED vars
    <3>1. UNCHANGED <<mapSubBlockIndex, syncing, up, toSend, setAskFor, mapAskFor,
                      mapAlreadyAskedFor, channel, promised>>
      BY <2>6 DEF vars, peerState
    <3>2. TypeOK' /\ DownInv'
      BY <3>1 DEF IInv, TypeOK, DownInv, Connected
    <3>3. ASSUME NEW c \in Pairs, NEW b \in SubBlocks PROVE RequestInv(c, b)' /\ HoldInv(c, b)'
      BY <3>1, RequestFrame, HoldFrame DEF IInv
    <3> QED
      BY <3>2, <3>3 DEF IInv
  <2> QED
    BY <2>1, <2>2, <2>3, <2>4, <2>5, <2>6 DEF Next
<1> QED
  BY <1>1, <1>2, PTL DEF Spec

(* Type correctness of the relay. *)
THEOREM TypeCorrect == Spec => []TypeOK
<1>1. IInv => TypeOK
  BY DEF IInv
<1> QED
  BY <1>1, Invariance, PTL

(* ProcessGetData never has to answer NOTFOUND: whoever is asked for a sub *)
(* block has it.                                                           *)
THEOREM HoldersAsked == Spec => []AsksHolders
<1>1. IInv => AsksHolders
  <2> SUFFICES ASSUME IInv, NEW c \in Pairs, NEW b \in SubBlocks
               PROVE  Mentions(c, "notfound", b) = 0
    BY DEF AsksHolders
  <2>1. Sent(channel[c], "notfound", b) = {}
    BY DEF IInv, HoldInv
  <2> QED
    BY <2>1, FS_EmptySet DEF Mentions, Sent
<1> QED
  BY <1>1, Invariance, PTL

LEMMA AtMostOneCounts ==
  ASSUME NEW S, AtMostOne(S)
  PROVE  Cardinality(S) \in {0, 1} /\ (Cardinality(S) = 0 <=> S = {})
<1>1. CASE S = {}
  BY <1>1, FS_EmptySet
<1>2. ASSUME NEW x \in S PROVE S = {x}
  BY <1>2 DEF AtMostOne
<1>3. CASE S # {}
  BY <1>2, <1>3, FS_Singleton
<1> QED
  BY <1>1, <1>3

(* However often a block is announced over a connection, one request for   *)
(* it is queued, sent or being answered (AskFor and setAskFor).            *)
THEOREM RequestedOnce == Spec => []OneRequestPerPeer
<1>1. IInv => OneRequestPerPeer
  <2> SUFFICES ASSUME IInv, NEW c \in Pairs, NEW b \in SubBlocks
               PROVE  /\ Outstanding(c[1], c[2], b) <= 1
                      /\ Outstanding(c[1], c[2], b) = 1 => b \in setAskFor[c]
    BY DEF OneRequestPerPeer
  <2> DEFINE A == Asked(c, b)
             G == Requested(c, b)
             S == Answered(c, b)
  <2>1. Outstanding(c[1], c[2], b) = Cardinality(A) + Cardinality(G) + Cardinality(S)
    <3>1. c = <<c[1], c[2]>> /\ Rev(c) = <<c[2], c[1]>>
      BY PairFacts DEF Rev
    <3> QED
      BY <3>1, Zenon DEF Outstanding, Mentions, Asked, Requested, Answered, Sent
  <2>2. RequestInv(c, b)
    BY DEF IInv
  <2>3. /\ Cardinality(A) \in {0, 1} /\ (Cardinality(A) = 0 <=> A = {})
        /\ Cardinality(G) \in {0, 1} /\ (Cardinality(G) = 0 <=> G = {})
        /\ Cardinality(S) \in {0, 1} /\ (Cardinality(S) = 0 <=> S = {})
    BY <2>2, AtMostOneCounts DEF RequestInv
  <2>4. (A = {} \/ (G = {} /\ S = {})) /\ (G = {} \/ S = {})
        /\ (b \notin setAskFor[c] => A = {} /\ G = {} /\ S = {})
    BY <2>2 DEF RequestInv
  <2> HIDE DEF A, G, S
  <2> QED
    BY <2>1, <2>3, <2>4
<1> QED
  BY <1>1, Invariance, PTL
===============================================================================
