------------------------- MODULE ChatMessages_proofs -------------------------
(***************************************************************************)
(* Proofs about ChatMessages, for any number of messages on either side: the *)
(* type invariant, that the list holds nothing the server lacks, and that a   *)
(* sent message stays in it unless an older load was still under way.         *)
(***************************************************************************)
EXTENDS ChatMessages, FiniteSetTheorems, TLAPS

(* What an answer that is on its way holds.                                  *)
Answer(x) == IF x \in {NoLoad, Pending} THEN {} ELSE x

LEMMA TypeStep == TypeOK /\ [Next]_vars => TypeOK'
<1> SUFFICES ASSUME TypeOK, [Next]_vars PROVE TypeOK'
  OBVIOUS
<1>0. List \in SUBSET Messages
  BY DEF TypeOK, List
<1>1. ASSUME NEW m \in Messages, OtherSends(m) PROVE TypeOK'
  BY <1>1 DEF TypeOK, OtherSends
<1>2. ASSUME NEW m \in Messages, SendPost(m) PROVE TypeOK'
  <2>0. Cardinality({m}) = 1
    BY FS_Singleton
  <2>1. Cardinality(sending') <= 1
    BY <1>2, <2>0 DEF SendPost
  <2> QED BY <1>2, <2>1 DEF TypeOK, SendPost
<1>3. ASSUME NEW m \in Messages, Event(m) PROVE TypeOK'
  BY <1>3 DEF TypeOK, Event, refresh
<1>4. CASE SendCommit
  BY <1>4 DEF TypeOK, SendCommit, Messages
<1>5. CASE SendDone
  <2>1. Cardinality(sending') <= 1
    BY <1>5, FS_EmptySet DEF SendDone
  <2> QED BY <1>0, <1>5, <2>1 DEF TypeOK, SendDone, refresh, Messages
<1>6. CASE SendFails
  <2>1. Cardinality(sending') <= 1
    BY <1>6, FS_EmptySet DEF SendFails
  <2> QED BY <1>6, <2>1 DEF TypeOK, SendFails
<1>7. CASE BuildIsRead \/ RefreshIsRead
  BY <1>7 DEF TypeOK, BuildIsRead, RefreshIsRead
<1>8. CASE BuildDone \/ BuildFails
  BY <1>8 DEF TypeOK, BuildDone, BuildFails
<1>9. CASE RefreshDone \/ RefreshFails
  BY <1>9 DEF TypeOK, RefreshDone, RefreshFails
<1>10. CASE Poll \/ Retry
  BY <1>10 DEF TypeOK, Poll, Retry, refresh
<1>11. CASE UNCHANGED vars
  BY <1>11 DEF TypeOK, vars
<1> QED BY <1>1, <1>2, <1>3, <1>4, <1>5, <1>6, <1>7, <1>8, <1>9, <1>10, <1>11 DEF Next

LEMMA TypeInit == Init => TypeOK
<1>1. Cardinality({}) <= 1
  BY FS_EmptySet
<1> QED BY <1>1 DEF Init, TypeOK

(* Every list holds messages, and one message at most is being posted.       *)
THEOREM TypeCorrect == Spec => []TypeOK
BY TypeInit, TypeStep, PTL DEF Spec
-----------------------------------------------------------------------------
(* The server only gains messages, so what was read from it or answered by it *)
(* is in it for good; and the list comes from nowhere else.                   *)
FromServer ==
  /\ List \subseteq server /\ answered \subseteq server
  /\ Answer(build) \subseteq server /\ Answer(load) \subseteq server

LEMMA FromServerStep == TypeOK /\ FromServer /\ [Next]_vars => FromServer'
<1> SUFFICES ASSUME TypeOK, FromServer, [Next]_vars PROVE FromServer'
  OBVIOUS
<1> USE DEF FromServer, List, Answer
<1>1. ASSUME NEW m \in Messages, OtherSends(m) \/ SendPost(m) \/ Event(m) PROVE FromServer'
  BY <1>1 DEF OtherSends, SendPost, Event, refresh
<1>2. CASE SendCommit \/ SendDone \/ SendFails
  BY <1>2 DEF SendCommit, SendDone, SendFails, refresh
<1>3. CASE BuildIsRead \/ RefreshIsRead
  BY <1>3 DEF BuildIsRead, RefreshIsRead
<1>4. CASE BuildDone \/ BuildFails
  BY <1>4 DEF BuildDone, BuildFails
<1>5. CASE RefreshDone \/ RefreshFails
  BY <1>5 DEF RefreshDone, RefreshFails
<1>6. CASE Poll \/ Retry
  BY <1>6 DEF Poll, Retry, refresh
<1>7. CASE UNCHANGED vars
  BY <1>7 DEF vars
<1> QED BY <1>1, <1>2, <1>3, <1>4, <1>5, <1>6, <1>7 DEF Next

LEMMA FromServerInit == Init => FromServer
BY DEF Init, FromServer, List, Answer

(* A message whose POST failed does not linger in the list.                  *)
THEOREM NothingUnsentCorrect == Spec => []NothingUnsent
<1>1. FromServer => NothingUnsent
  BY DEF FromServer, NothingUnsent
<1> QED BY <1>1, FromServerInit, TypeCorrect, FromServerStep, PTL DEF Spec
-----------------------------------------------------------------------------
(* While no POST was answered during a load, an answer that has been read     *)
(* holds every message whose POST had been answered by then, and so does the  *)
(* list; a message that is answered meets no load, and starts one.            *)
Kept(x) == x \notin {NoLoad, Pending} => answered \subseteq x

AllKept == ~overtaken => answered \subseteq List /\ Kept(build) /\ Kept(load)

LEMMA AllKeptStep == TypeOK /\ FromServer /\ AllKept /\ [Next]_vars => AllKept'
<1> SUFFICES ASSUME TypeOK, FromServer, AllKept, [Next]_vars, ~overtaken' PROVE AllKept'
  BY DEF AllKept
<1>0. ~overtaken
  <2>1. CASE SendDone
    BY <2>1, Zenon DEF SendDone
  <2>2. CASE overtaken' = overtaken
    BY <2>2
  <2> QED
    BY <2>1, <2>2
    DEF Next, OtherSends, SendPost, Event, SendCommit, SendFails, BuildIsRead, RefreshIsRead,
        BuildDone, BuildFails, RefreshDone, RefreshFails, Poll, Retry, vars
<1>a. answered \subseteq List /\ Kept(build) /\ Kept(load) /\ answered \subseteq server
  BY <1>0 DEF AllKept, FromServer
<1>b. shown \in (SUBSET Messages) \cup {NoValue} /\ List \subseteq Messages /\ sending \subseteq Messages
  BY DEF TypeOK, List, Messages
<1> USE <1>a, ConstantsAssumption DEF AllKept, List, Kept, Messages
<1>1. ASSUME NEW m \in Messages, OtherSends(m) \/ SendPost(m) \/ Event(m) PROVE AllKept'
  BY <1>1 DEF OtherSends, SendPost, Event, refresh
<1>2. CASE SendDone
  <2>1. build = NoLoad /\ load = NoLoad
    BY ONLY <1>2, ~overtaken', Zenon DEF SendDone
  <2>2. shown' = List \cup sending /\ shown' # NoValue
    BY <1>2, <1>b DEF SendDone
  <2> QED BY <1>2, <2>1, <2>2 DEF SendDone, refresh
<1>3. CASE SendCommit \/ SendFails
  BY <1>3 DEF SendCommit, SendFails
<1>4. CASE BuildIsRead \/ RefreshIsRead
  BY <1>4 DEF BuildIsRead, RefreshIsRead
<1>5. CASE BuildDone \/ BuildFails
  BY <1>5 DEF BuildDone, BuildFails, TypeOK
<1>6. CASE RefreshDone \/ RefreshFails
  BY <1>6 DEF RefreshDone, RefreshFails, TypeOK
<1>7. CASE Poll \/ Retry
  BY <1>7 DEF Poll, Retry, refresh
<1>8. CASE UNCHANGED vars
  BY <1>8 DEF vars
<1> QED BY <1>1, <1>2, <1>3, <1>4, <1>5, <1>6, <1>7, <1>8 DEF Next

(* A sent message stays in the list, unless an older load was under way.      *)
THEOREM SentStaysCorrect == Spec => []SentStays
<1>1. Init => AllKept
  BY DEF Init, AllKept, Kept, List
<1>2. AllKept => SentStays
  BY DEF AllKept, SentStays
<1> QED BY <1>1, <1>2, TypeCorrect, FromServerInit, FromServerStep, AllKeptStep, PTL DEF Spec
=============================================================================
