------------------------ MODULE RemoteDispatchProofs ------------------------
(***************************************************************************)
(* Proofs about RemoteDispatch for any number of callers, connections and  *)
(* gates, and any casts.                                                   *)
(***************************************************************************)
EXTENDS RemoteDispatch, FiniteSetTheorems, TLAPS

\* Whoever is about to leave get_or_connect without an error has a connection.
ConnInv ==
  \A c \in Callers :
    \/ pc[c] = "insert"
    \/ pc[c] \in {"release", "collect", "drop"} /\ outcome[c] = "none"
    => conn[c] \in Conns

TypeInv == TypeOK /\ ConnInv

\* The initial state is well typed.
LEMMA TypeInit == Init => TypeInv
  BY CastAssumption DEF Init, TypeInv, TypeOK, ConnInv, OnConnection, Holding, AuthorId

\* Every step of every caller and of every connection keeps the types.
LEMMA TypeStep == TypeInv /\ [Next]_vars => TypeInv'
<1> SUFFICES ASSUME TypeInv, [Next]_vars PROVE TypeInv'
  OBVIOUS
<1> USE DEF TypeInv, TypeOK, ConnInv, OnConnection, Holding
<1>1. ASSUME NEW c \in Callers, Get(c) PROVE TypeInv'
  BY <1>1 DEF Get, connVars, callVars, gateVars, Goto, Use, Tell
<1>2. ASSUME NEW c \in Callers, DialGate(c) PROVE TypeInv'
  BY <1>2 DEF DialGate, IsFresh, connVars, callVars, gateVars, Goto, Use, Tell
<1>3. ASSUME NEW c \in Callers, Acquire(c) PROVE TypeInv'
  BY <1>3 DEF Acquire, connVars, callVars, gateVars, Goto, Use, Tell
<1>4. ASSUME NEW c \in Callers, CancelWait(c) PROVE TypeInv'
  BY <1>4 DEF CancelWait, connVars, callVars, gateVars, Goto, Use, Tell
<1>5. ASSUME NEW c \in Callers, DoubleCheck(c) PROVE TypeInv'
  BY <1>5 DEF DoubleCheck, connVars, callVars, gateVars, Goto, Use, Tell
<1>6. ASSUME NEW c \in Callers, Dial(c) PROVE TypeInv'
  BY <1>6 DEF Dial, NextConn, connVars, callVars, gateVars, Goto, Use, Tell
<1>7. ASSUME NEW c \in Callers, Insert(c) PROVE TypeInv'
  BY <1>7 DEF Insert, connVars, callVars, gateVars, Goto, Use, Tell
<1>8. ASSUME NEW c \in Callers, ReleaseGate(c) PROVE TypeInv'
  BY <1>8 DEF ReleaseGate, connVars, callVars, gateVars, Goto, Use, Tell
<1>9. ASSUME NEW c \in Callers, CollectGate(c) PROVE TypeInv'
  BY <1>9 DEF CollectGate, connVars, callVars, gateVars, Goto, Use, Tell
<1>10. ASSUME NEW c \in Callers, DropGate(c) PROVE TypeInv'
  BY <1>10 DEF DropGate, connVars, callVars, gateVars, Goto, Use, Tell
<1>11. ASSUME NEW c \in Callers, Register(c) PROVE TypeInv'
  BY <1>11
     DEF Register, connVars, callVars, gateVars, Goto, Use, Tell, RequestId,
         Registered, AuthorId
<1>12. ASSUME NEW c \in Callers, TestEnded(c) PROVE TypeInv'
  BY <1>12
     DEF TestEnded, connVars, callVars, gateVars, Goto, Use, Tell, FailCall,
         RemoveEntry, DropSenders, Registered
<1>13. ASSUME NEW c \in Callers, Write(c) PROVE TypeInv'
  BY <1>13
     DEF Write, connVars, callVars, gateVars, Goto, Use, Tell, FailCall,
         FrameSent, RemoveEntry, DropSenders, Registered
<1>14. ASSUME NEW c \in Callers, Answered(c) PROVE TypeInv'
  BY <1>14 DEF Answered, connVars, callVars, gateVars, Goto, Use, Tell
<1>15. ASSUME NEW c \in Callers, SenderDropped(c) PROVE TypeInv'
  BY <1>15
     DEF SenderDropped, connVars, callVars, gateVars, Goto, Use, Tell, FailCall,
         RemoveEntry, DropSenders, Registered
<1>16. ASSUME NEW c \in Callers, TimedOut(c) PROVE TypeInv'
  BY <1>16
     DEF TimedOut, connVars, callVars, gateVars, Goto, Use, Tell, FailCall,
         RemoveEntry, DropSenders, Registered
<1>17. ASSUME NEW c \in Callers, CancelCall(c) PROVE TypeInv'
  BY <1>17 DEF CancelCall, FrameSent, connVars, callVars, gateVars, Goto, Use, Tell
<1>18. ASSUME NEW c \in Callers, EvictFailed(c) PROVE TypeInv'
  BY <1>18 DEF EvictFailed, connVars, callVars, gateVars, Goto, Use, Tell
<1>19. ASSUME NEW k \in Conns, RemoteServes(k) PROVE TypeInv'
  BY <1>19 DEF RemoteServes, connVars, callVars, gateVars, Goto, Use, Tell
<1>20. ASSUME NEW k \in Conns, ReaderRoutes(k) PROVE TypeInv'
  BY <1>20
     DEF ReaderRoutes, connVars, callVars, gateVars, Goto, Use, Tell, RemoveEntry,
         DropSenders, Registered
<1>21. ASSUME NEW k \in Conns, ReaderEnds(k) PROVE TypeInv'
  BY <1>21 DEF ReaderEnds, connVars, callVars, gateVars, Goto, Use, Tell
<1>22. ASSUME NEW k \in Conns, ReaderClears(k) PROVE TypeInv'
  BY <1>22
     DEF ReaderClears, connVars, callVars, gateVars, Goto, Use, Tell, RemoveEntry,
         DropSenders, Registered
<1>23. CASE UNCHANGED vars
  BY <1>23 DEF vars, connVars, callVars, gateVars
<1>24. ASSUME NEW c \in Callers, LockWriter(c) PROVE TypeInv'
  BY <1>24 DEF LockWriter, connVars, callVars, gateVars, Goto
<1>25. ASSUME NEW k \in Conns, ExplicitDial(k) PROVE TypeInv'
  BY <1>25 DEF ExplicitDial, NextConn, connVars, callVars, gateVars
<1> QED
  BY <1>1, <1>2, <1>3, <1>4, <1>5, <1>6, <1>7, <1>8, <1>9, <1>10, <1>11, <1>12,
     <1>13, <1>14, <1>15, <1>16, <1>17, <1>18, <1>19, <1>20, <1>21, <1>22, <1>23,
     <1>24, <1>25 DEF Next, Step, Io, Lock

\* Type correctness, and a connection for whoever came through get_or_connect.
THEOREM TypeCorrect == Spec => []TypeOK
<1>1. Spec => []TypeInv
  BY TypeInit, TypeStep, PTL DEF Spec
<1> QED
  BY <1>1, PTL DEF TypeInv

(***************************************************************************)
(* The dial gate.  What makes DialGuard::drop's count a sound test is that *)
(* every reference but the ones being dropped is to the gate in the map.   *)
(***************************************************************************)
GateInv ==
  /\ \A c \in Callers :
       gateOf[c] # NoGate <=> pc[c] \in Holding \cup {"wait", "collect", "drop"}
  /\ \A c \in Callers : gateOf[c] # NoGate /\ pc[c] # "drop" => dialing = gateOf[c]
  /\ \A c, d \in Callers : pc[c] \in Holding /\ pc[d] \in Holding => c = d

\* A finite set with three distinct members does not count to two.
LEMMA ThreeMembers ==
  ASSUME NEW S, IsFiniteSet(S), NEW x \in S, NEW y \in S, NEW z \in S,
         x # y, x # z, y # z
  PROVE  Cardinality(S) # 2
<1>1. /\ IsFiniteSet(S \ {x})
      /\ Cardinality(S \ {x}) = Cardinality(S) - 1
  BY FS_RemoveElement
<1>2. Cardinality((S \ {x}) \ {y}) = Cardinality(S \ {x}) - 1
      /\ IsFiniteSet((S \ {x}) \ {y})
  BY <1>1, FS_RemoveElement
<1>3. Cardinality((S \ {x}) \ {y}) # 0
  BY <1>2, FS_EmptySet
<1>4. Cardinality(S) \in Nat
  BY FS_CardinalityType
<1> QED
  BY <1>1, <1>2, <1>3, <1>4

\* The references to a gate are finitely many.
LEMMA RefsFinite == ASSUME NEW g PROVE IsFiniteSet(Refs(g))
<1> DEFINE Who == Callers \cup {NoCaller}
           What == (({} \cup {"map"}) \cup {"own"}) \cup {"lock"}
<1>1. IsFiniteSet(Who)
  BY FiniteAssumption, FS_AddElement
<1>2. IsFiniteSet(What)
  BY FS_EmptySet, FS_AddElement
<1>3. IsFiniteSet(Who \X What)
  BY <1>1, <1>2, FS_Product
<1>4. Refs(g) \in SUBSET (Who \X What)
  BY DEF Refs
<1> QED
  BY <1>3, <1>4, FS_Subset

\* DialGuard::drop's test: a count of two while the gate is in the map means
\* that no other caller has a reference to it.
LEMMA CountTwo ==
  ASSUME NEW c \in Callers, NEW d \in Callers, dialing = gateOf[c],
         gateOf[d] = gateOf[c], StrongCount(gateOf[c]) = 2
  PROVE  d = c
<1> DEFINE g == gateOf[c]
<1>1. /\ <<NoCaller, "map">> \in Refs(g)
      /\ <<c, "own">> \in Refs(g)
      /\ <<d, "own">> \in Refs(g)
  BY DEF Refs
<1>2. IsFiniteSet(Refs(g))
  BY RefsFinite
<1> SUFFICES ASSUME d # c PROVE FALSE
  OBVIOUS
<1>3. Cardinality(Refs(g)) # 2
  BY <1>1, <1>2, ThreeMembers
<1> QED
  BY <1>3 DEF StrongCount

\* Nobody has a gate at first.
LEMMA GateInit == Init => GateInv
  BY CastAssumption DEF Init, GateInv, Holding

\* Every step keeps the gate's invariant; only dial_gate, the lock and the
\* guard's drop touch it.
LEMMA GateStep == TypeInv /\ GateInv /\ [Next]_vars => GateInv'
<1> SUFFICES ASSUME TypeInv, GateInv, [Next]_vars PROVE GateInv'
  OBVIOUS
<1> USE NobodyAssumption DEF TypeInv, TypeOK, GateInv, Holding
<1>1. ASSUME NEW c \in Callers, Get(c) PROVE GateInv'
  BY <1>1 DEF Get, connVars, callVars, gateVars, Goto, Use, Tell
<1>2. ASSUME NEW c \in Callers, DialGate(c) PROVE GateInv'
  BY <1>2 DEF DialGate, IsFresh, connVars, callVars, gateVars, Goto, Use, Tell
<1>3. ASSUME NEW c \in Callers, Acquire(c) PROVE GateInv'
  BY <1>3 DEF Acquire, connVars, callVars, gateVars, Goto, Use, Tell
<1>4. ASSUME NEW c \in Callers, CancelWait(c) PROVE GateInv'
  BY <1>4 DEF CancelWait, connVars, callVars, gateVars, Goto, Use, Tell
<1>5. ASSUME NEW c \in Callers, DoubleCheck(c) PROVE GateInv'
  BY <1>5 DEF DoubleCheck, connVars, callVars, gateVars, Goto, Use, Tell
<1>6. ASSUME NEW c \in Callers, Dial(c) PROVE GateInv'
  BY <1>6 DEF Dial, NextConn, connVars, callVars, gateVars, Goto, Use, Tell
<1>7. ASSUME NEW c \in Callers, Insert(c) PROVE GateInv'
  BY <1>7 DEF Insert, connVars, callVars, gateVars, Goto, Use, Tell
<1>8. ASSUME NEW c \in Callers, ReleaseGate(c) PROVE GateInv'
  BY <1>8 DEF ReleaseGate, connVars, callVars, gateVars, Goto, Use, Tell
<1>9. ASSUME NEW c \in Callers, CollectGate(c) PROVE GateInv'
  <2>1. dialing = gateOf[c]
    BY <1>9 DEF CollectGate
  <2>2. ASSUME StrongCount(gateOf[c]) = 2, NEW d \in Callers, gateOf[d] = gateOf[c]
        PROVE d = c
    BY <2>1, <2>2, CountTwo
  <2>3. CASE StrongCount(gateOf[c]) = 2
    BY <1>9, <2>1, <2>2, <2>3 DEF CollectGate, callVars, connVars, Goto
  <2>4. CASE StrongCount(gateOf[c]) # 2
    BY <1>9, <2>4 DEF CollectGate, callVars, connVars, Goto
  <2> QED
    BY <2>3, <2>4
<1>10. ASSUME NEW c \in Callers, DropGate(c) PROVE GateInv'
  BY <1>10 DEF DropGate, connVars, callVars, gateVars, Goto, Use, Tell
<1>11. ASSUME NEW c \in Callers, Register(c) PROVE GateInv'
  BY <1>11 DEF Register, connVars, callVars, gateVars, Goto, Use, Tell
<1>12. ASSUME NEW c \in Callers, TestEnded(c) PROVE GateInv'
  BY <1>12 DEF TestEnded, connVars, callVars, gateVars, Goto, Use, Tell, FailCall
<1>13. ASSUME NEW c \in Callers, Write(c) PROVE GateInv'
  BY <1>13 DEF Write, FrameSent, connVars, callVars, gateVars, Goto, Use, Tell, FailCall
<1>14. ASSUME NEW c \in Callers, Answered(c) PROVE GateInv'
  BY <1>14 DEF Answered, connVars, callVars, gateVars, Goto, Use, Tell
<1>15. ASSUME NEW c \in Callers, SenderDropped(c) PROVE GateInv'
  BY <1>15 DEF SenderDropped, connVars, callVars, gateVars, Goto, Use, Tell, FailCall
<1>16. ASSUME NEW c \in Callers, TimedOut(c) PROVE GateInv'
  BY <1>16 DEF TimedOut, connVars, callVars, gateVars, Goto, Use, Tell, FailCall
<1>17. ASSUME NEW c \in Callers, CancelCall(c) PROVE GateInv'
  BY <1>17 DEF CancelCall, FrameSent, connVars, callVars, gateVars, Goto, Use, Tell
<1>18. ASSUME NEW c \in Callers, EvictFailed(c) PROVE GateInv'
  BY <1>18 DEF EvictFailed, connVars, callVars, gateVars, Goto, Use, Tell
<1>19. ASSUME NEW k \in Conns, RemoteServes(k) PROVE GateInv'
  BY <1>19 DEF RemoteServes, connVars, callVars, gateVars, Goto, Use, Tell
<1>20. ASSUME NEW k \in Conns, ReaderRoutes(k) PROVE GateInv'
  BY <1>20 DEF ReaderRoutes, connVars, callVars, gateVars, Goto, Use, Tell
<1>21. ASSUME NEW k \in Conns, ReaderEnds(k) PROVE GateInv'
  BY <1>21 DEF ReaderEnds, connVars, callVars, gateVars, Goto, Use, Tell
<1>22. ASSUME NEW k \in Conns, ReaderClears(k) PROVE GateInv'
  BY <1>22 DEF ReaderClears, connVars, callVars, gateVars, Goto, Use, Tell
<1>23. CASE UNCHANGED vars
  BY <1>23 DEF vars, connVars, callVars, gateVars
<1>24. ASSUME NEW c \in Callers, LockWriter(c) PROVE GateInv'
  BY <1>24 DEF LockWriter, connVars, callVars, gateVars, Goto
<1>25. ASSUME NEW k \in Conns, ExplicitDial(k) PROVE GateInv'
  BY <1>25 DEF ExplicitDial, NextConn, connVars, callVars, gateVars
<1> QED
  BY <1>1, <1>2, <1>3, <1>4, <1>5, <1>6, <1>7, <1>8, <1>9, <1>10, <1>11, <1>12,
     <1>13, <1>14, <1>15, <1>16, <1>17, <1>18, <1>19, <1>20, <1>21, <1>22, <1>23,
     <1>24, <1>25 DEF Next, Step, Io, Lock

\* Section 10.3 obligation 5: at most one establishment is in flight, for any
\* number of callers, whatever dials succeed, fail or are cancelled.
THEOREM OneDialAtATime == Spec => []SingleFlight
<1>1. Spec => [](TypeInv /\ GateInv)
  BY TypeInit, TypeStep, GateInit, GateStep, PTL DEF Spec
<1>2. GateInv => SingleFlight
  BY DEF GateInv, SingleFlight, Holding
<1> QED
  BY <1>1, <1>2, PTL

\* DialGuard::drop never takes the gate from under a caller that waits for it or
\* holds it.
THEOREM GateStays == Spec => []GateInMap
<1>1. Spec => [](TypeInv /\ GateInv)
  BY TypeInit, TypeStep, GateInit, GateStep, PTL DEF Spec
<1>2. GateInv => GateInMap
  BY DEF GateInv, GateInMap, Holding
<1> QED
  BY <1>1, <1>2, PTL

(***************************************************************************)
(* The demux table.  Register before the test, flag before the clear: an   *)
(* open channel has its sender in the table, and once the reader is over   *)
(* the table holds only callers that are yet to look at the flag.          *)
(***************************************************************************)
TableInv ==
  /\ \A c \in Callers :
       pc[c] \in {"test", "write", "writing", "await"} /\ chan[c] = "open"
         => c \in pending[conn[c]]
  /\ \A k \in Conns : \A c \in pending[k] :
       reader[k] = "over" => pc[c] = "test"
  /\ \A k \in Conns : \A c \in pending[k] :
       conn[c] = k /\ pc[c] \in {"test", "write", "writing", "await", "failed", "done"}

\* The tables are empty at first.
LEMMA TableInit == Init => TableInv
  BY CastAssumption DEF Init, TableInv

\* A call that fails leaves the table and drops the senders of its id: the
\* channels that stay open keep their entries.
LEMMA FailTable ==
  ASSUME TypeInv, TableInv, NEW c \in Callers, FailCall(c),
         pc[c] \in {"test", "write", "writing", "await"}, UNCHANGED <<conn, id, reader>>
  PROVE  TableInv'
<1> USE NobodyAssumption DEF TypeInv, TypeOK, TableInv, OnConnection, Holding
<1>1. /\ \A k \in Conns : c \in pending[k] => k = conn[c]
      /\ conn[c] \in Conns
  OBVIOUS
<1>2. /\ pending' = [pending EXCEPT ![conn[c]] = pending[conn[c]] \ Registered(conn[c], id[c])]
      /\ pc' = [pc EXCEPT ![c] = "failed"]
      /\ chan' = [d \in Callers |->
                   IF d \in Registered(conn[c], id[c]) \ {c} /\ chan[d] = "open"
                   THEN "dropped" ELSE chan[d]]
  BY DEF FailCall, RemoveEntry, DropSenders, Goto
<1>3. \A k \in Conns : c \notin pending'[k]
  BY <1>1, <1>2 DEF Registered
<1>4. \A k \in Conns : pending'[k] \subseteq pending[k]
  BY <1>2
<1>5. \A d \in Callers \ {c} : pc'[d] = pc[d]
  BY <1>2
<1>6. \A d \in Callers \ {c} :
        chan'[d] = "open" => chan[d] = "open" /\ d \notin Registered(conn[c], id[c])
  BY <1>2
<1>7. \A d \in Callers : pc'[d] \in {"test", "write", "writing", "await"} /\ chan'[d] = "open"
                         => d \in pending'[conn'[d]]
  BY <1>1, <1>2, <1>5, <1>6
<1>8. \A k \in Conns : \A d \in pending'[k] :
        /\ reader'[k] = "over" => pc'[d] = "test"
        /\ conn'[d] = k /\ pc'[d] \in {"test", "write", "writing", "await", "failed", "done"}
  BY <1>1, <1>3, <1>4, <1>5
<1> QED
  BY <1>7, <1>8

\* Every step keeps the table's invariant.
LEMMA TableStep == TypeInv /\ TableInv /\ [Next]_vars => TableInv'
<1> SUFFICES ASSUME TypeInv, TableInv, [Next]_vars PROVE TableInv'
  OBVIOUS
<1> USE NobodyAssumption DEF TypeInv, TypeOK, TableInv, OnConnection, Holding
<1>1. ASSUME NEW c \in Callers, Get(c) PROVE TableInv'
  BY <1>1 DEF Get, connVars, callVars, gateVars, Goto, Use, Tell
<1>2. ASSUME NEW c \in Callers, DialGate(c) PROVE TableInv'
  BY <1>2 DEF DialGate, IsFresh, connVars, callVars, gateVars, Goto, Use, Tell
<1>3. ASSUME NEW c \in Callers, Acquire(c) PROVE TableInv'
  BY <1>3 DEF Acquire, connVars, callVars, gateVars, Goto, Use, Tell
<1>4. ASSUME NEW c \in Callers, CancelWait(c) PROVE TableInv'
  BY <1>4 DEF CancelWait, connVars, callVars, gateVars, Goto, Use, Tell
<1>5. ASSUME NEW c \in Callers, DoubleCheck(c) PROVE TableInv'
  BY <1>5 DEF DoubleCheck, connVars, callVars, gateVars, Goto, Use, Tell
<1>6. ASSUME NEW c \in Callers, Dial(c) PROVE TableInv'
  BY <1>6 DEF Dial, NextConn, connVars, callVars, gateVars, Goto, Use, Tell
<1>7. ASSUME NEW c \in Callers, Insert(c) PROVE TableInv'
  BY <1>7 DEF Insert, connVars, callVars, gateVars, Goto, Use, Tell
<1>8. ASSUME NEW c \in Callers, ReleaseGate(c) PROVE TableInv'
  BY <1>8 DEF ReleaseGate, connVars, callVars, gateVars, Goto, Use, Tell
<1>9. ASSUME NEW c \in Callers, CollectGate(c) PROVE TableInv'
  BY <1>9 DEF CollectGate, connVars, callVars, gateVars, Goto, Use, Tell
<1>10. ASSUME NEW c \in Callers, DropGate(c) PROVE TableInv'
  BY <1>10 DEF DropGate, connVars, callVars, gateVars, Goto, Use, Tell
<1>11. ASSUME NEW c \in Callers, Register(c) PROVE TableInv'
  BY <1>11 DEF Register, connVars, callVars, gateVars, Goto, Use, Tell, Registered
<1>12. ASSUME NEW c \in Callers, TestEnded(c) PROVE TableInv'
  <2>1. /\ \A k \in Conns : c \in pending[k] => k = conn[c]
        /\ conn[c] \in Conns /\ UNCHANGED <<conn, id, reader>>
    BY <1>12 DEF TestEnded
  <2>2. CASE reader[conn[c]] # "reading"
    BY <1>12, <2>2, FailTable DEF TestEnded
  <2>3. CASE reader[conn[c]] = "reading"
    <3>1. UNCHANGED <<pending, chan>> /\ pc' = [pc EXCEPT ![c] = "write"]
      BY <1>12, <2>3 DEF TestEnded, Goto
    <3>2. \A d \in Callers : d # c => pc'[d] = pc[d]
      BY <3>1
    <3>3. pc[c] = "test" /\ pc'[c] = "write"
      BY <1>12, <3>1 DEF TestEnded
    <3>4. \A k \in Conns : \A d \in pending[k] : reader[k] = "over" => pc'[d] = "test"
      BY <2>1, <2>3, <3>2
    <3> QED
      BY <2>1, <3>1, <3>2, <3>3, <3>4
  <2> QED
    BY <2>2, <2>3
<1>13. ASSUME NEW c \in Callers, Write(c) PROVE TableInv'
  <2>1. pc[c] = "writing" /\ UNCHANGED <<conn, id, reader>>
    BY <1>13 DEF Write
  <2>2. CASE FailCall(c)
    BY <2>1, <2>2, FailTable
  <2>3. CASE Goto(c, "await") /\ UNCHANGED <<pending, chan>>
    <3>1. \A d \in Callers : pc'[d] = IF d = c THEN "await" ELSE pc[d]
      BY <2>3 DEF Goto
    <3>2. \A d \in Callers : pc'[d] \in {"test", "write", "writing", "await"} /\ chan'[d] = "open"
                             => d \in pending'[conn'[d]]
      BY <2>1, <2>3, <3>1
    <3>3. \A k \in Conns : \A d \in pending'[k] :
            /\ reader'[k] = "over" => pc'[d] = "test"
            /\ conn'[d] = k /\ pc'[d] \in {"test", "write", "writing", "await", "failed", "done"}
      BY <2>1, <2>3, <3>1
    <3> QED
      BY <3>2, <3>3
  <2> QED
    BY <1>13, <2>2, <2>3 DEF Write
<1>14. ASSUME NEW c \in Callers, Answered(c) PROVE TableInv'
  BY <1>14 DEF Answered, connVars, callVars, gateVars, Goto, Use, Tell
<1>15. ASSUME NEW c \in Callers, SenderDropped(c) PROVE TableInv'
  BY <1>15, FailTable DEF SenderDropped
<1>16. ASSUME NEW c \in Callers, TimedOut(c) PROVE TableInv'
  BY <1>16, FailTable DEF TimedOut
<1>17. ASSUME NEW c \in Callers, CancelCall(c) PROVE TableInv'
  BY <1>17 DEF CancelCall, FrameSent, connVars, callVars, gateVars, Goto, Use, Tell
<1>18. ASSUME NEW c \in Callers, EvictFailed(c) PROVE TableInv'
  BY <1>18 DEF EvictFailed, connVars, callVars, gateVars, Goto, Use, Tell
<1>19. ASSUME NEW k \in Conns, RemoteServes(k) PROVE TableInv'
  BY <1>19 DEF RemoteServes, connVars, callVars, gateVars, Goto, Use, Tell
<1>20. ASSUME NEW k \in Conns, ReaderRoutes(k) PROVE TableInv'
  BY <1>20
     DEF ReaderRoutes, connVars, callVars, gateVars, Goto, Use, Tell, RemoveEntry,
         DropSenders, Registered
<1>21. ASSUME NEW k \in Conns, ReaderEnds(k) PROVE TableInv'
  BY <1>21 DEF ReaderEnds, connVars, callVars, gateVars, Goto, Use, Tell
<1>22. ASSUME NEW k \in Conns, ReaderClears(k) PROVE TableInv'
  BY <1>22
     DEF ReaderClears, connVars, callVars, gateVars, Goto, Use, Tell, RemoveEntry,
         DropSenders, Registered
<1>23. CASE UNCHANGED vars
  BY <1>23 DEF vars, connVars, callVars, gateVars
<1>24. ASSUME NEW c \in Callers, LockWriter(c) PROVE TableInv'
  BY <1>24 DEF LockWriter, connVars, callVars, gateVars, Goto
<1>25. ASSUME NEW k \in Conns, ExplicitDial(k) PROVE TableInv'
  BY <1>25 DEF ExplicitDial, NextConn, connVars, callVars, gateVars
<1> QED
  BY <1>1, <1>2, <1>3, <1>4, <1>5, <1>6, <1>7, <1>8, <1>9, <1>10, <1>11, <1>12,
     <1>13, <1>14, <1>15, <1>16, <1>17, <1>18, <1>19, <1>20, <1>21, <1>22, <1>23,
     <1>24, <1>25 DEF Next, Step, Io, Lock

\* remote.rs, "race-free in both directions": once the reader is over, nobody is
\* left waiting for the deadline, however the registrations, the flag and the
\* clear interleave, for any number of callers and connections.
THEOREM NobodyWaits == Spec => []NobodyWaitsInVain
<1>1. Spec => [](TypeInv /\ TableInv)
  BY TypeInit, TypeStep, TableInit, TableStep, PTL DEF Spec
<1>2. TypeInv /\ TableInv => NobodyWaitsInVain
  BY DEF TypeInv, TypeOK, OnConnection, TableInv, NobodyWaitsInVain
<1> QED
  BY <1>1, <1>2, PTL

(***************************************************************************)
(* The request ids.  Without a relay on the connection every id comes from *)
(* the connection's own counter, so the callers on one connection have     *)
(* different ids, and whatever is routed or removed under an id is its     *)
(* caller's own.                                                           *)
(***************************************************************************)
Registering == {"test", "write", "writing", "await", "failed", "done"}

\* Until get_or_connect has one, a caller has no connection ...
NoConnYet ==
  \A c \in Callers :
    \/ pc[c] \in {"absent", "idle", "enter", "wait", "check", "dial"}
    \/ pc[c] \in {"release", "collect", "drop"} /\ outcome[c] # "none"
    => conn[c] = NoConn

\* ... and until it registers, no channel, and nothing of it is on a connection.
NothingYet ==
  /\ \A c \in Callers : pc[c] \notin Registering => chan[c] = "none"
  /\ \A k \in Conns : \A c \in pending[k] \cup inflight[k] \cup answers[k] :
       conn[c] = k /\ pc[c] \in Registering

\* The callers that have registered on connection k.
On(k) == {c \in Callers : conn[c] = k /\ pc[c] \in Registering}

OwnIds ==
  \A k \in Conns :
    /\ \A c \in On(k) : id[c] <= seq[k]
    /\ \A c, d \in On(k) : id[c] = id[d] => c = d

\* A caller is told something only when its call is over.
ToldAtTheEnd ==
  \A c \in Callers :
    outcome[c] # "none" => pc[c] \in {"release", "collect", "drop", "failed", "done"}

\* A frame on its way out or an answer on its way back is that of a caller that
\* waits for the answer or has been told.
SentOrTold ==
  \A k \in Conns : \A c \in inflight[k] \cup answers[k] :
    pc[c] = "await" \/ outcome[c] # "none"

\* Answers come from the remote peer.
AnswersServed ==
  /\ \A k \in Conns : answers[k] \subseteq served
  /\ \A c \in Callers : chan[c] = "answered" => c \in served

CallInv ==
  /\ NoConnYet /\ NothingYet /\ OwnIds /\ ToldAtTheEnd /\ SentOrTold
  /\ AnswersServed /\ DroppedForCause

\* Under a registered caller's id, the table holds that caller or nobody.
LEMMA Alone ==
  ASSUME TypeInv, CallInv, NEW k \in Conns, NEW c \in On(k)
  PROVE  Registered(k, id[c]) \subseteq {c}
  BY DEF TypeInv, TypeOK, CallInv, NothingYet, OwnIds, On, Registered

\* The error exits of dispatch_raw touch nobody else's entry or channel.
LEMMA FailsAlone ==
  ASSUME TypeInv, CallInv, NEW c \in Callers, pc[c] \in {"test", "write", "writing", "await"},
         FailCall(c)
  PROVE  /\ pc' = [pc EXCEPT ![c] = "failed"]
         /\ outcome' = [outcome EXCEPT ![c] = "failed"]
         /\ chan' = chan
         /\ pending' \in [Conns -> SUBSET Callers]
         /\ \A k \in Conns : pending'[k] \subseteq pending[k]
<1>1. conn[c] \in Conns /\ c \in On(conn[c])
  BY DEF TypeInv, TypeOK, OnConnection, On, Registering
<1>2. Registered(conn[c], id[c]) \ {c} = {}
  BY <1>1, Alone
<1>3. chan' = [d \in Callers |-> chan[d]]
  BY <1>2 DEF FailCall, DropSenders
<1>4. chan' = chan
  BY <1>3 DEF TypeInv, TypeOK
<1>5. pending' = [pending EXCEPT ![conn[c]] = @ \ Registered(conn[c], id[c])]
  BY DEF FailCall, RemoveEntry
<1> QED
  BY <1>4, <1>5 DEF FailCall, Goto, Tell, TypeInv, TypeOK

\* Nobody has a connection at first.
LEMMA CallsInit == Init => CallInv
  BY CastAssumption DEF Init, CallInv, NoConnYet, NothingYet, OwnIds, On, Registering,
     ToldAtTheEnd, SentOrTold, AnswersServed, DroppedForCause, AuthorId

\* A step inside get_or_connect changes nothing for the calls on connections.
LEMMA StepBefore ==
  ASSUME TypeInv, CallInv, NEW c \in Callers, NEW l, NEW x, NEW o,
         pc[c] \notin Registering, l \notin Registering,
         pc' = [pc EXCEPT ![c] = l], conn' = [conn EXCEPT ![c] = x],
         outcome' = [outcome EXCEPT ![c] = o],
         UNCHANGED <<id, chan, seq, pending, reader, inflight, answers, garbled, served>>,
         l \in {"enter", "dial"} \/ (l = "release" /\ o # "none") => x = NoConn,
         l \notin {"absent", "idle", "wait", "check", "collect", "drop"},
         o # "none" => l = "release"
  PROVE  CallInv'
<1> USE DEF TypeInv, TypeOK, CallInv
<1>1. /\ pc'[c] = l /\ conn'[c] = x /\ outcome'[c] = o
      /\ \A d \in Callers \ {c} : pc'[d] = pc[d] /\ conn'[d] = conn[d] /\ outcome'[d] = outcome[d]
  OBVIOUS
<1>2. \A k \in Conns : On(k)' = On(k)
  BY <1>1 DEF On
<1>3. NoConnYet'
  BY <1>1 DEF NoConnYet
<1>4. NothingYet'
  BY <1>1 DEF NothingYet
<1>5. OwnIds'
  BY <1>2 DEF OwnIds
<1>6. ToldAtTheEnd'
  BY <1>1 DEF ToldAtTheEnd
<1>7. AnswersServed'
  BY DEF AnswersServed
<1>8. DroppedForCause'
  BY <1>1 DEF DroppedForCause, NothingYet
<1>9. SentOrTold'
  BY <1>1 DEF SentOrTold, NothingYet
<1> QED
  BY <1>3, <1>4, <1>5, <1>6, <1>7, <1>8, <1>9

\* A step of a registered call that leaves every channel alone, and puts nothing
\* on a connection but its own frame.
LEMMA StepAfter ==
  ASSUME TypeInv, CallInv, NEW c \in Callers, NEW l, NEW o,
         pc[c] \in Registering, l \in Registering,
         pc' = [pc EXCEPT ![c] = l], outcome' = [outcome EXCEPT ![c] = o],
         UNCHANGED <<conn, id, chan, seq, reader, answers, garbled, served>>,
         \A k \in Conns : pending'[k] \subseteq pending[k],
         \A k \in Conns : \A d \in inflight'[k] :
           d \in inflight[k] \/ (d = c /\ k = conn[c]),
         o # "none" => l \in {"failed", "done"},
         \/ o # "none" \/ l = "await"
         \/ pc[c] # "await" /\ outcome[c] = "none" /\ inflight' = inflight
  PROVE  CallInv'
<1> USE DEF TypeInv, TypeOK, CallInv
<1>1. /\ pc'[c] = l /\ outcome'[c] = o
      /\ \A d \in Callers \ {c} : pc'[d] = pc[d] /\ outcome'[d] = outcome[d]
  OBVIOUS
<1>2. \A k \in Conns : On(k)' = On(k)
  BY <1>1 DEF On
<1>3. NoConnYet'
  BY <1>1 DEF NoConnYet, Registering
<1>4. NothingYet'
  BY <1>1 DEF NothingYet
<1>5. OwnIds'
  BY <1>2 DEF OwnIds
<1>6. ToldAtTheEnd'
  BY <1>1 DEF ToldAtTheEnd
<1>7. AnswersServed'
  BY DEF AnswersServed
<1>8. DroppedForCause'
  BY DEF DroppedForCause
<1>9. SentOrTold'
  BY <1>1 DEF SentOrTold
<1> QED
  BY <1>3, <1>4, <1>5, <1>6, <1>7, <1>8, <1>9

\* Registration takes an id nobody on the connection has.
LEMMA StepRegister ==
  ASSUME Relays = {}, TypeInv, CallInv, NEW c \in Callers, Register(c)
  PROVE  CallInv'
<1> DEFINE k == conn[c]
           i == seq[k] + 1
<1>1. pc[c] = "register" /\ k \in Conns
  BY DEF Register, TypeInv, TypeOK, OnConnection
<1>2. Registered(k, i) = {}
  BY <1>1 DEF Registered, TypeInv, TypeOK, CallInv, NothingYet, OwnIds, On
<1>3. RequestId(c) = i
  BY DEF RequestId
<1>4. /\ pc' = [pc EXCEPT ![c] = "test"]
      /\ id' = [id EXCEPT ![c] = i]
      /\ seq' = [seq EXCEPT ![k] = i]
      /\ UNCHANGED <<conn, outcome, reader, inflight, answers, garbled, served>>
  BY <1>3 DEF Register, Goto
<1>5. pending' = [pending EXCEPT ![k] = (@ \ {}) \cup {c}]
  BY <1>2, <1>3 DEF Register
<1>6. chan' = [d \in Callers |-> IF d = c THEN "open" ELSE chan[d]]
  BY <1>2, <1>3 DEF Register
<1> USE DEF TypeInv, TypeOK, CallInv
<1>7. /\ pc'[c] = "test" /\ id'[c] = i /\ chan'[c] = "open"
      /\ \A d \in Callers \ {c} : pc'[d] = pc[d] /\ id'[d] = id[d] /\ chan'[d] = chan[d]
  BY <1>4, <1>6
<1>8. \A j \in Conns : On(j)' = IF j = k THEN On(j) \cup {c} ELSE On(j)
  BY <1>1, <1>4, <1>7 DEF On, Registering
<1>9. \A j \in Conns : c \notin On(j)
  BY <1>1 DEF On, Registering
<1>10. NoConnYet'
  BY <1>1, <1>4, <1>7 DEF NoConnYet
<1>11. NothingYet'
  BY <1>1, <1>4, <1>5, <1>7 DEF NothingYet, Registering
<1>12. OwnIds'
  <2>1. \A j \in Conns : \A d \in On(j) : d \in Callers /\ id[d] \in Nat /\ id'[d] = id[d]
    BY <1>7, <1>9 DEF On
  <2>2. k \in Conns /\ i \in Nat /\ seq[k] \in Nat /\ i > seq[k]
    BY <1>1
  <2>3. \A j \in Conns : seq'[j] = IF j = k THEN i ELSE seq[j]
    BY <1>4
  <2>4. \A j \in Conns : \A d \in On(j)' : id'[d] <= seq'[j]
    BY <1>7, <1>8, <2>1, <2>2, <2>3 DEF OwnIds
  <2>5. \A j \in Conns : \A d, e \in On(j)' : id'[d] = id'[e] => d = e
    BY <1>7, <1>8, <1>9, <2>1, <2>2 DEF OwnIds
  <2> QED
    BY <2>4, <2>5 DEF OwnIds
<1>13. ToldAtTheEnd'
  BY <1>1, <1>4, <1>7 DEF ToldAtTheEnd
<1>14. AnswersServed'
  BY <1>4, <1>7 DEF AnswersServed
<1>15. DroppedForCause'
  BY <1>4, <1>7 DEF DroppedForCause
<1>16. SentOrTold'
  BY <1>1, <1>4, <1>7 DEF SentOrTold, NothingYet, Registering
<1> QED
  BY <1>10, <1>11, <1>12, <1>13, <1>14, <1>15, <1>16

\* The reader hands an answer to the caller it is the answer to.
LEMMA StepRoute ==
  ASSUME TypeInv, CallInv, NEW k \in Conns, ReaderRoutes(k)
  PROVE  CallInv'
<1>1. PICK c \in answers[k], good \in BOOLEAN :
        /\ answers' = [answers EXCEPT ![k] = @ \ {c}]
        /\ RemoveEntry(k, id[c])
        /\ IF good
           THEN chan' = [d \in Callers |-> IF d \in Registered(k, id[c]) /\ chan[d] = "open"
                                           THEN "answered" ELSE chan[d]]
           ELSE DropSenders(Registered(k, id[c]))
        /\ garbled' = IF good THEN garbled ELSE garbled \cup Registered(k, id[c])
  BY DEF ReaderRoutes
<1>2. UNCHANGED <<pc, conn, id, outcome, seq, reader, inflight, served>>
  BY DEF ReaderRoutes
<1> USE DEF TypeInv, TypeOK, CallInv
<1>3. c \in On(k) /\ c \in served /\ c \in Callers
  BY DEF NothingYet, On, AnswersServed
<1>4. Registered(k, id[c]) \subseteq {c}
  BY <1>3, Alone
<1>5. \A d \in Callers :
        \/ chan'[d] = chan[d]
        \/ chan'[d] = "answered" /\ d = c
        \/ chan'[d] = "dropped" /\ d \in garbled'
  BY <1>1, <1>4 DEF DropSenders
<1>6. garbled \subseteq garbled'
  BY <1>1
<1>7. \A j \in Conns : pending'[j] \subseteq pending[j] /\ answers'[j] \subseteq answers[j]
  BY <1>1 DEF RemoveEntry
<1>8. NoConnYet' /\ ToldAtTheEnd'
  BY <1>2 DEF NoConnYet, ToldAtTheEnd
<1>9. \A d \in Callers : pc[d] \notin Registering => d # c /\ d \notin Registered(k, id[c])
  BY <1>3, <1>4 DEF On
<1>10. \A d \in Callers : pc[d] \notin Registering => chan'[d] = chan[d]
  BY <1>1, <1>9 DEF DropSenders
<1>11. NothingYet'
  BY <1>2, <1>7, <1>10 DEF NothingYet
<1>12. OwnIds'
  BY <1>2 DEF OwnIds, On
<1>13. AnswersServed'
  BY <1>2, <1>3, <1>5, <1>7 DEF AnswersServed
<1>14. DroppedForCause'
  BY <1>2, <1>5, <1>6 DEF DroppedForCause
<1>15. SentOrTold'
  BY <1>2, <1>7 DEF SentOrTold
<1> QED
  BY <1>8, <1>11, <1>12, <1>13, <1>14, <1>15

\* The reader's end drops the senders of its own connection.
LEMMA StepClear ==
  ASSUME TypeInv, CallInv, NEW k \in Conns, ReaderClears(k)
  PROVE  CallInv'
<1>1. /\ reader' = [reader EXCEPT ![k] = "over"]
      /\ chan' = [c \in Callers |-> IF c \in pending[k] /\ chan[c] = "open"
                                    THEN "dropped" ELSE chan[c]]
      /\ pending' = [pending EXCEPT ![k] = {}]
      /\ UNCHANGED <<pc, conn, id, outcome, seq, inflight, answers, garbled, served>>
  BY DEF ReaderClears, DropSenders
<1> USE DEF TypeInv, TypeOK, CallInv
<1>2. \A c \in Callers : chan'[c] = chan[c] \/ (chan'[c] = "dropped" /\ c \in pending[k])
  BY <1>1
<1>3. NoConnYet' /\ ToldAtTheEnd' /\ OwnIds' /\ SentOrTold'
  BY <1>1 DEF NoConnYet, ToldAtTheEnd, OwnIds, On, SentOrTold
<1>4. NothingYet'
  BY <1>1, <1>2 DEF NothingYet
<1>5. AnswersServed'
  BY <1>1, <1>2 DEF AnswersServed
<1>6. \A c \in pending[k] : conn[c] = k
  BY DEF NothingYet
<1>7. DroppedForCause'
  BY <1>1, <1>2, <1>6 DEF DroppedForCause
<1> QED
  BY <1>3, <1>4, <1>5, <1>7

\* Without relays, every step keeps the invariant of the calls.
LEMMA CallsStep ==
  ASSUME Relays = {}
  PROVE  TypeInv /\ CallInv /\ [Next]_vars => CallInv'
<1> SUFFICES ASSUME TypeInv, CallInv, [Next]_vars PROVE CallInv'
  OBVIOUS
<1> USE NobodyAssumption
<1>1. ASSUME NEW c \in Callers, Get(c) PROVE CallInv'
  <2>1. pc[c] = "idle" /\ conn[c] = NoConn /\ outcome[c] = "none"
    BY <1>1 DEF Get, CallInv, NoConnYet, ToldAtTheEnd
  <2>2. /\ conn = [conn EXCEPT ![c] = NoConn]
        /\ outcome = [outcome EXCEPT ![c] = "none"]
    BY <2>1 DEF TypeInv, TypeOK
  <2>3. CASE pool # NoConn
    BY <1>1, <2>1, <2>2, <2>3, StepBefore
       DEF Get, Goto, Use, connVars, gateVars, Registering
  <2>4. CASE pool = NoConn
    BY <1>1, <2>1, <2>2, <2>4, StepBefore
       DEF Get, Goto, Use, connVars, gateVars, Registering
  <2> QED
    BY <2>3, <2>4
<1>2. ASSUME NEW c \in Callers, DialGate(c) PROVE CallInv'
  BY <1>2 DEF DialGate, IsFresh, connVars, callVars, gateVars, Goto, Use, Tell,
     TypeInv, TypeOK, CallInv, NoConnYet, NothingYet, OwnIds, On, Registering,
     ToldAtTheEnd, SentOrTold, AnswersServed, DroppedForCause
<1>3. ASSUME NEW c \in Callers, Acquire(c) PROVE CallInv'
  BY <1>3 DEF Acquire, connVars, callVars, gateVars, Goto, Use, Tell,
     TypeInv, TypeOK, CallInv, NoConnYet, NothingYet, OwnIds, On, Registering,
     ToldAtTheEnd, SentOrTold, AnswersServed, DroppedForCause
<1>4. ASSUME NEW c \in Callers, CancelWait(c) PROVE CallInv'
  BY <1>4 DEF CancelWait, connVars, callVars, gateVars, Goto, Use, Tell,
     TypeInv, TypeOK, CallInv, NoConnYet, NothingYet, OwnIds, On, Registering,
     ToldAtTheEnd, SentOrTold, AnswersServed, DroppedForCause
<1>5. ASSUME NEW c \in Callers, DoubleCheck(c) PROVE CallInv'
  <2>1. pc[c] = "check" /\ conn[c] = NoConn /\ outcome[c] = "none"
    BY <1>5 DEF DoubleCheck, CallInv, NoConnYet, ToldAtTheEnd
  <2>2. /\ conn = [conn EXCEPT ![c] = NoConn]
        /\ outcome = [outcome EXCEPT ![c] = "none"]
    BY <2>1 DEF TypeInv, TypeOK
  <2>3. CASE pool # NoConn
    BY <1>5, <2>1, <2>2, <2>3, StepBefore
       DEF DoubleCheck, Goto, Use, connVars, gateVars, Registering
  <2>4. CASE pool = NoConn
    BY <1>5, <2>1, <2>2, <2>4, StepBefore
       DEF DoubleCheck, Goto, Use, connVars, gateVars, Registering
  <2> QED
    BY <2>3, <2>4
<1>6. ASSUME NEW c \in Callers, Dial(c) PROVE CallInv'
  <2>1. pc[c] = "dial" /\ conn[c] = NoConn /\ outcome[c] = "none"
    BY <1>6 DEF Dial, NextConn, CallInv, NoConnYet, ToldAtTheEnd
  <2>2. /\ conn = [conn EXCEPT ![c] = NoConn]
        /\ outcome = [outcome EXCEPT ![c] = "none"]
    BY <2>1 DEF TypeInv, TypeOK
  <2>3. CASE UNCHANGED outcome
    BY <1>6, <2>1, <2>2, <2>3, StepBefore DEF Dial, Goto, Use, Tell, gateVars,
       Registering
  <2>4. CASE Tell(c, "failed") /\ Goto(c, "release") /\ UNCHANGED conn
    BY <1>6, <2>1, <2>2, <2>4, StepBefore DEF Dial, Goto, Use, Tell, gateVars,
       Registering
  <2> QED
    BY <1>6, <2>3, <2>4 DEF Dial
<1>7. ASSUME NEW c \in Callers, Insert(c) PROVE CallInv'
  BY <1>7 DEF Insert, connVars, callVars, gateVars, Goto, Use, Tell,
     TypeInv, TypeOK, CallInv, NoConnYet, NothingYet, OwnIds, On, Registering,
     ToldAtTheEnd, SentOrTold, AnswersServed, DroppedForCause
<1>8. ASSUME NEW c \in Callers, ReleaseGate(c) PROVE CallInv'
  BY <1>8 DEF ReleaseGate, connVars, callVars, gateVars, Goto, Use, Tell,
     TypeInv, TypeOK, CallInv, NoConnYet, NothingYet, OwnIds, On, Registering,
     ToldAtTheEnd, SentOrTold, AnswersServed, DroppedForCause
<1>9. ASSUME NEW c \in Callers, CollectGate(c) PROVE CallInv'
  BY <1>9 DEF CollectGate, connVars, callVars, gateVars, Goto, Use, Tell,
     TypeInv, TypeOK, CallInv, NoConnYet, NothingYet, OwnIds, On, Registering,
     ToldAtTheEnd, SentOrTold, AnswersServed, DroppedForCause
<1>10. ASSUME NEW c \in Callers, DropGate(c) PROVE CallInv'
  BY <1>10 DEF DropGate, connVars, callVars, gateVars, Goto, Use, Tell,
     TypeInv, TypeOK, CallInv, NoConnYet, NothingYet, OwnIds, On, Registering,
     ToldAtTheEnd, SentOrTold, AnswersServed, DroppedForCause
<1>11. ASSUME NEW c \in Callers, Register(c) PROVE CallInv'
  BY <1>11, StepRegister
<1>12. ASSUME NEW c \in Callers, TestEnded(c) PROVE CallInv'
  <2>1. CASE FailCall(c)
    <3>1. pc[c] \in {"test", "write", "writing", "await"} /\ pc[c] \in Registering
      BY <1>12 DEF TestEnded, Registering
    <3>2. /\ pc' = [pc EXCEPT ![c] = "failed"]
          /\ outcome' = [outcome EXCEPT ![c] = "failed"]
          /\ \A k \in Conns : pending'[k] \subseteq pending[k]
          /\ chan' = chan
      BY <2>1, <3>1, FailsAlone
    <3>3. UNCHANGED <<conn, id, seq, reader, inflight, answers, garbled, served>>
      BY <1>12, <3>1, <3>2 DEF TestEnded, Goto, TypeInv, TypeOK
    <3> QED
      BY <3>1, <3>2, <3>3, StepAfter DEF Registering
  <2>2. CASE Goto(c, "write") /\ UNCHANGED outcome
    <3>1. outcome' = [outcome EXCEPT ![c] = "none"]
      BY <1>12, <2>2 DEF TestEnded, TypeInv, TypeOK, CallInv, ToldAtTheEnd
    <3>2. pc[c] \in Registering /\ pc[c] \in {"test", "write"} /\ conn[c] \in Conns
      BY <1>12 DEF TestEnded, Registering, TypeInv, TypeOK, OnConnection
    <3>3. pc' = [pc EXCEPT ![c] = "write"]
      BY <2>2 DEF Goto
    <3>4. ~FailCall(c)
      BY <3>3 DEF FailCall, Goto, TypeInv, TypeOK
    <3>5. UNCHANGED <<conn, id, chan, seq, reader, answers, garbled, served>>
      BY <1>12, <3>4 DEF TestEnded
    <3>6. \A k \in Conns : \A d \in inflight'[k] :
             d \in inflight[k] \/ (d = c /\ k = conn[c])
      BY <1>12, <3>2, <3>4 DEF TestEnded, TypeInv, TypeOK
    <3>7. \A k \in Conns : pending'[k] \subseteq pending[k]
      BY <1>12, <3>4 DEF TestEnded
    <3>8. "write" \in Registering /\ ("none" # "none" => "write" \in {"failed", "done"})
      BY DEF Registering
    <3>9. pc[c] # "await" /\ outcome[c] = "none" /\ inflight' = inflight
      BY <1>12 DEF TestEnded, CallInv, ToldAtTheEnd
    <3> QED
      BY <3>1, <3>2, <3>3, <3>5, <3>6, <3>7, <3>8, <3>9, StepAfter, Zenon
  <2> QED
    BY <1>12, <2>1, <2>2 DEF TestEnded
<1>13. ASSUME NEW c \in Callers, Write(c) PROVE CallInv'
  <2>1. CASE FailCall(c)
    <3>1. pc[c] \in {"test", "write", "writing", "await"} /\ pc[c] \in Registering
      BY <1>13 DEF Write, Registering
    <3>2. /\ pc' = [pc EXCEPT ![c] = "failed"]
          /\ outcome' = [outcome EXCEPT ![c] = "failed"]
          /\ \A k \in Conns : pending'[k] \subseteq pending[k]
          /\ chan' = chan
      BY <2>1, <3>1, FailsAlone
    <3>3. /\ UNCHANGED <<conn, id, seq, reader, answers, garbled, served>>
          /\ \A k \in Conns : \A d \in inflight'[k] :
               d \in inflight[k] \/ (d = c /\ k = conn[c])
      BY <1>13, <3>1, <3>2 DEF Write, FrameSent, TypeInv, TypeOK
    <3> QED
      BY <3>1, <3>2, <3>3, StepAfter DEF Registering
  <2>2. CASE Goto(c, "await") /\ UNCHANGED outcome
    <3>1. outcome' = [outcome EXCEPT ![c] = "none"]
      BY <1>13, <2>2 DEF Write, TypeInv, TypeOK, CallInv, ToldAtTheEnd
    <3>2. pc[c] \in Registering /\ pc[c] = "writing" /\ conn[c] \in Conns
      BY <1>13 DEF Write, Registering, TypeInv, TypeOK, OnConnection
    <3>3. pc' = [pc EXCEPT ![c] = "await"]
      BY <2>2 DEF Goto
    <3>4. ~FailCall(c)
      BY <3>3 DEF FailCall, Goto, TypeInv, TypeOK
    <3>5. UNCHANGED <<conn, id, chan, seq, reader, answers, garbled, served>>
      BY <1>13, <3>4 DEF Write
    <3>6. \A k \in Conns : \A d \in inflight'[k] :
             d \in inflight[k] \/ (d = c /\ k = conn[c])
      BY <1>13, <3>2, <3>4 DEF Write, FrameSent, TypeInv, TypeOK
    <3>7. \A k \in Conns : pending'[k] \subseteq pending[k]
      BY <1>13, <3>4 DEF Write
    <3>8. "await" \in Registering /\ ("none" # "none" => "await" \in {"failed", "done"})
      BY DEF Registering
    <3> QED
      BY <3>1, <3>2, <3>3, <3>5, <3>6, <3>7, <3>8, StepAfter, Zenon
  <2> QED
    BY <1>13, <2>1, <2>2 DEF Write
<1>14. ASSUME NEW c \in Callers, Answered(c) PROVE CallInv'
  BY <1>14 DEF Answered, connVars, callVars, gateVars, Goto, Use, Tell,
     TypeInv, TypeOK, CallInv, NoConnYet, NothingYet, OwnIds, On, Registering,
     ToldAtTheEnd, SentOrTold, AnswersServed, DroppedForCause
<1>15. ASSUME NEW c \in Callers, SenderDropped(c) PROVE CallInv'
  BY <1>15, FailsAlone, StepAfter DEF SenderDropped, gateVars, Registering
<1>16. ASSUME NEW c \in Callers, TimedOut(c) PROVE CallInv'
  BY <1>16, FailsAlone, StepAfter DEF TimedOut, gateVars, Registering
<1>17. ASSUME NEW c \in Callers, CancelCall(c) PROVE CallInv'
  BY <1>17 DEF CancelCall, FrameSent, connVars, callVars, gateVars, Goto, Use, Tell,
     TypeInv, TypeOK, CallInv, NoConnYet, NothingYet, OwnIds, On, Registering,
     ToldAtTheEnd, SentOrTold, AnswersServed, DroppedForCause
<1>18. ASSUME NEW c \in Callers, EvictFailed(c) PROVE CallInv'
  BY <1>18 DEF EvictFailed, connVars, callVars, gateVars, Goto, Use, Tell,
     TypeInv, TypeOK, CallInv, NoConnYet, NothingYet, OwnIds, On, Registering,
     ToldAtTheEnd, SentOrTold, AnswersServed, DroppedForCause
<1>19. ASSUME NEW k \in Conns, RemoteServes(k) PROVE CallInv'
  BY <1>19 DEF RemoteServes, connVars, callVars, gateVars, Goto, Use, Tell,
     TypeInv, TypeOK, CallInv, NoConnYet, NothingYet, OwnIds, On, Registering,
     ToldAtTheEnd, SentOrTold, AnswersServed, DroppedForCause
<1>20. ASSUME NEW k \in Conns, ReaderRoutes(k) PROVE CallInv'
  BY <1>20, StepRoute
<1>21. ASSUME NEW k \in Conns, ReaderEnds(k) PROVE CallInv'
  BY <1>21 DEF ReaderEnds, connVars, callVars, gateVars, Goto, Use, Tell,
     TypeInv, TypeOK, CallInv, NoConnYet, NothingYet, OwnIds, On, Registering,
     ToldAtTheEnd, SentOrTold, AnswersServed, DroppedForCause
<1>22. ASSUME NEW k \in Conns, ReaderClears(k) PROVE CallInv'
  BY <1>22, StepClear
<1>23. CASE UNCHANGED vars
  BY <1>23 DEF vars, connVars, callVars, gateVars,
     TypeInv, TypeOK, CallInv, NoConnYet, NothingYet, OwnIds, On, Registering,
     ToldAtTheEnd, SentOrTold, AnswersServed, DroppedForCause
<1>24. ASSUME NEW c \in Callers, LockWriter(c) PROVE CallInv'
  BY <1>24 DEF LockWriter, connVars, callVars, gateVars, Goto,
     TypeInv, TypeOK, CallInv, NoConnYet, NothingYet, OwnIds, On, Registering,
     ToldAtTheEnd, SentOrTold, AnswersServed, DroppedForCause
<1>25. ASSUME NEW k \in Conns, ExplicitDial(k) PROVE CallInv'
  BY <1>25 DEF ExplicitDial, callVars, CallInv, NoConnYet, NothingYet, OwnIds, On,
     Registering, ToldAtTheEnd, SentOrTold, AnswersServed, DroppedForCause
<1> QED
  BY <1>1, <1>2, <1>3, <1>4, <1>5, <1>6, <1>7, <1>8, <1>9, <1>10, <1>11, <1>12,
     <1>13, <1>14, <1>15, <1>16, <1>17, <1>18, <1>19, <1>20, <1>21, <1>22, <1>23,
     <1>24, <1>25 DEF Next, Step, Io, Lock

\* "reader task terminated before response" is the truth on every connection that
\* no relay uses: nobody's sender is dropped by another caller.
THEOREM SendersDropForCause ==
  ASSUME Relays = {}
  PROVE  Spec => []DroppedForCause
<1>1. Spec => [](TypeInv /\ CallInv)
  BY TypeInit, TypeStep, CallsInit, CallsStep, PTL DEF Spec
<1>2. CallInv => DroppedForCause
  BY DEF CallInv
<1> QED
  BY <1>1, <1>2, PTL

(***************************************************************************)
(* The safety part of the refinement: every step of the pool, the gate,    *)
(* the connection and the reader is a step of RemoteCall or none.          *)
(***************************************************************************)

\* A step that tells its caller nothing shows nothing, once the call is open.
LEMMA StepQuiet ==
  ASSUME TypeInv, NEW c \in Callers, NEW l,
         pc[c] \notin {"absent", "idle", "await"}, l \notin {"absent", "idle", "await"},
         pc' = [pc EXCEPT ![c] = l], UNCHANGED <<outcome, served>>
  PROVE  UNCHANGED Promise!callVars
<1>1. Shown' = Shown
  BY DEF TypeInv, TypeOK, Shown
<1> QED
  BY <1>1 DEF Promise!callVars

\* A step that reports a failure is RemoteCall's Fail.
LEMMA StepFail ==
  ASSUME TypeInv, NEW c \in Callers, NEW l, outcome[c] = "none",
         pc[c] \notin {"absent", "idle"},
         pc' = [pc EXCEPT ![c] = l], outcome' = [outcome EXCEPT ![c] = "failed"],
         UNCHANGED served
  PROVE  Promise!CallNext
<1>1. Shown[c] \in {"open", "sent"}
  BY DEF Shown
<1>2. Shown' = [Shown EXCEPT ![c] = "failed"]
  BY DEF TypeInv, TypeOK, Shown
<1> QED
  BY <1>1, <1>2 DEF Promise!CallNext, Promise!Fail

\* A step of a connection that serves nothing shows nothing.
LEMMA StepConn ==
  ASSUME UNCHANGED <<pc, outcome, served>>
  PROVE  UNCHANGED Promise!callVars
  BY DEF Shown, Promise!callVars

\* Every step is a step of RemoteCall, or leaves what it shows alone.
LEMMA CallRefined ==
  ASSUME TypeInv, CallInv, [Next]_vars
  PROVE  [Promise!CallNext]_(Promise!callVars)
<1>1. ASSUME NEW c \in Callers, Get(c)
      PROVE Promise!CallNext \/ UNCHANGED Promise!callVars
  <2>1. pc[c] = "idle" /\ outcome[c] = "none" /\ UNCHANGED <<outcome, served>>
    BY <1>1 DEF Get, connVars, CallInv, ToldAtTheEnd
  <2>2. \E l \in {"register", "enter"} : pc' = [pc EXCEPT ![c] = l]
    BY <1>1 DEF Get, Goto
  <2>3. outcome' = [outcome EXCEPT ![c] = "none"]
    BY <2>1 DEF TypeInv, TypeOK
  <2>4. Shown' = [Shown EXCEPT ![c] = "open"]
    BY <2>2, <2>3 DEF TypeInv, TypeOK, Shown
  <2>5. Shown[c] = "idle"
    BY <2>1 DEF Shown
  <2> QED
    BY <2>1, <2>4, <2>5 DEF Promise!CallNext, Promise!Open
<1>2. ASSUME NEW c \in Callers, DialGate(c)
      PROVE Promise!CallNext \/ UNCHANGED Promise!callVars
  <2>1. pc[c] \notin {"absent", "idle", "await"} /\ UNCHANGED <<outcome, served>>
    BY <1>2 DEF DialGate, IsFresh, callVars, connVars
  <2>2. PICK l \in {"wait"} : pc' = [pc EXCEPT ![c] = l]
    BY <1>2 DEF DialGate, IsFresh, Goto
  <2> QED
    BY <2>1, <2>2, StepQuiet
<1>3. ASSUME NEW c \in Callers, Acquire(c)
      PROVE Promise!CallNext \/ UNCHANGED Promise!callVars
  <2>1. pc[c] \notin {"absent", "idle", "await"} /\ UNCHANGED <<outcome, served>>
    BY <1>3 DEF Acquire, callVars, connVars
  <2>2. PICK l \in {"check"} : pc' = [pc EXCEPT ![c] = l]
    BY <1>3 DEF Acquire, Goto
  <2> QED
    BY <2>1, <2>2, StepQuiet
<1>4. ASSUME NEW c \in Callers, CancelWait(c)
      PROVE Promise!CallNext \/ UNCHANGED Promise!callVars
  <2>1. pc[c] \notin {"absent", "idle"} /\ outcome[c] = "none" /\ UNCHANGED served
    BY <1>4 DEF CancelWait, connVars, CallInv, ToldAtTheEnd
  <2>2. PICK l \in {"done", "failed"} :
          pc' = [pc EXCEPT ![c] = l] /\ outcome' = [outcome EXCEPT ![c] = "failed"]
    BY <1>4 DEF CancelWait, Goto, Tell, FailCall
  <2> QED
    BY <2>1, <2>2, StepFail
<1>5. ASSUME NEW c \in Callers, DoubleCheck(c)
      PROVE Promise!CallNext \/ UNCHANGED Promise!callVars
  <2>1. pc[c] \notin {"absent", "idle", "await"} /\ UNCHANGED <<outcome, served>>
    BY <1>5 DEF DoubleCheck, callVars, connVars
  <2>2. PICK l \in {"release", "dial"} : pc' = [pc EXCEPT ![c] = l]
    BY <1>5 DEF DoubleCheck, Goto
  <2> QED
    BY <2>1, <2>2, StepQuiet
<1>6. ASSUME NEW c \in Callers, Dial(c)
      PROVE Promise!CallNext \/ UNCHANGED Promise!callVars
  <2>1. pc[c] \notin {"absent", "idle", "await"} /\ outcome[c] = "none" /\ UNCHANGED served
    BY <1>6 DEF Dial, NextConn, CallInv, ToldAtTheEnd
  <2>2. \/ pc' = [pc EXCEPT ![c] = "insert"] /\ UNCHANGED outcome
        \/ \E l \in {"failed", "release"} :
             pc' = [pc EXCEPT ![c] = l] /\ outcome' = [outcome EXCEPT ![c] = "failed"]
    BY <1>6 DEF Dial, NextConn, Goto, Tell, FailCall
  <2>3. CASE pc' = [pc EXCEPT ![c] = "insert"] /\ UNCHANGED outcome
    BY <2>1, <2>3, StepQuiet
  <2>4. CASE \E l \in {"failed", "release"} :
               pc' = [pc EXCEPT ![c] = l] /\ outcome' = [outcome EXCEPT ![c] = "failed"]
    BY <2>1, <2>4, StepFail
  <2> QED
    BY <2>2, <2>3, <2>4
<1>7. ASSUME NEW c \in Callers, Insert(c)
      PROVE Promise!CallNext \/ UNCHANGED Promise!callVars
  <2>1. pc[c] \notin {"absent", "idle", "await"} /\ UNCHANGED <<outcome, served>>
    BY <1>7 DEF Insert, callVars, connVars
  <2>2. PICK l \in {"release"} : pc' = [pc EXCEPT ![c] = l]
    BY <1>7 DEF Insert, Goto
  <2> QED
    BY <2>1, <2>2, StepQuiet
<1>8. ASSUME NEW c \in Callers, ReleaseGate(c)
      PROVE Promise!CallNext \/ UNCHANGED Promise!callVars
  <2>1. pc[c] \notin {"absent", "idle", "await"} /\ UNCHANGED <<outcome, served>>
    BY <1>8 DEF ReleaseGate, callVars, connVars
  <2>2. PICK l \in {"collect"} : pc' = [pc EXCEPT ![c] = l]
    BY <1>8 DEF ReleaseGate, Goto
  <2> QED
    BY <2>1, <2>2, StepQuiet
<1>9. ASSUME NEW c \in Callers, CollectGate(c)
      PROVE Promise!CallNext \/ UNCHANGED Promise!callVars
  <2>1. pc[c] \notin {"absent", "idle", "await"} /\ UNCHANGED <<outcome, served>>
    BY <1>9 DEF CollectGate, callVars, connVars
  <2>2. PICK l \in {"drop"} : pc' = [pc EXCEPT ![c] = l]
    BY <1>9 DEF CollectGate, Goto
  <2> QED
    BY <2>1, <2>2, StepQuiet
<1>10. ASSUME NEW c \in Callers, DropGate(c)
      PROVE Promise!CallNext \/ UNCHANGED Promise!callVars
  <2>1. pc[c] \notin {"absent", "idle", "await"} /\ UNCHANGED <<outcome, served>>
    BY <1>10 DEF DropGate, callVars, connVars
  <2>2. PICK l \in {"register", "done"} : pc' = [pc EXCEPT ![c] = l]
    BY <1>10 DEF DropGate, Goto
  <2> QED
    BY <2>1, <2>2, StepQuiet
<1>11. ASSUME NEW c \in Callers, Register(c)
      PROVE Promise!CallNext \/ UNCHANGED Promise!callVars
  <2>1. pc[c] \notin {"absent", "idle", "await"} /\ UNCHANGED <<outcome, served>>
    BY <1>11 DEF Register, callVars, connVars
  <2>2. PICK l \in {"test"} : pc' = [pc EXCEPT ![c] = l]
    BY <1>11 DEF Register, Goto
  <2> QED
    BY <2>1, <2>2, StepQuiet
<1>12. ASSUME NEW c \in Callers, TestEnded(c)
      PROVE Promise!CallNext \/ UNCHANGED Promise!callVars
  <2>1. pc[c] \notin {"absent", "idle", "await"} /\ outcome[c] = "none" /\ UNCHANGED served
    BY <1>12 DEF TestEnded, CallInv, ToldAtTheEnd
  <2>2. \/ pc' = [pc EXCEPT ![c] = "write"] /\ UNCHANGED outcome
        \/ \E l \in {"failed", "release"} :
             pc' = [pc EXCEPT ![c] = l] /\ outcome' = [outcome EXCEPT ![c] = "failed"]
    BY <1>12 DEF TestEnded, Goto, Tell, FailCall
  <2>3. CASE pc' = [pc EXCEPT ![c] = "write"] /\ UNCHANGED outcome
    BY <2>1, <2>3, StepQuiet
  <2>4. CASE \E l \in {"failed", "release"} :
               pc' = [pc EXCEPT ![c] = l] /\ outcome' = [outcome EXCEPT ![c] = "failed"]
    BY <2>1, <2>4, StepFail
  <2> QED
    BY <2>2, <2>3, <2>4
<1>13. ASSUME NEW c \in Callers, Write(c)
      PROVE Promise!CallNext \/ UNCHANGED Promise!callVars
  <2>1. pc[c] = "writing" /\ outcome[c] = "none" /\ UNCHANGED served
    BY <1>13 DEF Write, CallInv, ToldAtTheEnd
  <2>2. \/ pc' = [pc EXCEPT ![c] = "await"] /\ UNCHANGED outcome
        \/ \E l \in {"failed", "release"} :
             pc' = [pc EXCEPT ![c] = l] /\ outcome' = [outcome EXCEPT ![c] = "failed"]
    BY <1>13 DEF Write, Goto, Tell, FailCall
  <2>3. CASE pc' = [pc EXCEPT ![c] = "await"] /\ UNCHANGED outcome
    <3>1. Shown[c] = "open"
      BY <2>1 DEF Shown
    <3>2. Shown' = [Shown EXCEPT ![c] = "sent"]
      BY <2>1, <2>3 DEF TypeInv, TypeOK, Shown
    <3> QED
      BY <2>1, <3>1, <3>2 DEF Promise!CallNext, Promise!Send
  <2>4. CASE \E l \in {"failed", "release"} :
               pc' = [pc EXCEPT ![c] = l] /\ outcome' = [outcome EXCEPT ![c] = "failed"]
    BY <2>1, <2>4, StepFail
  <2> QED
    BY <2>2, <2>3, <2>4
<1>14. ASSUME NEW c \in Callers, Answered(c)
      PROVE Promise!CallNext \/ UNCHANGED Promise!callVars
  <2>1. pc[c] = "await" /\ outcome[c] = "none" /\ c \in served /\ UNCHANGED served
    BY <1>14 DEF Answered, connVars, CallInv, ToldAtTheEnd, AnswersServed
  <2>2. pc' = [pc EXCEPT ![c] = "done"] /\ outcome' = [outcome EXCEPT ![c] = "ok"]
    BY <1>14 DEF Answered, Goto, Tell
  <2>3. Shown' = [Shown EXCEPT ![c] = "ok"]
    BY <2>2 DEF TypeInv, TypeOK, Shown
  <2>4. Shown[c] = "sent"
    BY <2>1 DEF Shown
  <2> QED
    BY <2>1, <2>3, <2>4 DEF Promise!CallNext, Promise!Succeed
<1>15. ASSUME NEW c \in Callers, SenderDropped(c)
      PROVE Promise!CallNext \/ UNCHANGED Promise!callVars
  <2>1. pc[c] \notin {"absent", "idle"} /\ outcome[c] = "none" /\ UNCHANGED served
    BY <1>15 DEF SenderDropped, connVars, CallInv, ToldAtTheEnd
  <2>2. PICK l \in {"done", "failed"} :
          pc' = [pc EXCEPT ![c] = l] /\ outcome' = [outcome EXCEPT ![c] = "failed"]
    BY <1>15 DEF SenderDropped, Goto, Tell, FailCall
  <2> QED
    BY <2>1, <2>2, StepFail
<1>16. ASSUME NEW c \in Callers, TimedOut(c)
      PROVE Promise!CallNext \/ UNCHANGED Promise!callVars
  <2>1. pc[c] \notin {"absent", "idle"} /\ outcome[c] = "none" /\ UNCHANGED served
    BY <1>16 DEF TimedOut, connVars, CallInv, ToldAtTheEnd
  <2>2. PICK l \in {"done", "failed"} :
          pc' = [pc EXCEPT ![c] = l] /\ outcome' = [outcome EXCEPT ![c] = "failed"]
    BY <1>16 DEF TimedOut, Goto, Tell, FailCall
  <2> QED
    BY <2>1, <2>2, StepFail
<1>17. ASSUME NEW c \in Callers, CancelCall(c)
      PROVE Promise!CallNext \/ UNCHANGED Promise!callVars
  <2>1. pc[c] \notin {"absent", "idle"} /\ outcome[c] = "none" /\ UNCHANGED served
    BY <1>17 DEF CancelCall, FrameSent, connVars, CallInv, ToldAtTheEnd
  <2>2. PICK l \in {"done", "failed"} :
          pc' = [pc EXCEPT ![c] = l] /\ outcome' = [outcome EXCEPT ![c] = "failed"]
    BY <1>17 DEF CancelCall, Goto, Tell, FailCall
  <2> QED
    BY <2>1, <2>2, StepFail
<1>18. ASSUME NEW c \in Callers, EvictFailed(c)
      PROVE Promise!CallNext \/ UNCHANGED Promise!callVars
  <2>1. pc[c] \notin {"absent", "idle", "await"} /\ UNCHANGED <<outcome, served>>
    BY <1>18 DEF EvictFailed, callVars, connVars
  <2>2. PICK l \in {"done"} : pc' = [pc EXCEPT ![c] = l]
    BY <1>18 DEF EvictFailed, Goto
  <2> QED
    BY <2>1, <2>2, StepQuiet
<1>19. ASSUME NEW k \in Conns, RemoteServes(k)
      PROVE Promise!CallNext \/ UNCHANGED Promise!callVars
  <2>1. PICK c \in inflight[k] : served' = served \cup {c}
    BY <1>19 DEF RemoteServes
  <2>2. UNCHANGED <<pc, outcome>>
    BY <1>19 DEF RemoteServes, callVars
  <2>3. /\ c \in Callers /\ outcome[c] \in {"none", "ok", "failed"}
        /\ pc[c] = "await" \/ outcome[c] # "none"
    BY DEF TypeInv, TypeOK, CallInv, SentOrTold
  <2>4. Shown[c] \notin {"idle", "open"}
    BY <2>3 DEF Shown
  <2>5. UNCHANGED Shown
    BY <2>2 DEF Shown
  <2>6. CASE c \in served
    BY <2>1, <2>5, <2>6 DEF Promise!callVars
  <2>7. CASE c \notin served
    BY <2>1, <2>3, <2>4, <2>5, <2>7 DEF Promise!CallNext, Promise!Serve
  <2> QED
    BY <2>6, <2>7
<1>20. ASSUME NEW k \in Conns, ReaderRoutes(k)
      PROVE Promise!CallNext \/ UNCHANGED Promise!callVars
  BY <1>20, StepConn DEF ReaderRoutes, callVars
<1>21. ASSUME NEW k \in Conns, ReaderEnds(k)
      PROVE Promise!CallNext \/ UNCHANGED Promise!callVars
  BY <1>21, StepConn DEF ReaderEnds, callVars
<1>22. ASSUME NEW k \in Conns, ReaderClears(k)
      PROVE Promise!CallNext \/ UNCHANGED Promise!callVars
  BY <1>22, StepConn DEF ReaderClears, callVars
<1>23. CASE UNCHANGED vars
  BY <1>23, StepConn DEF vars, callVars, connVars
<1>24. ASSUME NEW c \in Callers, LockWriter(c)
      PROVE Promise!CallNext \/ UNCHANGED Promise!callVars
  <2>1. pc[c] \notin {"absent", "idle", "await"} /\ UNCHANGED <<outcome, served>>
    BY <1>24 DEF LockWriter, callVars, connVars
  <2>2. PICK l \in {"writing"} : pc' = [pc EXCEPT ![c] = l]
    BY <1>24 DEF LockWriter, Goto
  <2> QED
    BY <2>1, <2>2, StepQuiet
<1>25. ASSUME NEW k \in Conns, ExplicitDial(k)
      PROVE Promise!CallNext \/ UNCHANGED Promise!callVars
  BY <1>25, StepConn DEF ExplicitDial, callVars
<1> QED
  BY <1>1, <1>2, <1>3, <1>4, <1>5, <1>6, <1>7, <1>8, <1>9, <1>10, <1>11, <1>12,
     <1>13, <1>14, <1>15, <1>16, <1>17, <1>18, <1>19, <1>20, <1>21, <1>22, <1>23,
     <1>24, <1>25 DEF Next, Step, Io, Lock

\* What RemoteCall promises, its liveness apart: on connections that no relay
\* uses, a call that succeeds was served, and no call is told anything twice.
THEOREM ImplementsSafely ==
  ASSUME Relays = {}
  PROVE  Spec => Promise!CallSafety
<1>1. Spec => [](TypeInv /\ CallInv)
  BY TypeInit, TypeStep, CallsInit, CallsStep, PTL DEF Spec
<1>2. Init => Promise!CallInit
  BY CastAssumption DEF Init, Promise!CallInit, Shown
<1> QED
  BY <1>1, <1>2, CallRefined, PTL DEF Spec, Promise!CallSafety
=============================================================================
