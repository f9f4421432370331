------------------------- MODULE DaemonServiceProofs -------------------------
(***************************************************************************)
(* For any daemons, clients and bounds: the collection is open in one       *)
(* daemon at a time, a daemon that listens can be reached by the path of    *)
(* the socket, acknowledged records are kept, and after a stop without an   *)
(* Add under way they can be searched for.                                  *)
(***************************************************************************)
EXTENDS DaemonService, TLAPS

(* A connection leads to a daemon that has bound the socket and has not     *)
(* exited since, ... *)
Placed ==
    \A c \in Clients :
        at[c] # Nobody => pc[at[c]] \in {"serving", "stopping", "stopped", "cleaned", "closed"}

(* ... and a handler that is about to reply has flushed its record. *)
FlushedKept == \A c \in Clients : conn[c] = "flushed" => c \in disk

IInv == TypeOK /\ Placed /\ SocketServed /\ FlushedKept /\ AckedKept

LEMMA InitIInv == Init => IInv
BY NobodyElse, ServiceBounds
   DEF Init, IInv, TypeOK, Types, DaemonsOK, CallsOK, Placed, SocketServed, FlushedKept,
       AckedKept, Holding

----------------------------------------------------------------------------
(* Each part is preserved *)

(* Types. *)
LEMMA TypesKept ==
    ASSUME IInv, [Next]_vars
    PROVE  Types'
<1> USE NobodyElse, ServiceBounds DEF IInv, TypeOK, Types, Holding
<1>1. CASE UNCHANGED vars
  BY <1>1 DEF vars, process, socket, records, calls, bounds
<1>2. ASSUME NEW d \in Daemons, Open(d) PROVE Types'
  BY <1>2
  DEF Open, Goto, socket, records, calls, bounds
<1>3. ASSUME NEW d \in Daemons, StartFails(d) PROVE Types'
  BY <1>3
  DEF StartFails, Fault, socket, records, calls
<1>4. ASSUME NEW d \in Daemons, Unlink(d) PROVE Types'
  BY <1>4
  DEF Unlink, Goto, records, calls, bounds
<1>5. ASSUME NEW d \in Daemons, Bind(d) PROVE Types'
  BY <1>5
  DEF Bind, records, calls, bounds
<1>6. ASSUME NEW d \in Daemons, AcceptFails(d) PROVE Types'
  BY <1>6
  DEF AcceptFails, Fault, process, records, calls
<1>7. ASSUME NEW d \in Daemons, PassOptimize(d) PROVE Types'
  BY <1>7
  DEF PassOptimize, process, socket, calls, bounds
<1>8. ASSUME NEW d \in Daemons, Stop(d) PROVE Types'
  BY <1>8
  DEF Stop, socket, records, calls
<1>9. ASSUME NEW d \in Daemons, ServeEnds(d) PROVE Types'
  BY <1>9
  DEF ServeEnds, CloseListener, HangUp, ConnectedTo, process, records, bounds
<1>10. ASSUME NEW d \in Daemons, RunReturns(d) PROVE Types'
  BY <1>10
  DEF RunReturns, Goto, socket, records, calls, bounds
<1>11. ASSUME NEW d \in Daemons, StopOptimize(d) PROVE Types'
  BY <1>11
  DEF StopOptimize, Goto, Fault, socket, calls
<1>12. ASSUME NEW d \in Daemons, Cleanup(d) PROVE Types'
  BY <1>12
  DEF Cleanup, Goto, CloseListener, HangUp, ConnectedTo, records, bounds
<1>13. ASSUME NEW d \in Daemons, Close(d) PROVE Types'
  BY <1>13
  DEF Close, Goto, Unflushed, socket, calls, bounds
<1>14. ASSUME NEW d \in Daemons, Exit(d) PROVE Types'
  BY <1>14
  DEF Exit, Goto, HangUp, ConnectedTo, socket, records, bounds
<1>15. ASSUME NEW d \in Daemons, Crash(d) PROVE Types'
  BY <1>15
  DEF Crash, Fault, HangUp, ConnectedTo, Unflushed
<1>16. ASSUME NEW c \in Clients, Dial(c) PROVE Types'
  BY <1>16
  DEF Dial, Dialable, process, socket, records, bounds
<1>17. ASSUME NEW c \in Clients, Leave(c) PROVE Types'
  BY <1>17
  DEF Leave, process, socket, records, bounds
<1>18. ASSUME NEW c \in Clients, Accept(c) PROVE Types'
  BY <1>18
  DEF Accept, Handle, process, socket, records, bounds
<1>19. ASSUME NEW c \in Clients, Upsert(c) PROVE Types'
  BY <1>19
  DEF Upsert, Handle, socket, bounds
<1>20. ASSUME NEW c \in Clients, Flush(c) PROVE Types'
  BY <1>20
  DEF Flush, Handle, socket, bounds
<1>21. ASSUME NEW c \in Clients, EngineFails(c) PROVE Types'
  BY <1>21
  DEF EngineFails, Fault, HangUp, socket, records
<1>22. ASSUME NEW c \in Clients, Reply(c) PROVE Types'
  BY <1>22
  DEF Reply, Handle, process, socket, records, bounds
<1>23. QED
  BY <1>1, <1>2, <1>3, <1>4, <1>5, <1>6, <1>7, <1>8, <1>9, <1>10, <1>11, <1>12,
     <1>13, <1>14, <1>15, <1>16, <1>17, <1>18, <1>19, <1>20, <1>21, <1>22
  DEF Next, Main, Handler

(* The lock is taken by one daemon and held until its Close or its death. *)
LEMMA DaemonsKept ==
    ASSUME IInv, [Next]_vars
    PROVE  DaemonsOK'
<1> USE NobodyElse, ServiceBounds DEF IInv, TypeOK, Types, DaemonsOK, Holding
<1>1. CASE UNCHANGED vars
  BY <1>1 DEF vars, process, socket, records, calls, bounds
<1>2. ASSUME NEW d \in Daemons, Open(d) PROVE DaemonsOK'
  BY <1>2
  DEF Open, Goto, socket, records, calls, bounds
<1>3. ASSUME NEW d \in Daemons, StartFails(d) PROVE DaemonsOK'
  BY <1>3
  DEF StartFails, Fault, socket, records, calls
<1>4. ASSUME NEW d \in Daemons, Unlink(d) PROVE DaemonsOK'
  BY <1>4
  DEF Unlink, Goto, records, calls, bounds
<1>5. ASSUME NEW d \in Daemons, Bind(d) PROVE DaemonsOK'
  BY <1>5
  DEF Bind, records, calls, bounds
<1>6. ASSUME NEW d \in Daemons, AcceptFails(d) PROVE DaemonsOK'
  BY <1>6
  DEF AcceptFails, Fault, process, records, calls
<1>7. ASSUME NEW d \in Daemons, ServeEnds(d) PROVE DaemonsOK'
  BY <1>7
  DEF ServeEnds, CloseListener, HangUp, ConnectedTo, process, records, bounds
<1>8. ASSUME NEW d \in Daemons, RunReturns(d) PROVE DaemonsOK'
  BY <1>8
  DEF RunReturns, Goto, socket, records, calls, bounds
<1>9. ASSUME NEW d \in Daemons, StopOptimize(d) PROVE DaemonsOK'
  BY <1>9
  DEF StopOptimize, Goto, Fault, socket, calls
<1>10. ASSUME NEW d \in Daemons, Cleanup(d) PROVE DaemonsOK'
  BY <1>10
  DEF Cleanup, Goto, CloseListener, HangUp, ConnectedTo, records, bounds
<1>11. ASSUME NEW d \in Daemons, Close(d) PROVE DaemonsOK'
  BY <1>11
  DEF Close, Goto, Unflushed, socket, calls, bounds
<1>12. ASSUME NEW d \in Daemons, Exit(d) PROVE DaemonsOK'
  BY <1>12
  DEF Exit, Goto, HangUp, ConnectedTo, socket, records, bounds
<1>13. ASSUME NEW d \in Daemons, Crash(d) PROVE DaemonsOK'
  BY <1>13
  DEF Crash, Fault, HangUp, ConnectedTo, Unflushed
<1>14. ASSUME NEW d \in Daemons, PassOptimize(d) \/ Stop(d) PROVE DaemonsOK'
  BY <1>14
  DEF PassOptimize, Stop, process, socket, records, calls, bounds
<1>15. ASSUME NEW c \in Clients,
            Dial(c) \/ Leave(c) \/ Accept(c) \/ Upsert(c) \/ Flush(c) \/
            EngineFails(c) \/ Reply(c)
     PROVE  DaemonsOK'
  BY <1>15
  DEF Dial, Dialable, Leave, Accept, Handle, Upsert, Flush, EngineFails, Fault,
      HangUp, Reply, process, socket, records, bounds
<1>16. QED
  BY <1>1, <1>2, <1>3, <1>4, <1>5, <1>6, <1>7, <1>8, <1>9, <1>10, <1>11, <1>12,
     <1>13, <1>14, <1>15
  DEF Next, Main, Handler

(* Connections are hung up by who exits; the mutex goes with the handler. *)
LEMMA CallsKept ==
    ASSUME IInv, [Next]_vars
    PROVE  (CallsOK /\ Placed)'
<1> USE NobodyElse, ServiceBounds DEF IInv, TypeOK, Types, DaemonsOK, CallsOK, Placed, Holding
<1>1. CASE UNCHANGED vars
  BY <1>1 DEF vars, process, socket, records, calls, bounds
<1>2. ASSUME NEW d \in Daemons, Open(d) PROVE (CallsOK /\ Placed)'
  BY <1>2
  DEF Open, Goto, socket, records, calls, bounds
<1>3. ASSUME NEW d \in Daemons, StartFails(d) PROVE (CallsOK /\ Placed)'
  BY <1>3
  DEF StartFails, Fault, socket, records, calls
<1>4. ASSUME NEW d \in Daemons, Unlink(d) PROVE (CallsOK /\ Placed)'
  BY <1>4
  DEF Unlink, Goto, records, calls, bounds
<1>5. ASSUME NEW d \in Daemons, Bind(d) PROVE (CallsOK /\ Placed)'
  BY <1>5
  DEF Bind, records, calls, bounds
<1>6. ASSUME NEW d \in Daemons, Stop(d) PROVE (CallsOK /\ Placed)'
  BY <1>6
  DEF Stop, socket, records, calls
<1>7. ASSUME NEW d \in Daemons, ServeEnds(d) PROVE (CallsOK /\ Placed)'
  BY <1>7
  DEF ServeEnds, CloseListener, HangUp, ConnectedTo, process, records, bounds
<1>8. ASSUME NEW d \in Daemons, RunReturns(d) PROVE (CallsOK /\ Placed)'
  BY <1>8
  DEF RunReturns, Goto, socket, records, calls, bounds
<1>9. ASSUME NEW d \in Daemons, StopOptimize(d) PROVE (CallsOK /\ Placed)'
  BY <1>9
  DEF StopOptimize, Goto, Fault, socket, calls
<1>10. ASSUME NEW d \in Daemons, Cleanup(d) PROVE (CallsOK /\ Placed)'
  BY <1>10
  DEF Cleanup, Goto, CloseListener, HangUp, ConnectedTo, records, bounds
<1>11. ASSUME NEW d \in Daemons, Close(d) PROVE (CallsOK /\ Placed)'
  BY <1>11
  DEF Close, Goto, Unflushed, socket, calls, bounds
<1>12. ASSUME NEW d \in Daemons, Exit(d) PROVE (CallsOK /\ Placed)'
  BY <1>12
  DEF Exit, Goto, HangUp, ConnectedTo, socket, records, bounds
<1>13. ASSUME NEW d \in Daemons, Crash(d) PROVE (CallsOK /\ Placed)'
  BY <1>13
  DEF Crash, Fault, HangUp, ConnectedTo, Unflushed
<1>14. ASSUME NEW d \in Daemons,
            AcceptFails(d) \/ PassOptimize(d)
     PROVE  (CallsOK /\ Placed)'
  BY <1>14
  DEF AcceptFails, Fault, PassOptimize, process, socket, records, calls, bounds
<1>15. ASSUME NEW c \in Clients, Dial(c) PROVE (CallsOK /\ Placed)'
  BY <1>15
  DEF Dial, Dialable, process, socket, records, bounds
<1>16. ASSUME NEW c \in Clients, Leave(c) PROVE (CallsOK /\ Placed)'
  BY <1>16
  DEF Leave, process, socket, records, bounds
<1>17. ASSUME NEW c \in Clients, Accept(c) PROVE (CallsOK /\ Placed)'
  BY <1>17
  DEF Accept, Handle, process, socket, records, bounds
<1>18. ASSUME NEW c \in Clients, Upsert(c) PROVE (CallsOK /\ Placed)'
  BY <1>18
  DEF Upsert, Handle, socket, bounds
<1>19. ASSUME NEW c \in Clients, Flush(c) PROVE (CallsOK /\ Placed)'
  BY <1>19
  DEF Flush, Handle, socket, bounds
<1>20. ASSUME NEW c \in Clients, EngineFails(c) PROVE (CallsOK /\ Placed)'
  BY <1>20
  DEF EngineFails, Fault, HangUp, socket, records
<1>21. ASSUME NEW c \in Clients, Reply(c) PROVE (CallsOK /\ Placed)'
  BY <1>21
  DEF Reply, Handle, process, socket, records, bounds
<1>22. QED
  BY <1>1, <1>2, <1>3, <1>4, <1>5, <1>6, <1>7, <1>8, <1>9, <1>10, <1>11, <1>12,
     <1>13, <1>14, <1>15, <1>16, <1>17, <1>18, <1>19, <1>20, <1>21
  DEF Next, Main, Handler

(* Who removes the path has the lock, and no other daemon listens then. *)
LEMMA SocketKept ==
    ASSUME IInv, [Next]_vars
    PROVE  SocketServed'
<1> USE NobodyElse, ServiceBounds DEF IInv, TypeOK, Types, DaemonsOK, SocketServed, Holding
<1>1. CASE UNCHANGED vars
  BY <1>1 DEF vars, process, socket, records, calls, bounds
<1>2. ASSUME NEW d \in Daemons, Unlink(d) PROVE SocketServed'
  BY <1>2
  DEF Unlink, Goto, records, calls, bounds
<1>3. ASSUME NEW d \in Daemons, Bind(d) PROVE SocketServed'
  BY <1>3
  DEF Bind, records, calls, bounds
<1>4. ASSUME NEW d \in Daemons, ServeEnds(d) PROVE SocketServed'
  BY <1>4
  DEF ServeEnds, CloseListener, HangUp, ConnectedTo, process, records, bounds
<1>5. ASSUME NEW d \in Daemons, Cleanup(d) PROVE SocketServed'
  BY <1>5
  DEF Cleanup, Goto, CloseListener, HangUp, ConnectedTo, records, bounds
<1>6. ASSUME NEW d \in Daemons, Crash(d) PROVE SocketServed'
  BY <1>6
  DEF Crash, Fault, HangUp, ConnectedTo, Unflushed
<1>7. ASSUME NEW d \in Daemons,
            Open(d) \/ StartFails(d) \/ AcceptFails(d) \/ PassOptimize(d) \/
            Stop(d) \/ RunReturns(d) \/ StopOptimize(d) \/ Close(d) \/ Exit(d)
     PROVE  SocketServed'
  BY <1>7
  DEF Open, Goto, StartFails, Fault, AcceptFails, PassOptimize, Stop, RunReturns,
      StopOptimize, Close, Unflushed, Exit, HangUp, ConnectedTo, process, socket,
      records, calls, bounds
<1>8. ASSUME NEW c \in Clients,
            Dial(c) \/ Leave(c) \/ Accept(c) \/ Upsert(c) \/ Flush(c) \/
            EngineFails(c) \/ Reply(c)
     PROVE  SocketServed'
  BY <1>8
  DEF Dial, Dialable, Leave, Accept, Handle, Upsert, Flush, EngineFails, Fault,
      HangUp, Reply, process, socket, records, bounds
<1>9. QED
  BY <1>1, <1>2, <1>3, <1>4, <1>5, <1>6, <1>7, <1>8
  DEF Next, Main, Handler

(* A handler replies after its Flush, and what is flushed stays. *)
LEMMA RecordsKept ==
    ASSUME IInv, [Next]_vars
    PROVE  (FlushedKept /\ AckedKept)'
<1> USE NobodyElse, ServiceBounds DEF IInv, TypeOK, Types, FlushedKept, AckedKept
<1>1. CASE UNCHANGED vars
  BY <1>1 DEF vars, process, socket, records, calls, bounds
<1>2. ASSUME NEW d \in Daemons, ServeEnds(d) PROVE (FlushedKept /\ AckedKept)'
  BY <1>2
  DEF ServeEnds, CloseListener, HangUp, ConnectedTo, process, records, bounds
<1>3. ASSUME NEW d \in Daemons, Cleanup(d) PROVE (FlushedKept /\ AckedKept)'
  BY <1>3
  DEF Cleanup, Goto, CloseListener, HangUp, ConnectedTo, records, bounds
<1>4. ASSUME NEW d \in Daemons, Close(d) PROVE (FlushedKept /\ AckedKept)'
  BY <1>4
  DEF Close, Goto, Unflushed, socket, calls, bounds
<1>5. ASSUME NEW d \in Daemons, Exit(d) PROVE (FlushedKept /\ AckedKept)'
  BY <1>5
  DEF Exit, Goto, HangUp, ConnectedTo, socket, records, bounds
<1>6. ASSUME NEW d \in Daemons, Crash(d) PROVE (FlushedKept /\ AckedKept)'
  BY <1>6
  DEF Crash, Fault, HangUp, ConnectedTo, Unflushed
<1>7. ASSUME NEW d \in Daemons,
            Open(d) \/ StartFails(d) \/ Unlink(d) \/ Bind(d) \/
            AcceptFails(d) \/ PassOptimize(d) \/ Stop(d) \/ RunReturns(d) \/
            StopOptimize(d)
     PROVE  (FlushedKept /\ AckedKept)'
  BY <1>7
  DEF Open, Goto, StartFails, Fault, Unlink, Bind, AcceptFails, PassOptimize,
      Stop, RunReturns, StopOptimize, process, socket, records, calls, bounds
<1>8. ASSUME NEW c \in Clients, Upsert(c) PROVE (FlushedKept /\ AckedKept)'
  BY <1>8
  DEF Upsert, Handle, socket, bounds
<1>9. ASSUME NEW c \in Clients, Flush(c) PROVE (FlushedKept /\ AckedKept)'
  BY <1>9
  DEF Flush, Handle, socket, bounds
<1>10. ASSUME NEW c \in Clients, EngineFails(c) PROVE (FlushedKept /\ AckedKept)'
  BY <1>10
  DEF EngineFails, Fault, HangUp, socket, records
<1>11. ASSUME NEW c \in Clients, Reply(c) PROVE (FlushedKept /\ AckedKept)'
  BY <1>11
  DEF Reply, Handle, process, socket, records, bounds
<1>12. ASSUME NEW c \in Clients,
            Dial(c) \/ Leave(c) \/ Accept(c)
     PROVE  (FlushedKept /\ AckedKept)'
  BY <1>12
  DEF Dial, Dialable, Leave, Accept, Handle, process, socket, records, bounds
<1>13. QED
  BY <1>1, <1>2, <1>3, <1>4, <1>5, <1>6, <1>7, <1>8, <1>9, <1>10, <1>11, <1>12
  DEF Next, Main, Handler

----------------------------------------------------------------------------

(* IInv is an invariant: the basis of the three results below. *)
THEOREM ServiceInvariant == Spec => []IInv
<1>1. IInv /\ [Next]_vars => IInv'
  BY TypesKept, DaemonsKept, CallsKept, SocketKept, RecordsKept DEF IInv, TypeOK
<1>2. QED
  BY InitIInv, <1>1, PTL DEF Spec

(* The types; and zvec is open in exactly the daemon that has its lock, from *)
(* its Open to its Close or death (app.go:477-491).                          *)
THEOREM ServiceTypeCorrect == Spec => []TypeOK
<1>1. IInv => TypeOK
  BY DEF IInv
<1>2. QED
  BY ServiceInvariant, <1>1, PTL

(* Neither Listen nor the clean-up removes the socket path of a daemon that  *)
(* listens (storerpc.go:107, app.go:1053-1054).                              *)
THEOREM ListenerReachable == Spec => []SocketServed
<1>1. IInv => SocketServed
  BY DEF IInv
<1>2. QED
  BY ServiceInvariant, <1>1, PTL

(* What was acknowledged survives crashes, and a Close that waits for no     *)
(* handler (store.go:150-155, 200-206).                                      *)
THEOREM AcknowledgedSurvives == Spec => []AckedKept
<1>1. IInv => AckedKept
  BY DEF IInv
<1>2. QED
  BY ServiceInvariant, <1>1, PTL

----------------------------------------------------------------------------
(* The last Optimize *)

Late == {"stopped", "cleaned", "closed"}

(* No handler is between its Upsert and its Flush while a daemon is past    *)
(* its last Optimize.  The code does not see to that: a clean-up that       *)
(* waited for the handlers before it would.                                 *)
NoLateAdd == (\E d \in Daemons : pc[d] \in Late) => \A c \in Clients : conn[c] # "upserted"

(* What that Optimize found, and there is no more, can be searched for. *)
AllIndexed ==
    faults = 0 => \A d \in Daemons : pc[d] \in Late => disk \cup dirty \subseteq searchable

LEMMA IndexedKept ==
    ASSUME IInv, AllIndexed, NoLateAdd, NoLateAdd', [Next]_vars
    PROVE  AllIndexed'
<1> USE ServiceBounds DEF IInv, TypeOK, Types, AllIndexed, Late
<1>0. faults \in Nat
  BY DEF IInv
<1>1. ASSUME faults' = faults,
             \A d \in Daemons : pc'[d] \in Late => pc[d] \in Late,
             disk' \cup dirty' \subseteq disk \cup dirty, searchable \subseteq searchable'
      PROVE  AllIndexed'
  BY <1>1
<1>2. CASE UNCHANGED vars
  BY <1>2 DEF vars, process, socket, records, calls, bounds
<1>3. ASSUME NEW d \in Daemons, Open(d) \/ Unlink(d) \/ Bind(d) \/ ServeEnds(d) \/ RunReturns(d)
                                \/ Stop(d) \/ Cleanup(d) \/ Exit(d)
      PROVE  AllIndexed'
  BY <1>1, <1>3
  DEF Open, Unlink, Bind, ServeEnds, RunReturns, Stop, Cleanup, Exit, Goto, process, records, bounds
<1>4. ASSUME NEW d \in Daemons, StartFails(d) \/ AcceptFails(d) \/ Crash(d)
      PROVE  AllIndexed'
  BY <1>0, <1>4 DEF StartFails, AcceptFails, Crash, Fault
<1>5. ASSUME NEW d \in Daemons, PassOptimize(d)
      PROVE  AllIndexed'
  BY <1>1, <1>5 DEF PassOptimize, process, bounds
<1>6. ASSUME NEW d \in Daemons, StopOptimize(d)
      PROVE  AllIndexed'
  BY <1>0, <1>6 DEF StopOptimize, Fault
<1>7. ASSUME NEW d \in Daemons, Close(d)
      PROVE  AllIndexed'
  <2>1. pc[d] \in Late /\ faults' = faults /\ searchable' = searchable
    BY <1>7 DEF Close, Goto, bounds
  <2>2. disk' \cup dirty' \subseteq disk \cup dirty
    BY <1>7 DEF Close, Unflushed
  <2> QED
    BY <2>1, <2>2
<1>8. ASSUME NEW c \in Clients, Upsert(c)
      PROVE  AllIndexed'
  <2>1. conn'[c] = "upserted" /\ pc' = pc
    BY <1>8 DEF Upsert, Handle
  <2>2. \A d \in Daemons : pc'[d] \notin Late
    BY <2>1 DEF NoLateAdd
  <2> QED
    BY <2>2
<1>9. ASSUME NEW c \in Clients, Flush(c)
      PROVE  AllIndexed'
  <2>1. conn[c] = "upserted" /\ pc' = pc
    BY <1>9 DEF Flush, Handle
  <2>2. \A d \in Daemons : pc'[d] \notin Late
    BY <2>1 DEF NoLateAdd
  <2> QED
    BY <2>2
<1>10. ASSUME NEW c \in Clients, Dial(c) \/ Leave(c) \/ Accept(c) \/ Reply(c)
       PROVE  AllIndexed'
  BY <1>1, <1>10 DEF Dial, Leave, Accept, Reply, process, records, bounds
<1>11. ASSUME NEW c \in Clients, EngineFails(c)
       PROVE  AllIndexed'
  BY <1>0, <1>1, <1>11 DEF EngineFails, Fault, records
<1>12. QED
  BY <1>2, <1>3, <1>4, <1>5, <1>6, <1>7, <1>8, <1>9, <1>10, <1>11 DEF Next, Main, Handler

(* What app.go:1065-1066 says of the last Optimize does hold of every stop  *)
(* for which no Add is under way in the store at the time, for any daemons  *)
(* and clients: all on disk at the Close can be searched for by the next.   *)
THEOREM QuietStopSearchable == Spec /\ []NoLateAdd => []SearchableAtStop
<1>1. Init => AllIndexed
  BY DEF Init, AllIndexed
<1>2. IInv /\ AllIndexed /\ NoLateAdd /\ NoLateAdd' /\ [Next]_vars => AllIndexed'
  BY IndexedKept
<1>3. AllIndexed => SearchableAtStop
  BY DEF AllIndexed, SearchableAtStop, Late
<1>4. QED
  BY <1>1, <1>2, <1>3, ServiceInvariant, PTL DEF Spec
=============================================================================
