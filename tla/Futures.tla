------------------------------- MODULE Futures -------------------------------
(***************************************************************************)
(* A future with its computation, waiter and watcher, and a chain of       *)
(* futures.  The chain is modelled without results, and the future without *)
(* continuations, so they share no state, and every behaviour is one of    *)
(* its "subject".                                                          *)
(***************************************************************************)
EXTENDS FutureInterface

CONSTANTS Depth, Caller, Ways  \* FutureChain

VARIABLES
  subject,
  canceled, finished, stored, data, parent, executed, mark, kind, pc, attach, call, locked,
  launched, ran, stopped

C == INSTANCE FutureChain

ASSUME ChainAssumption == Depth \in Nat

chain == <<canceled, finished, stored, data, parent, executed, mark, kind, pc, attach, call, locked,
           launched, ran, stopped>>

AnyInit ==
  /\ subject \in {"future", "chain"}
  /\ Init /\ C!Init
  /\ subject = "chain" =>
       /\ state = (CHOOSE b \in Begin : TRUE) /\ user = (CHOOSE u \in Users : TRUE)
       /\ ~store.filterMode

AnyNext ==
  /\ UNCHANGED subject
  /\ \/ subject = "future" /\ Next /\ UNCHANGED chain
     \/ subject = "chain" /\ C!Next /\ UNCHANGED vars

\* The fairness of FutureInterface and of FutureChain, each for its own subject.
AnyFairSpec ==
  /\ AnyInit /\ [][AnyNext]_<<subject, vars, chain>>
  /\ LET fut(A) == subject = "future" /\ A
         cha(A) == subject = "chain" /\ A
     IN  /\ WF_vars(fut(Progress)) /\ SF_vars(fut(Ending))
         /\ \A t \in Waiter : WF_vars(fut(Check(t)))
         /\ WF_chain(cha(C!AttachReturns))
         /\ \A f \in C!Future : WF_chain(cha(C!Execute(f))) /\ WF_chain(cha(C!Conclude(f)))
         /\ \A c \in C!Actor : WF_chain(cha(C!Cancel(c)))

-----------------------------------------------------------------------------
\* Continuations run once, and not at all when they were cancelled
\* (qfutureinterface.cpp, qfuture_impl.h).
ChainIsSound == C!ChainIsSound

\* Whoever waits for a result or for the end returns, and every continuation
\* that was attached finishes (qfutureinterface.cpp).
FuturesEnd == WaitersReturn /\ C!ChainCompletes
=============================================================================
