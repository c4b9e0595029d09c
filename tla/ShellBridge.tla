---------------------------- MODULE ShellBridge ----------------------------
(***************************************************************************)
(* Attaching platform shells (internal/shell/shell_integration.go): the    *)
(* platform is entered or removed under the mutex, and the hooks that were *)
(* registered are posted to the event loop one by one after it.  The loop  *)
(* runs them in the order of the Posts.  Hooks come in pairs, for connect  *)
(* and disconnect, registered before shells attach.                        *)
(***************************************************************************)
EXTENDS Integers, Sequences

CONSTANTS
  Caller,    \* goroutines
  Platform,  \* shells
  Hooks      \* pairs of hooks, 1..Hooks

VARIABLES
  activePlatforms,
  call,     \* per goroutine: the hooks it still has to post
  balance,  \* history, per hook and platform: connects less disconnects posted
  last,     \* history, per hook and platform: the one posted last
  raced     \* history: platforms whose last calls overlapped

vars == <<activePlatforms, call, balance, last, raced>>

None == [kind |-> "none", platform |-> "none", next |-> Hooks + 1]
Hook == 1..Hooks

Init ==
  /\ activePlatforms = {}
  /\ call = [c \in Caller |-> None]
  /\ balance = [h \in Hook |-> [p \in Platform |-> 0]]
  /\ last = [h \in Hook |-> [p \in Platform |-> "disconnect"]]
  /\ raced = {}

InCall(p) == {c \in Caller : call[c].platform = p /\ call[c].next <= Hooks}

Enter(c, kind, p) ==
  /\ call[c].next > Hooks
  /\ call' = [call EXCEPT ![c] = [kind |-> kind, platform |-> p, next |-> 1]]
  /\ raced' = IF InCall(p) = {} THEN raced \ {p} ELSE raced \cup {p}
  /\ UNCHANGED <<balance, last>>

\* Fault: whether the shell is attached is not looked at under the mutex.
AttachAgain(c, p) ==
  /\ activePlatforms' = activePlatforms \cup {p}
  /\ Enter(c, "connect", p)

\* A second Attach, or a Detach of what is not attached, returns at once.
AttachShell(c, p) ==
  /\ p \notin activePlatforms
  /\ activePlatforms' = activePlatforms \cup {p}
  /\ Enter(c, "connect", p)

DetachShell(c, p) ==
  /\ p \in activePlatforms
  /\ activePlatforms' = activePlatforms \ {p}
  /\ Enter(c, "disconnect", p)

Dispatch(c) ==
  LET h == call[c].next
      p == call[c].platform
      kind == call[c].kind
  IN /\ h <= Hooks
     /\ balance' = [balance EXCEPT ![h][p] = @ + IF kind = "connect" THEN 1 ELSE -1]
     /\ last' = [last EXCEPT ![h][p] = kind]
     /\ call' = [call EXCEPT ![c].next = @ + 1]
     /\ UNCHANGED <<activePlatforms, raced>>

Next == \E c \in Caller :
  Dispatch(c) \/ \E p \in Platform : AttachShell(c, p) \/ DetachShell(c, p)

Spec == Init /\ [][Next]_vars

-----------------------------------------------------------------------------
\* Whatever goroutines attach and detach, when no call for a platform is under
\* way every hook has seen one connect more than disconnects if it is attached
\* and as many if it is not; and the last it saw is the true one unless the
\* calls overlapped, for then the loop may get them in the other order.
HooksMatchPlatforms ==
  \A p \in Platform : InCall(p) = {} =>
    \A h \in Hook :
      /\ balance[h][p] = IF p \in activePlatforms THEN 1 ELSE 0
      /\ p \notin raced => (last[h][p] = "connect" <=> p \in activePlatforms)
=============================================================================
