------------------------------ MODULE Property ------------------------------
(***************************************************************************)
(* The reactive property of the Go kernel (internal/kernel/property.go):   *)
(* Set stores under the mutex and calls the listeners after it; Bind makes *)
(* a property follow another.  Property 1 is set by goroutines, the others *)
(* are bound, each once and to one before it: a cycle of bindings would    *)
(* call itself without end, and a second binding does not end the first.   *)
(***************************************************************************)
EXTENDS Naturals, Sequences

CONSTANTS
  Caller,  \* goroutines
  Values,  \* what property 1 is set to
  Last     \* properties are 1..Last

\* There is a property for goroutines to set.
PropertyAssumption == Last \in Nat \ {0}

Properties == 1..Last
Unset == "unset"
Nobody == 0

VARIABLES
  value,      \* value of each property
  listeners,  \* per property: the properties its listeners set
  binding,    \* per property: the one it is bound to
  todo,       \* per goroutine: the Sets its listeners still have to call
  bind,       \* per goroutine: the Bind it is in
  raced       \* history: calls overlapped, and no Set has run alone since

vars == <<value, listeners, binding, todo, bind, raced>>

NoBind == [of |-> Nobody, at |-> "out"]

Init ==
  /\ value = [p \in Properties |-> Unset]
  /\ listeners = [p \in Properties |-> <<>>]
  /\ binding = [p \in Properties |-> Nobody]
  /\ todo = [c \in Caller |-> <<>>]
  /\ bind = [c \in Caller |-> NoBind]
  /\ raced = FALSE

InCall(c) == todo[c] # <<>> \/ bind[c].at # "out"
Alone(c) == \A d \in Caller \ {c} : ~InCall(d)

\* Set: store, then call the listeners there were, each a Set of its own that
\* calls its listeners before it returns.
Set(c, p, val, rest) ==
  /\ value' = [value EXCEPT ![p] = val]
  /\ todo' = [todo EXCEPT ![c] =
       [i \in 1..Len(listeners[p]) |-> [of |-> listeners[p][i], val |-> val]] \o rest]

SetSource(c, val) ==
  /\ ~InCall(c)
  /\ Set(c, 1, val, <<>>)
  /\ raced' = ~Alone(c)
  /\ UNCHANGED <<listeners, binding, bind>>

CallListener(c) ==
  /\ todo[c] # <<>>
  /\ Set(c, Head(todo[c]).of, Head(todo[c]).val, Tail(todo[c]))
  /\ UNCHANGED <<listeners, binding, bind, raced>>

Bind(c, p, other) ==
  /\ ~InCall(c) /\ other < p /\ binding[p] = Nobody
  /\ binding' = [binding EXCEPT ![p] = other]
  /\ bind' = [bind EXCEPT ![c] = [of |-> p, at |-> "listen"]]
  /\ raced' = (raced \/ ~Alone(c))
  /\ UNCHANGED <<value, listeners, todo>>

AddListener(c) ==
  /\ bind[c].at = "listen"
  /\ listeners' = [listeners EXCEPT ![binding[bind[c].of]] = Append(@, bind[c].of)]
  /\ bind' = [bind EXCEPT ![c].at = "get"]
  /\ UNCHANGED <<value, binding, todo, raced>>

\* Fault: Bind copies the value without telling the listeners.
BindCopies(c) ==
  /\ bind[c].at = "get"
  /\ value' = [value EXCEPT ![bind[c].of] = value[binding[bind[c].of]]]
  /\ bind' = [bind EXCEPT ![c] = NoBind]
  /\ UNCHANGED <<listeners, binding, todo, raced>>

\* other.Get(); the Set of it is the next listener call.
BindGets(c) ==
  /\ bind[c].at = "get"
  /\ todo' = [todo EXCEPT ![c] = <<[of |-> bind[c].of, val |-> value[binding[bind[c].of]]]>>]
  /\ bind' = [bind EXCEPT ![c] = NoBind]
  /\ UNCHANGED <<value, listeners, binding, raced>>

Next == \E c \in Caller :
  \/ \E val \in Values : SetSource(c, val)
  \/ CallListener(c)
  \/ \E p, other \in Properties : Bind(c, p, other)
  \/ AddListener(c) \/ BindGets(c)

Spec == Init /\ [][Next]_vars

-----------------------------------------------------------------------------
\* A bound property agrees with the one it is bound to whenever no call is under
\* way, whatever the order in which the chain was bound, except after calls that
\* overlapped; and one Set that runs alone ends every such disagreement.
BoundAgrees ==
  (~raced /\ \A c \in Caller : ~InCall(c)) =>
    \A p \in Properties : binding[p] # Nobody => value[p] = value[binding[p]]
=============================================================================
