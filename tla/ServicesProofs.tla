---------------------------- MODULE ServicesProofs ----------------------------
(***************************************************************************)
(* What the services of the Go program promise: the permission manager,    *)
(* the shell bridge, the master clock, the undo stack, the value tree and  *)
(* the reactive properties.                                                *)
(* They share no state, and each part has its own invariant.               *)
(***************************************************************************)
EXTENDS Services, FiniteSetTheorems, SequenceTheorems, WellFoundedInduction, TLAPS

-----------------------------------------------------------------------------
\* The permission manager.

PermissionTypeOK ==
  /\ locks \in [Target -> {NoDevice} \cup {deviceID[g] : g \in Client}]
  /\ deleting \in [Client -> {NoDevice} \cup Target]
  /\ held \subseteq {deviceID[g] : g \in Client} \X Target

\* An Unlock that nothing has crossed deletes an entry that is still its device's
\* and no longer counts as granted; no other Unlock of the device is at it.
OwnEntry(g) ==
  /\ locks[deleting[g]] = deviceID[g]
  /\ <<deviceID[g], deleting[g]>> \notin held
  /\ \A h \in Client \ {g} : deleting[h] = deleting[g] => deviceID[h] # deviceID[g]

DeletesItsOwn ==
  \A g \in Client : deleting[g] # NoDevice /\ g \notin crossed => OwnEntry(g)

PermissionInv == PermissionTypeOK /\ DeletesItsOwn /\ D!GrantedIsKept

LEMMA InitPermission == D!Init => PermissionInv
  BY DEF D!Init, PermissionInv, PermissionTypeOK, DeletesItsOwn, D!GrantedIsKept

LEMMA TryLockKeeps ==
  ASSUME PermissionInv, NEW g \in Client, NEW t \in Target, D!TryLock(g, t)
  PROVE  PermissionInv'
<1>. DEFINE d == deviceID[g]
<1>1. /\ PermissionTypeOK /\ DeletesItsOwn /\ D!GrantedIsKept
      /\ deleting' = deleting /\ crossed \subseteq crossed'
      /\ d # NoDevice /\ NoDevice \notin Target
  BY ServicesAssumption DEF PermissionInv, D!TryLock, D!PermissionAssumption
<1>2. PermissionTypeOK'
  BY <1>1 DEF PermissionTypeOK, D!TryLock
<1>3. \A s \in Target : locks[s] # NoDevice => locks'[s] = locks[s]
  BY <1>1 DEF PermissionTypeOK, D!TryLock
<1>4. /\ held' \subseteq held \cup {<<d, t>>}
      /\ <<d, t>> \in held' => <<d, t>> \in held \/ locks'[t] = d
  BY <1>1 DEF PermissionTypeOK, D!TryLock, D!Mine
<1>5. DeletesItsOwn'
  <2>. SUFFICES ASSUME NEW h \in Client, deleting[h] # NoDevice, h \notin crossed'
                PROVE  OwnEntry(h)'
    BY <1>1 DEF DeletesItsOwn
  <2>1. /\ OwnEntry(h) /\ deleting[h] \in Target
        /\ deviceID[h] # NoDevice
    BY <1>1, ServicesAssumption DEF DeletesItsOwn, PermissionTypeOK, D!PermissionAssumption
  <2>2. locks'[deleting[h]] = deviceID[h]
    BY <1>3, <2>1 DEF OwnEntry
  <2>3. deleting[h] = t => deviceID[h] # d
    BY DEF D!TryLock, D!Crossing, D!Unlocking
  <2>4. <<deviceID[h], deleting[h]>> \notin held'
    BY <1>4, <2>1, <2>3 DEF OwnEntry
  <2>. QED
    BY <1>1, <2>1, <2>2, <2>4 DEF OwnEntry
<1>6. D!GrantedIsKept'
  <2>. SUFFICES ASSUME NEW p \in held'
                PROVE  locks'[p[2]] = p[1]
    BY DEF D!GrantedIsKept
  <2>1. CASE p \in held
    <3>1. p[2] \in Target /\ p[1] # NoDevice /\ locks[p[2]] = p[1]
      BY <1>1, <2>1, ServicesAssumption
         DEF PermissionTypeOK, D!GrantedIsKept, D!PermissionAssumption
    <3>. QED
      BY <1>3, <3>1
  <2>2. CASE p \notin held
    BY <1>4, <2>2
  <2>. QED
    BY <2>1, <2>2
<1>. QED
  BY <1>2, <1>5, <1>6 DEF PermissionInv

LEMMA UnlockKeeps ==
  ASSUME PermissionInv, NEW g \in Client, NEW t \in Target, D!Unlock(g, t)
  PROVE  PermissionInv'
<1>1. /\ PermissionTypeOK /\ DeletesItsOwn /\ D!GrantedIsKept
      /\ locks' = locks /\ held' \subseteq held /\ <<deviceID[g], t>> \notin held'
      /\ crossed \subseteq crossed' /\ deleting[g] = NoDevice
      /\ deleting' = IF locks[t] = deviceID[g] THEN [deleting EXCEPT ![g] = t] ELSE deleting
      /\ NoDevice \notin Target
  BY ServicesAssumption
     DEF PermissionInv, D!Unlock, D!Mine, D!PermissionAssumption
<1>2. PermissionTypeOK'
  BY <1>1 DEF PermissionTypeOK
<1>3. DeletesItsOwn'
  <2>. SUFFICES ASSUME NEW h \in Client, deleting'[h] # NoDevice, h \notin crossed'
                PROVE  OwnEntry(h)'
    BY DEF DeletesItsOwn
  <2>1. CASE h = g
    <3>1. locks[t] = deviceID[g] /\ deleting'[g] = t
      BY <1>1, <2>1 DEF PermissionTypeOK
    <3>2. \A k \in Client : ~(deleting[k] = t /\ deviceID[k] = deviceID[g])
      BY <2>1, <3>1 DEF D!Unlock, D!Mine, D!Crossing, D!Unlocking
    <3>3. \A k \in Client \ {g} : deleting'[k] = deleting[k]
      BY <1>1 DEF PermissionTypeOK
    <3>. QED
      BY <1>1, <2>1, <3>1, <3>2, <3>3 DEF OwnEntry
  <2>2. CASE h # g
    <3>1. deleting'[h] = deleting[h] /\ OwnEntry(h)
      BY <1>1, <2>2 DEF PermissionTypeOK, DeletesItsOwn
    <3>2. \A k \in Client : deleting'[k] = deleting[k] \/ (k = g /\ deleting'[k] = t)
      BY <1>1 DEF PermissionTypeOK
    <3>3. deleting[h] = t => deviceID[h] # deviceID[g]
      BY DEF D!Unlock, D!Crossing, D!Unlocking
    <3>. QED
      BY <1>1, <3>1, <3>2, <3>3 DEF OwnEntry
  <2>. QED
    BY <2>1, <2>2
<1>4. D!GrantedIsKept'
  BY <1>1 DEF D!GrantedIsKept
<1>. QED
  BY <1>2, <1>3, <1>4 DEF PermissionInv

\* Two uncrossed Unlocks of one target would both have their device in the entry.
LEMMA DeleteKeeps ==
  ASSUME PermissionInv, NEW g \in Client, D!Delete(g)
  PROVE  PermissionInv'
<1>. DEFINE t == deleting[g]
<1>1. /\ PermissionTypeOK /\ DeletesItsOwn /\ D!GrantedIsKept
      /\ locks' = [locks EXCEPT ![t] = NoDevice]
      /\ deleting' = [deleting EXCEPT ![g] = NoDevice]
      /\ held' = {p \in held : ~(g \in crossed /\ p[2] = t)}
      /\ t # NoDevice
  BY DEF PermissionInv, D!Delete
<1>2. PermissionTypeOK'
  BY <1>1 DEF PermissionTypeOK
<1>3. \A s \in Target : s # t => locks'[s] = locks[s]
  BY <1>1 DEF PermissionTypeOK
<1>4. DeletesItsOwn'
  <2>. SUFFICES ASSUME NEW h \in Client, deleting'[h] # NoDevice, h \notin crossed'
                PROVE  OwnEntry(h)'
    BY DEF DeletesItsOwn
  <2>1. h # g /\ deleting'[h] = deleting[h] /\ deleting[h] \in Target
    BY <1>1 DEF PermissionTypeOK
  <2>2. h \notin crossed /\ ~(g \in crossed /\ deleting[h] = t)
    BY <2>1 DEF D!Delete, D!Unlocking
  <2>3. OwnEntry(h)
    BY <1>1, <2>1, <2>2 DEF DeletesItsOwn
  <2>4. deleting[h] # t
    BY <1>1, <2>1, <2>2, <2>3 DEF DeletesItsOwn, OwnEntry
  <2>5. locks'[deleting[h]] = locks[deleting[h]]
    BY <1>3, <2>1, <2>4
  <2>6. \A k \in Client : deleting'[k] = deleting[h] => deleting[k] = deleting[h]
    BY <1>1, <2>1 DEF PermissionTypeOK
  <2>. QED
    BY <1>1, <2>1, <2>3, <2>5, <2>6 DEF OwnEntry
<1>5. D!GrantedIsKept'
  <2>. SUFFICES ASSUME NEW p \in held, ~(g \in crossed /\ p[2] = t)
                PROVE  locks'[p[2]] = p[1]
    BY <1>1 DEF D!GrantedIsKept
  <2>1. p[2] \in Target /\ p = <<p[1], p[2]>> /\ locks[p[2]] = p[1]
    BY <1>1 DEF PermissionTypeOK, D!GrantedIsKept
  <2>2. p[2] # t
    BY <1>1, <2>1 DEF DeletesItsOwn, OwnEntry
  <2>. QED
    BY <1>3, <2>1, <2>2
<1>. QED
  BY <1>2, <1>4, <1>5 DEF PermissionInv

LEMMA PermissionStep == PermissionInv /\ [D!Next]_(D!vars) => PermissionInv'
<1>. SUFFICES ASSUME PermissionInv, [D!Next]_(D!vars) PROVE PermissionInv'
  OBVIOUS
<1>1. CASE UNCHANGED D!vars
  BY <1>1
     DEF D!vars, PermissionInv, PermissionTypeOK, DeletesItsOwn, OwnEntry, D!GrantedIsKept
<1>2. CASE D!Next
  BY <1>2, TryLockKeeps, UnlockKeeps, DeleteKeeps DEF D!Next
<1>. QED
  BY <1>1, <1>2

\* Whatever number of goroutines call for a device, a grant is lost to nothing but
\* an Unlock of the device, or the Delete of an Unlock that was crossed between its
\* load and its delete by another call of its own device, or by such a Delete
\* (permission_manager.go).
THEOREM GrantsAreKept == D!Spec => []GrantedIsKept
<1>1. D!Spec => []PermissionInv
  BY InitPermission, PermissionStep, PTL DEF D!Spec
<1>2. PermissionInv => GrantedIsKept
  BY DEF PermissionInv, GrantedIsKept
<1>. QED
  BY <1>1, <1>2, PTL

-----------------------------------------------------------------------------
\* The shell bridge.  A hook has seen what is true of a platform, but for the
\* calls that have still to post to it: HooksMatchPlatforms speaks only of
\* when there are none, and is not inductive.

ShellTypeOK ==
  /\ activePlatforms \subseteq Platform /\ raced \subseteq Platform
  /\ call \in [Caller -> [kind : {"none", "connect", "disconnect"},
                          platform : Platform \cup {"none"}, next : 1..Hooks + 1]]
  /\ \A c \in Caller : call[c].next <= Hooks => call[c].kind # "none" /\ call[c].platform \in Platform
  /\ balance \in [S!Hook -> [Platform -> Int]]
  /\ last \in [S!Hook -> [Platform -> {"connect", "disconnect"}]]

\* The calls of a kind for p that have still to post hook h.
ToPost(h, p, kind) ==
  {c \in Caller : call[c].platform = p /\ call[c].kind = kind /\ call[c].next <= h}

BalanceIsDue ==
  \A h \in S!Hook, p \in Platform :
    balance[h][p] + Cardinality(ToPost(h, p, "connect")) - Cardinality(ToPost(h, p, "disconnect"))
      = IF p \in activePlatforms THEN 1 ELSE 0

\* As long as calls for p have not overlapped there is one at a time, which
\* tells what is true.
LastIsDue ==
  \A p \in Platform \ raced :
    /\ \A c, d \in S!InCall(p) : c = d
    /\ \A c \in S!InCall(p) : call[c].kind = "connect" <=> p \in activePlatforms
    /\ \A h \in S!Hook :
         (\A c \in S!InCall(p) : call[c].next > h)
           => (last[h][p] = "connect" <=> p \in activePlatforms)

ShellInv == ShellTypeOK /\ BalanceIsDue /\ LastIsDue

LEMMA ToPostIsFinite ==
  ASSUME IsFiniteSet(Caller)
  PROVE  \A h, p, kind : IsFiniteSet(ToPost(h, p, kind)) /\ Cardinality(ToPost(h, p, kind)) \in Nat
<1>1. \A h, p, kind : ToPost(h, p, kind) \in SUBSET Caller
  BY DEF ToPost
<1> QED
  BY <1>1, FS_Subset, FS_CardinalityType

LEMMA ShellInit ==
  ASSUME Hooks \in Nat, S!Init
  PROVE  ShellInv
<1>. USE DEF S!Init, S!None, S!Hook
<1>1. ShellTypeOK
  BY DEF ShellTypeOK
<1>2. \A h \in S!Hook : \A p, kind : ToPost(h, p, kind) = {}
  BY DEF ToPost
<1>3. Cardinality({}) = 0
  BY FS_EmptySet
<1>4. BalanceIsDue
  <2>1. ASSUME NEW h \in S!Hook, NEW p \in Platform
        PROVE  /\ Cardinality(ToPost(h, p, "connect")) = 0
               /\ Cardinality(ToPost(h, p, "disconnect")) = 0
               /\ balance[h][p] = 0 /\ p \notin activePlatforms
    BY <1>2, <1>3
  <2> QED
    BY <2>1 DEF BalanceIsDue
<1>5. LastIsDue
  BY DEF LastIsDue, S!InCall
<1> QED
  BY <1>1, <1>4, <1>5 DEF ShellInv

\* Enter adds its caller to those that have to post every hook, and a platform
\* that it is not for is as before.
LEMMA EnterKeeps ==
  ASSUME IsFiniteSet(Caller), Hooks \in Nat, ShellInv, NEW c \in Caller, NEW p \in Platform,
         NEW kind \in {"connect", "disconnect"},
         kind = "connect" => p \notin activePlatforms /\ activePlatforms' = activePlatforms \cup {p},
         kind = "disconnect" => p \in activePlatforms /\ activePlatforms' = activePlatforms \ {p},
         S!Enter(c, kind, p)
  PROVE  ShellInv'
<1>. USE DEF S!Enter
<1>. DEFINE new == [kind |-> kind, platform |-> p, next |-> 1]
<1>1. /\ call' = [call EXCEPT ![c] = new] /\ call'[c] = new
      /\ \A d \in Caller \ {c} : call'[d] = call[d]
      /\ call[c].next > Hooks /\ call[c].next \in Int
      /\ \A d \in Caller : call[d].next \in 1..Hooks + 1
  BY DEF ShellTypeOK, ShellInv
<1>2. ShellTypeOK'
  <2>1. call' \in [Caller -> [kind : {"none", "connect", "disconnect"},
                              platform : Platform \cup {"none"}, next : 1..Hooks + 1]]
    <3>1. new \in [kind : {"none", "connect", "disconnect"},
                   platform : Platform \cup {"none"}, next : 1..Hooks + 1]
      OBVIOUS
    <3> QED
      BY <1>1, <3>1 DEF ShellTypeOK, ShellInv
  <2>2. \A d \in Caller : call'[d].next <= Hooks => call'[d].kind # "none" /\ call'[d].platform \in Platform
    BY <1>1 DEF ShellTypeOK, ShellInv
  <2>3. activePlatforms' \subseteq Platform /\ raced' \subseteq Platform
    BY DEF ShellTypeOK, ShellInv
  <2> QED
    BY <2>1, <2>2, <2>3 DEF ShellTypeOK, ShellInv, S!Hook
<1>3. BalanceIsDue'
  <2>. SUFFICES ASSUME NEW h \in S!Hook, NEW q \in Platform
                PROVE  balance'[h][q] + Cardinality(ToPost(h, q, "connect")')
                         - Cardinality(ToPost(h, q, "disconnect")')
                         = IF q \in activePlatforms' THEN 1 ELSE 0
    BY DEF BalanceIsDue, S!Hook
  <2>0. h \in 1..Hooks /\ balance'[h][q] = balance[h][q] /\ balance[h][q] \in Int
    BY DEF S!Hook, ShellInv, ShellTypeOK
  <2>1. balance[h][q] + Cardinality(ToPost(h, q, "connect"))
          - Cardinality(ToPost(h, q, "disconnect")) = IF q \in activePlatforms THEN 1 ELSE 0
    BY DEF BalanceIsDue, ShellInv
  <2>2. \A k : k # kind \/ q # p => ToPost(h, q, k)' = ToPost(h, q, k)
    BY <1>1, <2>0 DEF ToPost
  <2>3. /\ ToPost(h, p, kind)' = ToPost(h, p, kind) \cup {c} /\ c \notin ToPost(h, p, kind)
    BY <1>1, <2>0 DEF ToPost
  <2>4. Cardinality(ToPost(h, p, kind)') = Cardinality(ToPost(h, p, kind)) + 1
    BY <2>3, ToPostIsFinite, FS_AddElement
  <2>5. q # p => (q \in activePlatforms' <=> q \in activePlatforms)
    OBVIOUS
  <2>6. \A k : Cardinality(ToPost(h, q, k)) \in Nat
    BY ToPostIsFinite
  <2>7. CASE q # p
    BY <2>0, <2>1, <2>2, <2>5, <2>7
  <2>8. CASE q = p /\ kind = "connect"
    <3>1. Cardinality(ToPost(h, q, "disconnect")') = Cardinality(ToPost(h, q, "disconnect"))
      BY <2>2, <2>8
    <3> QED
      BY <2>0, <2>1, <2>4, <2>6, <2>8, <3>1
  <2>9. CASE q = p /\ kind = "disconnect"
    <3>1. Cardinality(ToPost(h, q, "connect")') = Cardinality(ToPost(h, q, "connect"))
      BY <2>2, <2>9
    <3> QED
      BY <2>0, <2>1, <2>4, <2>6, <2>9, <3>1
  <2> QED
    BY <2>7, <2>8, <2>9
<1>4. LastIsDue'
  <2>. SUFFICES ASSUME NEW q \in Platform \ raced'
                PROVE  /\ \A d, e \in S!InCall(q)' : d = e
                       /\ \A d \in S!InCall(q)' : call'[d].kind = "connect" <=> q \in activePlatforms'
                       /\ \A h \in S!Hook :
                            (\A d \in S!InCall(q)' : call'[d].next > h)
                              => (last'[h][q] = "connect" <=> q \in activePlatforms')
    BY DEF LastIsDue, S!Hook
  <2>1. CASE q # p
    <3>1. S!InCall(q)' = S!InCall(q) /\ \A d \in S!InCall(q) : call'[d] = call[d]
      BY <1>1, <2>1 DEF S!InCall
    <3> QED
      BY <2>1, <3>1 DEF LastIsDue, ShellInv
  <2>2. CASE q = p
    <3>1. S!InCall(p) = {}
      BY <2>2
    <3>2. \A d \in S!InCall(q)' : d = c
      BY <1>1, <2>2, <3>1 DEF S!InCall
    <3>3. \A h \in S!Hook : c \in S!InCall(q)' /\ ~(call'[c].next > h)
      BY <1>1, <2>2 DEF S!InCall, S!Hook
    <3> QED
      BY <1>1, <2>2, <3>2, <3>3
  <2> QED
    BY <2>1, <2>2
<1> QED
  BY <1>2, <1>3, <1>4 DEF ShellInv

LEMMA DispatchKeeps ==
  ASSUME IsFiniteSet(Caller), Hooks \in Nat, ShellInv, NEW c \in Caller, S!Dispatch(c)
  PROVE  ShellInv'
<1>0. /\ call[c].next \in S!Hook /\ call[c].next \in 1..Hooks /\ call[c].platform \in Platform
      /\ call[c].kind \in {"connect", "disconnect"}
  <2>1. call[c].next \in 1..Hooks + 1 /\ call[c].next <= Hooks
    BY DEF S!Dispatch, ShellInv, ShellTypeOK
  <2>2. call[c].platform \in Platform /\ call[c].kind \in {"connect", "disconnect"}
    BY <2>1 DEF ShellInv, ShellTypeOK
  <2> QED
    BY <2>1, <2>2 DEF S!Hook
<1>1. PICK h \in S!Hook, p \in Platform, kind \in {"connect", "disconnect"} :
        /\ h = call[c].next /\ p = call[c].platform /\ kind = call[c].kind /\ h \in 1..Hooks
        /\ UNCHANGED <<activePlatforms, raced>>
        /\ balance' = [balance EXCEPT ![h][p] = @ + IF kind = "connect" THEN 1 ELSE -1]
        /\ last' = [last EXCEPT ![h][p] = kind]
        /\ call' = [call EXCEPT ![c].next = h + 1]
  BY <1>0 DEF S!Dispatch
<1>2. /\ call'[c] = [kind |-> kind, platform |-> p, next |-> h + 1]
      /\ \A d \in Caller \ {c} : call'[d] = call[d]
      /\ \A d \in Caller : call[d].next \in 1..Hooks + 1
  BY <1>1 DEF ShellInv, ShellTypeOK
<1>3. ShellTypeOK'
  <2>1. call' \in [Caller -> [kind : {"none", "connect", "disconnect"},
                              platform : Platform \cup {"none"}, next : 1..Hooks + 1]]
    BY <1>1, <1>2 DEF ShellInv, ShellTypeOK
  <2>2. \A d \in Caller : call'[d].next <= Hooks => call'[d].kind # "none" /\ call'[d].platform \in Platform
    BY <1>1, <1>2 DEF ShellInv, ShellTypeOK
  <2>3. balance' \in [S!Hook -> [Platform -> Int]]
    BY <1>1 DEF ShellInv, ShellTypeOK
  <2>4. last' \in [S!Hook -> [Platform -> {"connect", "disconnect"}]]
    BY <1>1 DEF ShellInv, ShellTypeOK
  <2> QED
    BY <1>1, <2>1, <2>2, <2>3, <2>4 DEF ShellTypeOK, ShellInv, S!Hook
<1>4. BalanceIsDue'
  <2>. SUFFICES ASSUME NEW g \in S!Hook, NEW q \in Platform
                PROVE  balance'[g][q] + Cardinality(ToPost(g, q, "connect")')
                         - Cardinality(ToPost(g, q, "disconnect")')
                         = IF q \in activePlatforms THEN 1 ELSE 0
    BY <1>1 DEF BalanceIsDue, S!Hook
  <2>1. balance[g][q] + Cardinality(ToPost(g, q, "connect"))
          - Cardinality(ToPost(g, q, "disconnect")) = IF q \in activePlatforms THEN 1 ELSE 0
    BY DEF BalanceIsDue, ShellInv
  <2>2. g \in 1..Hooks /\ balance[g][q] \in Int
    BY DEF S!Hook, ShellInv, ShellTypeOK
  <2>3. \A k : Cardinality(ToPost(g, q, k)) \in Nat /\ IsFiniteSet(ToPost(g, q, k))
    BY ToPostIsFinite
  <2>4. \A k : g # h \/ q # p \/ k # kind => ToPost(g, q, k)' = ToPost(g, q, k)
    BY <1>1, <1>2, <2>2 DEF ToPost
  <2>5. CASE g # h \/ q # p
    <3>1. balance'[g][q] = balance[g][q]
      BY <1>1, <2>5 DEF ShellInv, ShellTypeOK
    <3> QED
      BY <2>1, <2>4, <2>5, <3>1
  <2>6. CASE g = h /\ q = p
    <3>1. balance'[g][q] = balance[g][q] + IF kind = "connect" THEN 1 ELSE -1
      BY <1>1, <2>6 DEF ShellInv, ShellTypeOK
    <3>2. ToPost(g, q, kind)' = ToPost(g, q, kind) \ {c} /\ c \in ToPost(g, q, kind)
      BY <1>1, <1>2, <2>2, <2>6 DEF ToPost
    <3>3. Cardinality(ToPost(g, q, kind)') = Cardinality(ToPost(g, q, kind)) - 1
      BY <2>3, <3>2, FS_RemoveElement
    <3>4. CASE kind = "connect"
      <4>1. Cardinality(ToPost(g, q, "disconnect")') = Cardinality(ToPost(g, q, "disconnect"))
        BY <2>4, <3>4
      <4>2. Cardinality(ToPost(g, q, "connect")') = Cardinality(ToPost(g, q, "connect")) - 1
        BY <3>3, <3>4
      <4>3. balance'[g][q] = balance[g][q] + 1
        BY <3>1, <3>4
      <4>4. Cardinality(ToPost(g, q, "connect")) \in Nat /\ Cardinality(ToPost(g, q, "disconnect")) \in Nat
        BY <2>3
      <4> QED
        BY <2>1, <2>2, <4>1, <4>2, <4>3, <4>4
    <3>5. CASE kind = "disconnect"
      <4>1. Cardinality(ToPost(g, q, "connect")') = Cardinality(ToPost(g, q, "connect"))
        BY <2>4, <3>5
      <4>2. Cardinality(ToPost(g, q, "disconnect")') = Cardinality(ToPost(g, q, "disconnect")) - 1
        BY <3>3, <3>5
      <4>3. balance'[g][q] = balance[g][q] + (-1)
        BY <3>1, <3>5
      <4>4. Cardinality(ToPost(g, q, "connect")) \in Nat /\ Cardinality(ToPost(g, q, "disconnect")) \in Nat
        BY <2>3
      <4> QED
        BY <2>1, <2>2, <4>1, <4>2, <4>3, <4>4
    <3> QED
      BY <1>1, <3>4, <3>5
  <2> QED
    BY <2>5, <2>6
<1>5. LastIsDue'
  <2>. SUFFICES ASSUME NEW q \in Platform \ raced
                PROVE  /\ \A d, e \in S!InCall(q)' : d = e
                       /\ \A d \in S!InCall(q)' : call'[d].kind = "connect" <=> q \in activePlatforms
                       /\ \A g \in S!Hook :
                            (\A d \in S!InCall(q)' : call'[d].next > g)
                              => (last'[g][q] = "connect" <=> q \in activePlatforms)
    BY <1>1 DEF LastIsDue, S!Hook
  <2>1. /\ \A d, e \in S!InCall(q) : d = e
        /\ \A d \in S!InCall(q) : call[d].kind = "connect" <=> q \in activePlatforms
        /\ \A g \in S!Hook :
             (\A d \in S!InCall(q) : call[d].next > g)
               => (last[g][q] = "connect" <=> q \in activePlatforms)
    BY DEF LastIsDue, ShellInv
  <2>2. CASE q # p
    <3>1. S!InCall(q)' = S!InCall(q) /\ \A d \in S!InCall(q) : call'[d] = call[d]
      BY <1>1, <1>2, <2>2 DEF S!InCall
    <3>2. \A g \in S!Hook : last'[g][q] = last[g][q]
      BY <1>1, <2>2 DEF ShellInv, ShellTypeOK
    <3> QED
      BY <2>1, <3>1, <3>2
  <2>3. CASE q = p
    <3>1. c \in S!InCall(q) /\ \A d \in S!InCall(q) : d = c
      BY <1>1, <2>1, <2>3 DEF S!InCall
    <3>2. \A d \in S!InCall(q)' : d = c
      BY <1>2, <3>1 DEF S!InCall
    <3>3. kind = "connect" <=> q \in activePlatforms
      BY <1>1, <2>1, <3>1
    <3>4. ASSUME NEW g \in S!Hook, \A d \in S!InCall(q)' : call'[d].next > g
          PROVE  last'[g][q] = "connect" <=> q \in activePlatforms
      <4>1. g \in 1..Hooks /\ (c \in S!InCall(q)' <=> h + 1 <= Hooks)
        BY <1>2, <2>3 DEF S!Hook, S!InCall
      <4>2. g <= h
        BY <1>1, <1>2, <3>4, <4>1
      <4>3. CASE g = h
        BY <1>1, <2>3, <3>3, <4>3 DEF ShellInv, ShellTypeOK
      <4>4. CASE g < h
        <5>1. last'[g][q] = last[g][q]
          BY <1>1, <4>4 DEF ShellInv, ShellTypeOK
        <5>2. \A d \in S!InCall(q) : call[d].next > g
          BY <1>1, <3>1, <4>4
        <5> QED
          BY <2>1, <5>1, <5>2
      <4> QED
        BY <1>1, <4>1, <4>2, <4>3, <4>4
    <3> QED
      BY <1>2, <3>2, <3>3, <3>4
  <2> QED
    BY <2>2, <2>3
<1> QED
  BY <1>3, <1>4, <1>5 DEF ShellInv

LEMMA ShellStep ==
  ASSUME IsFiniteSet(Caller), Hooks \in Nat, ShellInv, [S!Next]_(S!vars)
  PROVE  ShellInv'
<1>1. CASE UNCHANGED S!vars
  <2>1. \A h, p, kind : ToPost(h, p, kind)' = ToPost(h, p, kind)
    BY <1>1 DEF S!vars, ToPost
  <2>2. BalanceIsDue'
    BY <1>1, <2>1 DEF S!vars, ShellInv, BalanceIsDue, S!Hook
  <2>3. ShellTypeOK' /\ LastIsDue'
    BY <1>1 DEF S!vars, ShellInv, ShellTypeOK, LastIsDue, S!Hook, S!InCall
  <2> QED
    BY <2>2, <2>3 DEF ShellInv
<1>2. ASSUME NEW c \in Caller, S!Dispatch(c)
      PROVE  ShellInv'
  BY <1>2, DispatchKeeps
<1>3. ASSUME NEW c \in Caller, NEW p \in Platform, S!AttachShell(c, p)
      PROVE  ShellInv'
  BY <1>3, EnterKeeps DEF S!AttachShell
<1>4. ASSUME NEW c \in Caller, NEW p \in Platform, S!DetachShell(c, p)
      PROVE  ShellInv'
  BY <1>4, EnterKeeps DEF S!DetachShell
<1> QED
  BY <1>1, <1>2, <1>3, <1>4 DEF S!Next

\* When no call for a platform is under way, every hook has seen one connect
\* more than disconnects if the platform is attached, and as many if not, and
\* last the one that is true unless calls overlapped (shell_integration.go).
THEOREM HooksAreTold ==
  ASSUME IsFiniteSet(Caller), Hooks \in Nat
  PROVE  S!Spec => []HooksMatchPlatforms
<1>1. S!Init => ShellInv
  BY ShellInit
<1>2. ShellInv /\ [S!Next]_(S!vars) => ShellInv'
  BY ShellStep
<1>3. ShellInv => HooksMatchPlatforms
  <2>. SUFFICES ASSUME ShellInv, NEW p \in Platform, S!InCall(p) = {}, NEW h \in S!Hook
                PROVE  /\ balance[h][p] = IF p \in activePlatforms THEN 1 ELSE 0
                       /\ p \notin raced => (last[h][p] = "connect" <=> p \in activePlatforms)
    BY DEF HooksMatchPlatforms, HooksMatchPlatforms, S!HooksMatchPlatforms
  <2>1. h \in 1..Hooks /\ balance[h][p] \in Int
    BY DEF S!Hook, ShellInv, ShellTypeOK
  <2>2. ToPost(h, p, "connect") = {} /\ ToPost(h, p, "disconnect") = {}
    BY <2>1 DEF ToPost, S!InCall, ShellInv, ShellTypeOK
  <2>3. /\ Cardinality(ToPost(h, p, "connect")) = 0
        /\ Cardinality(ToPost(h, p, "disconnect")) = 0
    BY <2>2, FS_EmptySet
  <2>4. balance[h][p] = IF p \in activePlatforms THEN 1 ELSE 0
    BY <2>1, <2>3 DEF ShellInv, BalanceIsDue
  <2>5. p \notin raced => (last[h][p] = "connect" <=> p \in activePlatforms)
    BY DEF ShellInv, LastIsDue
  <2> QED
    BY <2>4, <2>5
<1> QED
  BY <1>1, <1>2, <1>3, PTL DEF S!Spec

-----------------------------------------------------------------------------
\* The master clock.  That a beat comes after four steps follows from the
\* number of the step the first heartbeat is at, wherever it stands.

BarAndTempo ==
  /\ StepsPerBar = 16 /\ StepsPerBeat = 4
  /\ Bpm \subseteq Int

BeatIsDue ==
  /\ heart[1] \in {"spawned", "enter", "select", "step"} => sinceBeat = (step[1] + 3) % 4
  /\ heart[1] = "beat" => step[1] % 4 = 0 /\ sinceBeat = 4
  /\ heart[1] = "update" => sinceBeat = step[1] % 4

\* Only a heartbeat with a bad tempo panics, and it does so at once.
TempoInv ==
  /\ panicked = TRUE => \E h \in C!Heart : C!Begun(h) /\ tempo[h] <= 0
  /\ panicked = FALSE => \A h \in C!Heart : C!Begun(h) => tempo[h] >= 0

ClockInv ==
  /\ C!ClockTypeOK
  /\ TempoInv
  /\ isRunning => gen > 0
  /\ \A h \in C!Heart : h > gen => heart[h] = "none"
  /\ \A h \in C!Heart : heart[h] = "none" => step[h] = 0
  /\ gen = 1 => BeatIsDue

LEMMA ClockInit ==
  ASSUME MaxStart \in Nat, TickCap \in Nat, BarAndTempo, C!Init
  PROVE  ClockInv
<1>0. StepsPerBar = 16 /\ StepsPerBeat = 4
  BY DEF BarAndTempo
<1>. USE <1>0
<1>1. C!ClockTypeOK
  <2>1. isRunning \in BOOLEAN /\ panicked \in BOOLEAN
    BY DEF C!Init
  <2>2. gen \in 0..MaxStart /\ ticks \in 0..TickCap /\ 4 - 1 \in 0..4 + 1 /\ 0 \in 0..16 - 1
    BY DEF C!Init
  <2> QED
    BY <2>1, <2>2 DEF C!Init, C!ClockTypeOK, C!HeartPC, C!Heart
<1>2. gen = 0
  BY DEF C!Init
<1> QED
  BY <1>1, <1>2 DEF C!Init, ClockInv, TempoInv, C!Begun

\* The type of a step's successor in the bar.
LEMMA BarIsARing ==
  ASSUME NEW n \in 0..15
  PROVE  /\ (n + 1) % 16 \in 0..15 /\ n % 4 \in 0..3 /\ (n + 3) % 4 \in 0..3
         /\ (((n + 1) % 16) + 3) % 4 = n % 4
         /\ n % 4 = 0 => (n + 3) % 4 = 3
         /\ n % 4 # 0 => ((n + 3) % 4) + 1 = n % 4
OBVIOUS

\* The methods, and whoever reads the ticks.
LEMMA MethodsKeep ==
  ASSUME MaxStart \in Nat, TickCap \in Nat, BarAndTempo, ClockInv, panicked = FALSE,
         (\E b \in Bpm : C!SetBpm(b)) \/ C!Start \/ C!Stop \/ C!ReceiveTick
  PROVE  ClockInv'
<1>0. StepsPerBar = 16 /\ StepsPerBeat = 4
  BY DEF BarAndTempo
<1>. USE <1>0
<1>. USE DEF ClockInv, C!ClockTypeOK, C!HeartPC, C!Heart, C!Begun, TempoInv
<1>1. CASE \E b \in Bpm : C!SetBpm(b)
  <2>1. /\ bpm' \in Bpm /\ UNCHANGED <<isRunning, gen, ticks, heart, watch, tempo, step, sinceBeat, panicked>>
    BY <1>1 DEF C!SetBpm, C!heartVars
  <2>2. BeatIsDue <=> BeatIsDue'
    BY <2>1 DEF BeatIsDue
  <2> QED
    BY <2>1, <2>2
<1>2. CASE C!Start
  <2>1. gen + 1 \in 1..MaxStart /\ gen' = gen + 1 /\ heart[gen + 1] = "none"
    BY <1>2 DEF C!Start
  <2>2. /\ C!ClockTypeOK' /\ TempoInv'
        /\ isRunning' => gen' > 0
        /\ \A h \in C!Heart : h > gen' => heart'[h] = "none"
        /\ \A h \in C!Heart : heart'[h] = "none" => step'[h] = 0
    BY <1>2, <2>1 DEF C!Start
  <2>3. gen' = 1 => BeatIsDue'
    BY <1>2, <2>1 DEF C!Start, BeatIsDue
  <2> QED
    BY <2>2, <2>3
<1>3. CASE C!Stop
  <2>1. ~(gen < gen) /\ gen # 0
    BY <1>3 DEF C!Stop
  <2>2. panicked' = FALSE
    BY <1>3, <2>1 DEF C!Stop, C!Closed
  <2>3. /\ isRunning' = FALSE
        /\ UNCHANGED <<bpm, gen, ticks, heart, watch, tempo, step, sinceBeat>>
    BY <1>3 DEF C!Stop, C!heartVars
  <2>4. BeatIsDue <=> BeatIsDue'
    BY <2>3 DEF BeatIsDue
  <2> QED
    BY <2>2, <2>3, <2>4
<1>4. CASE C!ReceiveTick
  BY <1>4 DEF C!ReceiveTick, C!heartVars, C!clockVars, BeatIsDue
<1> QED
  BY <1>1, <1>2, <1>3, <1>4

\* The heartbeat h goes from one place to another.
LEMMA HeartbeatKeeps ==
  ASSUME MaxStart \in Nat, TickCap \in Nat, BarAndTempo, ClockInv, panicked = FALSE,
         NEW h \in C!Heart, C!Heartbeat(h) \/ C!Quit(h)
  PROVE  ClockInv'
<1>0. StepsPerBar = 16 /\ StepsPerBeat = 4
  BY DEF BarAndTempo
<1>. USE <1>0
<1>1. /\ UNCHANGED <<bpm, isRunning, gen>> /\ heart[h] # "none" /\ h <= gen /\ gen \in 0..MaxStart
      /\ step[h] \in 0..15 /\ h \in 1..MaxStart
  BY DEF C!Heartbeat, C!Quit, C!Goto, C!clockVars, C!ReadTempo, C!EnterSelect, C!Tick, C!EmitStep,
         C!EmitBeat, C!Update, ClockInv, C!ClockTypeOK, C!HeartPC, C!Heart
<1>2. PICK l \in C!HeartPC \ {"none"} : heart' = [heart EXCEPT ![h] = l]
  BY DEF C!Heartbeat, C!Quit, C!Goto, C!ReadTempo, C!EnterSelect, C!Tick, C!EmitStep,
         C!EmitBeat, C!Update, C!HeartPC
<1>3. /\ step' \in [C!Heart -> 0..15] /\ \A g \in C!Heart \ {h} : step'[g] = step[g]
      /\ tempo' \in [C!Heart -> Bpm \cup {0}] /\ watch' \in [C!Heart -> 0..MaxStart]
  BY <1>1, BarIsARing DEF C!Heartbeat, C!Quit, C!ReadTempo, C!EnterSelect, C!Tick, C!EmitStep,
         C!EmitBeat, C!Update, ClockInv, C!ClockTypeOK, C!clockVars
<1>4. ticks' \in 0..TickCap /\ sinceBeat' \in 0..5
  BY DEF C!Heartbeat, C!Quit, C!ReadTempo, C!EnterSelect, C!Tick, C!EmitStep,
         C!EmitBeat, C!Update, ClockInv, C!ClockTypeOK
<1>5. panicked' \in BOOLEAN /\ TempoInv'
  <2>1. /\ bpm \in Int /\ heart'[h] \notin {"none", "spawned"}
        /\ heart \in [C!Heart -> C!HeartPC] /\ tempo \in [C!Heart -> Bpm \cup {0}]
        /\ \A g \in C!Heart : C!Begun(g) => tempo[g] >= 0
        /\ \A g \in C!Heart \ {h} : heart'[g] = heart[g]
    <3>1. heart'[h] \notin {"none", "spawned"}
      BY DEF C!Heartbeat, C!Quit, C!Goto, C!ReadTempo, C!EnterSelect, C!Tick, C!EmitStep,
             C!EmitBeat, C!Update, ClockInv, C!ClockTypeOK
    <3>2. /\ heart \in [C!Heart -> C!HeartPC] /\ tempo \in [C!Heart -> Bpm \cup {0}]
          /\ bpm \in Int
      BY DEF ClockInv, C!ClockTypeOK, BarAndTempo
    <3>3. \A g \in C!Heart : C!Begun(g) => tempo[g] >= 0
      BY DEF ClockInv, TempoInv
    <3>4. \A g \in C!Heart \ {h} : heart'[g] = heart[g]
      BY <1>2, <3>2
    <3> QED
      BY <3>1, <3>2, <3>3, <3>4
  <2>2. CASE UNCHANGED <<tempo, panicked>> /\ heart[h] # "spawned"
    <3>1. \A g \in C!Heart : C!Begun(g)' => C!Begun(g)
      BY <1>1, <2>1, <2>2 DEF C!Begun
    <3> QED
      BY <2>1, <2>2, <3>1 DEF TempoInv
  <2>3. CASE /\ tempo' = [tempo EXCEPT ![h] = bpm]
             /\ \/ panicked' = TRUE /\ bpm <= 0
                \/ panicked' = FALSE /\ bpm >= 0
    <3>1. tempo'[h] = bpm /\ \A g \in C!Heart \ {h} : tempo'[g] = tempo[g]
      BY <2>1, <2>3
    <3>2. C!Begun(h)'
      BY <2>1 DEF C!Begun
    <3>3. \A g \in C!Heart \ {h} : C!Begun(g)' => tempo'[g] >= 0
      BY <2>1, <3>1 DEF C!Begun
    <3> QED
      BY <2>1, <2>3, <3>1, <3>2, <3>3 DEF TempoInv
  <2>4. CASE C!ReadTempo(h)
    BY <2>3, <2>4 DEF C!ReadTempo, C!SetTicker
  <2>5. CASE C!Update(h)
    <3>1. tempo' = [tempo EXCEPT ![h] = bpm] /\ C!Begun(h)
      BY <2>5 DEF C!Update, C!Goto, C!Begun
    <3>2. CASE panicked' = FALSE /\ bpm = tempo[h]
      BY <2>1, <2>3, <3>1, <3>2
    <3>3. CASE C!SetTicker(bpm)
      BY <2>3, <3>1, <3>3 DEF C!SetTicker
    <3> QED
      BY <2>5, <3>2, <3>3 DEF C!Update
  <2>6. CASE C!EnterSelect(h) \/ C!Tick(h) \/ C!EmitStep(h) \/ C!EmitBeat(h) \/ C!Quit(h)
    BY <2>2, <2>6 DEF C!EnterSelect, C!Tick, C!EmitStep, C!EmitBeat, C!Quit, C!Goto
  <2> QED
    BY <2>4, <2>5, <2>6 DEF C!Heartbeat
<1>6. C!ClockTypeOK'
  <2>1. heart' \in [C!Heart -> C!HeartPC]
    BY <1>2 DEF ClockInv, C!ClockTypeOK
  <2>2. bpm' \in Bpm /\ isRunning' \in BOOLEAN /\ gen' \in 0..MaxStart
    BY <1>1 DEF ClockInv, C!ClockTypeOK
  <2> QED
    BY <1>3, <1>4, <1>5, <2>1, <2>2 DEF C!ClockTypeOK, C!Heart, C!HeartPC
<1>7. \A g \in C!Heart : /\ g > gen' => heart'[g] = "none"
                         /\ heart'[g] = "none" => step'[g] = 0
  <2>. SUFFICES ASSUME NEW g \in C!Heart
                PROVE  /\ g > gen => heart'[g] = "none"
                       /\ heart'[g] = "none" => step'[g] = 0
    BY <1>1
  <2>1. heart'[h] # "none"
    BY <1>2 DEF ClockInv, C!ClockTypeOK
  <2>2. g # h => heart'[g] = heart[g]
    BY <1>2 DEF ClockInv, C!ClockTypeOK
  <2> QED
    BY <1>1, <1>3, <2>1, <2>2 DEF ClockInv, C!Heart
<1>8. ASSUME gen = 1
      PROVE  BeatIsDue'
  <2>1. h = 1 /\ BeatIsDue /\ step[1] \in 0..15 /\ 1 \in C!Heart /\ heart[1] \in C!HeartPC
    BY <1>1, <1>8 DEF ClockInv, C!ClockTypeOK, C!Heart
  <2>. USE DEF BeatIsDue, C!Goto, C!HeartPC
  <2>2. heart \in [C!Heart -> C!HeartPC] /\ step \in [C!Heart -> 0..15] /\ sinceBeat \in 0..5
    BY DEF ClockInv, C!ClockTypeOK
  <2>3. CASE C!ReadTempo(h) \/ C!EnterSelect(h) \/ C!Tick(h) \/ C!Quit(h)
    BY <2>1, <2>2, <2>3 DEF C!ReadTempo, C!EnterSelect, C!Tick, C!Quit
  <2>4. CASE C!EmitStep(h)
    <3>1. heart[1] = "step" /\ sinceBeat = (step[1] + 3) % 4 /\ step' = step
      BY <2>1, <2>4 DEF C!EmitStep
    <3>2. sinceBeat' = sinceBeat + 1
      BY <2>1, <2>4, <3>1, BarIsARing DEF C!EmitStep
    <3>3. heart'[1] = IF step[1] % 4 = 0 THEN "beat" ELSE "update"
      BY <2>1, <2>2, <2>4 DEF C!EmitStep
    <3> QED
      BY <2>1, <3>1, <3>2, <3>3, BarIsARing
  <2>5. CASE C!EmitBeat(h)
    BY <2>1, <2>2, <2>5 DEF C!EmitBeat
  <2>6. CASE C!Update(h)
    <3>1. heart'[1] = "enter" /\ sinceBeat' = step[1] % 4 /\ step'[1] = (step[1] + 1) % 16
      BY <2>1, <2>2, <2>6 DEF C!Update
    <3> QED
      BY <2>1, <3>1, BarIsARing
  <2> QED
    BY <2>3, <2>4, <2>5, <2>6 DEF C!Heartbeat
<1> QED
  BY <1>1, <1>5, <1>6, <1>7, <1>8 DEF ClockInv

\* No goroutine closes a channel twice, a ticker panics only over a tempo of zero or
\* below, and as long as the clock has been started once a beat comes after four
\* steps, also across the end of a bar (master_clock.go): for any tempi, any
\* capacity of the channel and any number of Starts.
THEOREM ClockIsExact ==
  ASSUME MaxStart \in Nat, TickCap \in Nat, StepsPerBar = 16, StepsPerBeat = 4,
         Bpm \subseteq Int
  PROVE  C!Spec => []ClockIsSound
<1>1. C!Init => ClockInv
  BY ClockInit DEF BarAndTempo
<1>2. ClockInv /\ [C!Next]_(C!vars) => ClockInv'
  <2>. SUFFICES ASSUME ClockInv, [C!Next]_(C!vars)
                PROVE  ClockInv'
    OBVIOUS
  <2>1. CASE UNCHANGED C!vars
    <3>1. TempoInv'
      BY <2>1 DEF C!vars, C!clockVars, C!heartVars, ClockInv, TempoInv, C!Begun
    <3> QED
      BY <2>1, <3>1 DEF C!vars, C!clockVars, C!heartVars, ClockInv, C!ClockTypeOK, C!Heart,
                        BeatIsDue
  <2>2. CASE C!Next
    <3>1. panicked = FALSE
      BY <2>2 DEF C!Next, ClockInv, C!ClockTypeOK
    <3> QED
      BY <2>2, <3>1, MethodsKeep, HeartbeatKeeps DEF C!Next, BarAndTempo
  <2> QED
    BY <2>1, <2>2
<1>3. ClockInv => ClockIsSound
  <2>. SUFFICES ASSUME ClockInv
                PROVE  ClockIsSound
    OBVIOUS
  <2>1. ASSUME gen = 1, NEW h \in C!Heart, heart[h] = "beat"
        PROVE  sinceBeat = StepsPerBeat
    <3>1. h = 1
      BY <2>1 DEF ClockInv, C!Heart, C!ClockTypeOK
    <3> QED
      BY <2>1, <3>1 DEF ClockInv, BeatIsDue
  <2>2. /\ panicked => \E h \in C!Heart : C!Begun(h) /\ tempo[h] <= 0
        /\ ~panicked => \A h \in C!Heart : C!Begun(h) => tempo[h] >= 0
    BY DEF ClockInv, TempoInv, C!ClockTypeOK
  <2> QED
    BY <2>1, <2>2 DEF ClockInv, ClockIsSound, C!ClockIsSound
<1> QED
  BY <1>1, <1>2, <1>3, PTL DEF C!Spec

-----------------------------------------------------------------------------
\* The undo stack.

\* There is a least upper bound of S, and it is in S.
LEMMA MaxIsThere ==
  ASSUME NEW n \in Nat, NEW X, X \subseteq 1..n, X # {}
  PROVE  U!Max(X) \in X
<1>. DEFINE Bounds == {m \in Nat : \A x \in X : x <= m}
<1>1. n \in Bounds
  OBVIOUS
<1>2. PICK m \in Bounds : \A k \in Bounds : ~(<<k, m>> \in OpToRel(<, Nat))
  BY <1>1, NatLessThanWellFounded, WFMin
<1>3. \A k \in Bounds : ~(k < m)
  BY <1>2 DEF OpToRel
<1>4. m \in X
  <2>. SUFFICES ASSUME m \notin X
                PROVE  FALSE
    OBVIOUS
  <2>1. PICK x : x \in X
    OBVIOUS
  <2>2. m \in Nat /\ \A y \in X : y \in Int /\ y < m
    OBVIOUS
  <2>3. m - 1 \in Nat
    BY <2>1, <2>2
  <2>4. m - 1 \in Bounds
    BY <2>2, <2>3
  <2> QED
    BY <1>3, <2>2, <2>4
<1>5. \A x \in X : m >= x
  OBVIOUS
<1> QED
  BY <1>4, <1>5 DEF U!Max

\* An action is in the ledger, under its Undo, or in the redo pool; the ledger
\* is in the order of the pushes, and reverted tells which have been undone.
Ledger == Seq([id : 1..pushed, user : Caller])
Redoing(i) == at # 0 /\ actions[at].id = i
Redone(i) == \E j \in DOMAIN redoPool : redoPool[j].id = i

UndoInv ==
  /\ pushed \in 0..MaxActions
  /\ actions \in Ledger /\ redoPool \in Ledger
  /\ at \in 0..Len(actions) /\ mu \in Caller \cup {U!Free} /\ (mu = U!Free => at = 0)
  /\ \A i, j \in DOMAIN actions : i < j => actions[i].id < actions[j].id
  /\ \A i, j \in DOMAIN redoPool : redoPool[i].id = redoPool[j].id => i = j
  /\ \A i \in DOMAIN actions : ~Redone(actions[i].id)
  /\ reverted \in [1..MaxActions -> Nat]
  /\ \A i \in 1..MaxActions : reverted[i] = IF Redoing(i) \/ Redone(i) THEN 1 ELSE 0

LEMMA UndoInit ==
  ASSUME MaxActions \in Nat, U!Init
  PROVE  UndoInv
BY DEF U!Init, UndoInv, Ledger, Redoing, Redone

LEMMA ElementsAre ==
  ASSUME NEW X, NEW s \in Seq(X)
  PROVE  /\ Len(s) \in Nat /\ DOMAIN s = 1..Len(s)
         /\ \A i \in 1..Len(s) : s[i] \in X
OBVIOUS

LEMMA AppendIs ==
  ASSUME NEW X, NEW s \in Seq(X), NEW e \in X
  PROVE  /\ Append(s, e) \in Seq(X) /\ DOMAIN Append(s, e) = 1..Len(s) + 1 /\ Len(s) \in Nat
         /\ \A i \in 1..Len(s) : Append(s, e)[i] = s[i]
         /\ Append(s, e)[Len(s) + 1] = e
OBVIOUS

LEMMA TailIs ==
  ASSUME NEW X, NEW s \in Seq(X), s # <<>>
  PROVE  /\ Tail(s) \in Seq(X) /\ DOMAIN Tail(s) = 1..Len(s) - 1 /\ Len(s) \in Nat
         /\ \A i \in 1..Len(s) - 1 : Tail(s)[i] = s[i + 1]
OBVIOUS

\* a and b are s without the entry after the first p, and c is the two together.
Halves(a, b, s, p, q) ==
  /\ Len(a) = p /\ \A i \in 1..p : a[i] = s[i]
  /\ Len(b) = q /\ \A i \in 1..q : b[i] = s[p + 1 + i]

Joined(c, s, p, q) ==
  /\ DOMAIN c = 1..p + q
  /\ \A i \in 1..p + q : c[i] = IF i <= p THEN s[i] ELSE s[i + 1]

LEMMA HalvesAreJoined ==
  ASSUME NEW X, NEW a \in Seq(X), NEW b \in Seq(X), NEW p \in Nat, NEW q \in Nat, NEW s,
         Halves(a, b, s, p, q)
  PROVE  a \o b \in Seq(X) /\ Joined(a \o b, s, p, q)
<1>1. Len(a) = p /\ Len(b) = q
  BY DEF Halves
<1>2. a \o b \in Seq(X) /\ Len(a \o b) = p + q
  BY <1>1
<1>3. \A i \in 1..p + q : (a \o b)[i] = IF i <= p THEN a[i] ELSE b[i - p]
  BY <1>1
<1>4. DOMAIN (a \o b) = 1..p + q
  BY <1>2
<1>5. ASSUME NEW i \in 1..p + q
      PROVE  (a \o b)[i] = IF i <= p THEN s[i] ELSE s[i + 1]
  <2>1. CASE i <= p
    <3>1. i \in 1..p
      BY <2>1
    <3> QED
      BY <1>3, <2>1, <3>1 DEF Halves
  <2>2. CASE ~(i <= p)
    <3>1. i - p \in 1..q /\ p + 1 + (i - p) = i + 1
      BY <2>2
    <3>2. b[i - p] = s[p + 1 + (i - p)]
      BY <3>1 DEF Halves
    <3>3. b[i - p] = s[i + 1]
      BY <3>1, <3>2
    <3> QED
      BY <1>3, <2>2, <3>3
  <2> QED
    BY <2>1, <2>2
<1> QED
  BY <1>2, <1>4, <1>5, Zenon DEF Joined

LEMMA RemoveAtIs ==
  ASSUME NEW X, NEW s \in Seq(X), NEW k \in 1..Len(s)
  PROVE  /\ U!RemoveAt(s, k) \in Seq(X)
         /\ DOMAIN U!RemoveAt(s, k) = 1..Len(s) - 1 /\ Len(s) \in Nat
         /\ \A i \in 1..Len(s) - 1 : U!RemoveAt(s, k)[i] = IF i < k THEN s[i] ELSE s[i + 1]
<1>1. /\ Len(s) \in Nat /\ k - 1 \in Nat /\ k + 1 \in Nat /\ Len(s) - k \in Nat
      /\ \A i \in 1..Len(s) : s[i] \in X
  BY ElementsAre
<1>2. /\ SubSeq(s, 1, k - 1) \in Seq(X) /\ Len(SubSeq(s, 1, k - 1)) = k - 1
      /\ \A i \in 1..k - 1 : SubSeq(s, 1, k - 1)[i] = s[i]
  BY <1>1
<1>3. /\ SubSeq(s, k + 1, Len(s)) \in Seq(X) /\ Len(SubSeq(s, k + 1, Len(s))) = Len(s) - k
      /\ \A i \in 1..Len(s) - k : SubSeq(s, k + 1, Len(s))[i] = s[k + i]
  BY <1>1
<1>4. PICK a : a \in Seq(X) /\ a = SubSeq(s, 1, k - 1)
  BY <1>2
<1>5. PICK b : b \in Seq(X) /\ b = SubSeq(s, k + 1, Len(s))
  BY <1>3
<1>6. PICK p : p \in Nat /\ p = k - 1 /\ p + 1 = k
  BY <1>1
<1>7. PICK q : q \in Nat /\ q = Len(s) - k /\ p + q = Len(s) - 1
  BY <1>1, <1>6
<1>8. a \in Seq(X) /\ b \in Seq(X) /\ p \in Nat /\ q \in Nat
  BY <1>4, <1>5, <1>6, <1>7
<1>9. Halves(a, b, s, p, q)
  BY <1>2, <1>3, <1>4, <1>5, <1>6, <1>7 DEF Halves
<1>10. a \o b \in Seq(X) /\ Joined(a \o b, s, p, q)
  BY <1>8, <1>9, HalvesAreJoined
<1>11. \A i \in 1..Len(s) - 1 : (i <= p) <=> (i < k)
  BY <1>1, <1>6
<1>12. U!RemoveAt(s, k) = a \o b
  BY <1>4, <1>5 DEF U!RemoveAt
<1> QED
  BY <1>1, <1>7, <1>10, <1>11, <1>12, Zenon DEF Joined

\* A ledger that goes on with a new number is in order, and so is what is left
\* of one.
InOrder(s) == \A i, j \in DOMAIN s : i < j => s[i].id < s[j].id

LEMMA LedgerGrows ==
  ASSUME NEW n \in Nat, NEW s \in Seq([id : 1..n, user : Caller]), InOrder(s), NEW u \in Caller
  PROVE  LET e == [id |-> n + 1, user |-> u]
         IN  /\ Append(s, e) \in Seq([id : 1..n + 1, user : Caller]) /\ InOrder(Append(s, e))
             /\ Append(s, e) # <<>>
             /\ \A i \in DOMAIN Append(s, e) :
                  Append(s, e)[i].id = n + 1 \/ \E j \in DOMAIN s : Append(s, e)[i] = s[j]
<1>. DEFINE e == [id |-> n + 1, user |-> u]
<1>1. s \in Seq([id : 1..n + 1, user : Caller]) /\ e \in [id : 1..n + 1, user : Caller]
  <2>1. [id : 1..n, user : Caller] \subseteq [id : 1..n + 1, user : Caller]
    OBVIOUS
  <2>2. s \in Seq([id : 1..n + 1, user : Caller])
    BY <2>1, SeqMonotonic
  <2> QED
    BY <2>2
<1>2. /\ Append(s, e) \in Seq([id : 1..n + 1, user : Caller])
      /\ DOMAIN Append(s, e) = 1..Len(s) + 1 /\ Len(s) \in Nat
      /\ \A i \in 1..Len(s) : Append(s, e)[i] = s[i]
      /\ Append(s, e)[Len(s) + 1].id = n + 1
  BY <1>1, AppendIs
<1>. HIDE DEF e
<1>3. DOMAIN s = 1..Len(s) /\ \A i \in 1..Len(s) : s[i].id \in 1..n
  <2>1. DOMAIN s = 1..Len(s) /\ \A i \in 1..Len(s) : s[i] \in [id : 1..n, user : Caller]
    BY ElementsAre
  <2> QED
    BY <2>1
<1>4. InOrder(Append(s, e))
  <2>. SUFFICES ASSUME NEW i \in 1..Len(s) + 1, NEW j \in 1..Len(s) + 1, i < j
                PROVE  Append(s, e)[i].id < Append(s, e)[j].id
    BY <1>2 DEF InOrder
  <2>1. i \in 1..Len(s) /\ s[i].id \in 1..n
    BY <1>2, <1>3
  <2>2. CASE j = Len(s) + 1
    BY <1>2, <2>1, <2>2
  <2>3. CASE j # Len(s) + 1
    <3>1. j \in 1..Len(s)
      BY <1>2, <2>3
    <3> QED
      BY <1>2, <1>3, <2>1, <3>1 DEF InOrder
  <2> QED
    BY <2>2, <2>3
<1>5. \A i \in DOMAIN Append(s, e) :
        Append(s, e)[i].id = n + 1 \/ \E j \in DOMAIN s : Append(s, e)[i] = s[j]
  <2>. SUFFICES ASSUME NEW i \in 1..Len(s) + 1
                PROVE  Append(s, e)[i].id = n + 1 \/ \E j \in DOMAIN s : Append(s, e)[i] = s[j]
    BY <1>2
  <2>1. i \in 1..Len(s) \/ i = Len(s) + 1
    BY <1>2
  <2> QED
    BY <1>2, <1>3, <2>1
<1>6. Append(s, e) # <<>>
  BY <1>2
<1> QED
  BY <1>2, <1>4, <1>5, <1>6 DEF e

LEMMA LedgerShrinks ==
  ASSUME NEW X, NEW s \in Seq(X), s # <<>>, InOrder(s)
  PROVE  /\ Tail(s) \in Seq(X) /\ InOrder(Tail(s))
         /\ \A i \in DOMAIN Tail(s) : \E j \in DOMAIN s : Tail(s)[i] = s[j]
<1>1. /\ Tail(s) \in Seq(X) /\ DOMAIN Tail(s) = 1..Len(s) - 1 /\ Len(s) \in Nat
      /\ \A i \in 1..Len(s) - 1 : Tail(s)[i] = s[i + 1]
      /\ \A i \in 1..Len(s) - 1 : i + 1 \in DOMAIN s
  BY TailIs
<1>2. InOrder(Tail(s))
  BY <1>1 DEF InOrder
<1> QED
  BY <1>1, <1>2

LEMMA PushKeeps ==
  ASSUME MaxActions \in Nat, UndoInv, NEW u \in Caller, U!Push(u)
  PROVE  UndoInv'
<1>. DEFINE s == Append(actions, [id |-> pushed + 1, user |-> u])
<1>1. /\ pushed' = pushed + 1 /\ pushed' \in 0..MaxActions /\ pushed' \in Nat /\ pushed \in Nat
      /\ at = 0 /\ UNCHANGED <<redoPool, mu, at, reverted>> /\ actions' = U!Trimmed(s)
  BY DEF UndoInv, U!Push
<1>2. /\ actions \in Seq([id : 1..pushed, user : Caller]) /\ InOrder(actions)
      /\ redoPool \in Seq([id : 1..pushed, user : Caller])
  BY DEF UndoInv, Ledger, InOrder
<1>3. /\ s \in Seq([id : 1..pushed + 1, user : Caller]) /\ InOrder(s) /\ s # <<>>
      /\ \A i \in DOMAIN s : s[i].id = pushed + 1 \/ \E j \in DOMAIN actions : s[i] = actions[j]
  BY <1>1, <1>2, LedgerGrows
<1>. HIDE DEF s
<1>4. /\ actions' \in Seq([id : 1..pushed + 1, user : Caller]) /\ InOrder(actions')
      /\ \A i \in DOMAIN actions' : \E j \in DOMAIN s : actions'[i] = s[j]
  <2>1. CASE actions' = s
    BY <1>3, <2>1
  <2>2. CASE actions' = Tail(s)
    BY <1>3, <2>2, LedgerShrinks
  <2> QED
    BY <1>1, <2>1, <2>2 DEF U!Trimmed
<1>5. \A i : (Redone(i)' <=> Redone(i)) /\ (Redoing(i)' <=> Redoing(i))
  BY <1>1 DEF Redone, Redoing
<1>6. ~Redone(pushed + 1)
  <2>1. \A j \in DOMAIN redoPool : redoPool[j] \in [id : 1..pushed, user : Caller]
    BY <1>2, ElementsAre
  <2>2. \A j \in DOMAIN redoPool : redoPool[j].id # pushed + 1
    BY <1>1, <2>1
  <2> QED
    BY <2>2 DEF Redone
<1>7. ASSUME NEW i \in DOMAIN actions'
      PROVE  ~Redone(actions[i].id)'
  <2>1. PICK j \in DOMAIN s : actions'[i] = s[j]
    BY <1>4
  <2>2. \A k \in DOMAIN actions : ~Redone(actions[k].id)
    BY DEF UndoInv
  <2>3. ~Redone(s[j].id)
    BY <1>3, <1>6, <2>2
  <2> QED
    BY <1>1, <2>1, <2>3 DEF Redone
<1>8. redoPool' \in Seq([id : 1..pushed + 1, user : Caller])
  <2>1. [id : 1..pushed, user : Caller] \subseteq [id : 1..pushed + 1, user : Caller]
    BY <1>1
  <2> QED
    BY <1>1, <1>2, <2>1, SeqMonotonic
<1>9. at' \in 0..Len(actions')
  BY <1>1, <1>4
<1>10. /\ mu' \in Caller \cup {U!Free} /\ (mu' = U!Free => at' = 0)
       /\ \A i, j \in DOMAIN redoPool' : redoPool'[i].id = redoPool'[j].id => i = j
       /\ reverted' \in [1..MaxActions -> Nat]
       /\ \A i \in 1..MaxActions : reverted'[i] = IF Redoing(i) \/ Redone(i) THEN 1 ELSE 0
  BY <1>1 DEF UndoInv
<1> QED
  BY <1>1, <1>4, <1>5, <1>7, <1>8, <1>9, <1>10 DEF UndoInv, Ledger, InOrder

LEMMA UndoKeeps ==
  ASSUME MaxActions \in Nat, U!Free \notin Caller, UndoInv, NEW u \in Caller, U!Undo(u)
  PROVE  UndoInv'
<1>1. PICK m \in DOMAIN actions :
        /\ at = 0 /\ at' = m /\ UNCHANGED <<actions, redoPool, pushed>>
        /\ mu' \in Caller \cup {U!Free} /\ mu' # U!Free
        /\ reverted' = [reverted EXCEPT ![actions[m].id] = @ + 1]
  <2>1. U!Own(u) \subseteq 1..Len(actions) /\ U!Own(u) # {} /\ Len(actions) \in Nat
    BY DEF U!Own, Ledger, UndoInv, U!Undo
  <2>2. U!Max(U!Own(u)) \in U!Own(u)
    BY <2>1, MaxIsThere
  <2>3. U!Max(U!Own(u)) \in DOMAIN actions
    BY <2>2 DEF U!Own
  <2> QED
    BY <2>3 DEF UndoInv, U!Undo
<1>2. actions \in Seq([id : 1..pushed, user : Caller]) /\ pushed \in 0..MaxActions
  BY DEF UndoInv, Ledger
<1>3. m \in 1..Len(actions) /\ m # 0 /\ actions[m].id \in 1..MaxActions
  <2>1. m \in 1..Len(actions) /\ actions[m] \in [id : 1..pushed, user : Caller]
    BY <1>2, ElementsAre
  <2> QED
    BY <1>2, <2>1
<1>4. \A i : (Redone(i)' <=> Redone(i)) /\ ~Redoing(i) /\ (Redoing(i)' <=> actions[m].id = i)
  BY <1>1, <1>3 DEF Redone, Redoing
<1>5. ~Redone(actions[m].id)
  BY DEF UndoInv
<1>6. /\ reverted' \in [1..MaxActions -> Nat]
      /\ \A i \in 1..MaxActions : reverted'[i] = IF Redoing(i)' \/ Redone(i)' THEN 1 ELSE 0
  <2>1. /\ reverted \in [1..MaxActions -> Nat]
        /\ \A i \in 1..MaxActions : reverted[i] = IF Redone(i) THEN 1 ELSE 0
    BY <1>4 DEF UndoInv
  <2> QED
    BY <1>1, <1>3, <1>4, <1>5, <2>1
<1>7. ASSUME NEW i \in DOMAIN actions'
      PROVE  ~Redone(actions[i].id)'
  <2>1. ~Redone(actions[i].id)
    BY <1>1 DEF UndoInv
  <2> QED
    BY <1>1, <2>1 DEF Redone
<1>8. at' \in 0..Len(actions')
  BY <1>1, <1>2, <1>3
<1>9. /\ actions' \in Ledger' /\ redoPool' \in Ledger' /\ pushed' \in 0..MaxActions
      /\ \A i, j \in DOMAIN actions' : i < j => actions'[i].id < actions'[j].id
      /\ \A i, j \in DOMAIN redoPool' : redoPool'[i].id = redoPool'[j].id => i = j
  BY <1>1 DEF Ledger, UndoInv
<1> QED
  BY <1>1, <1>6, <1>7, <1>8, <1>9 DEF UndoInv

LEMMA UndoneKeeps ==
  ASSUME MaxActions \in Nat, UndoInv, U!Undone
  PROVE  UndoInv'
<1>. DEFINE X == [id : 1..pushed, user : Caller]
<1>1. /\ actions \in Seq(X) /\ redoPool \in Seq(X) /\ pushed \in 0..MaxActions
      /\ at \in 0..Len(actions) /\ at # 0
      /\ redoPool' = Append(redoPool, actions[at]) /\ actions' = U!RemoveAt(actions, at)
      /\ mu' = U!Free /\ at' = 0 /\ UNCHANGED <<pushed, reverted>>
      /\ \A i, j \in DOMAIN actions : i < j => actions[i].id < actions[j].id
      /\ \A i, j \in DOMAIN redoPool : redoPool[i].id = redoPool[j].id => i = j
      /\ \A i \in DOMAIN actions : ~Redone(actions[i].id)
  BY DEF UndoInv, Ledger, U!Undone
<1>. HIDE DEF X
<1>2. PICK m \in 1..Len(actions) : m = at
  <2>1. Len(actions) \in Nat
    BY <1>1, ElementsAre
  <2> QED
    BY <1>1, <2>1
<1>3. PICK undone \in X : undone = actions[m]
  BY <1>1, ElementsAre
<1>4. PICK n \in Nat : n = Len(actions) /\ DOMAIN actions = 1..n /\ m \in 1..n
  BY <1>1, ElementsAre
<1>5. PICK k \in Nat : k = Len(redoPool) /\ DOMAIN redoPool = 1..k
  BY <1>1, ElementsAre
<1>6. /\ redoPool' \in Seq(X) /\ DOMAIN redoPool' = 1..k + 1
      /\ \A j \in 1..k : redoPool'[j] = redoPool[j]
      /\ redoPool'[k + 1] = undone
  BY <1>1, <1>2, <1>3, <1>5, AppendIs
<1>7. /\ actions' \in Seq(X) /\ DOMAIN actions' = 1..n - 1
      /\ \A i \in 1..n - 1 : actions'[i] = IF i < m THEN actions[i] ELSE actions[i + 1]
  BY <1>1, <1>2, <1>4, RemoveAtIs
<1>8. \A i \in 1..n : actions[i] \in X /\ actions[i].id \in Nat
  <2>1. \A i \in 1..n : actions[i] \in X
    BY <1>1, <1>4, ElementsAre
  <2>2. \A x \in X : x.id \in Nat
    BY <1>1 DEF X
  <2> QED
    BY <2>1, <2>2
<1>9. \A i : Redone(i)' <=> Redone(i) \/ undone.id = i
  BY <1>5, <1>6 DEF Redone
<1>10. \A i : ~Redoing(i)' /\ (Redoing(i) <=> undone.id = i)
  BY <1>1, <1>2, <1>3 DEF Redoing
<1>11. ~Redone(undone.id)
  BY <1>1, <1>3, <1>4
<1>12. \A i, j \in DOMAIN actions' : i < j => actions'[i].id < actions'[j].id
  <2>. SUFFICES ASSUME NEW i \in 1..n - 1, NEW j \in 1..n - 1, i < j
                PROVE  actions'[i].id < actions'[j].id
    BY <1>7
  <2>. DEFINE p == IF i < m THEN i ELSE i + 1
              q == IF j < m THEN j ELSE j + 1
  <2>1. p \in 1..n /\ q \in 1..n /\ p < q
    BY <1>4
  <2>2. actions'[i] = actions[p] /\ actions'[j] = actions[q]
    BY <1>7
  <2> HIDE DEF p, q
  <2> QED
    BY <1>1, <1>4, <2>1, <2>2
<1>13. ASSUME NEW i \in DOMAIN actions'
       PROVE  ~Redone(actions[i].id)'
  <2>. DEFINE p == IF i < m THEN i ELSE i + 1
  <2>1. i \in 1..n - 1 /\ p \in 1..n /\ (p < m \/ m < p)
    BY <1>4, <1>7
  <2>2. actions'[i] = actions[p]
    BY <1>7, <2>1
  <2> HIDE DEF p
  <2>3. actions[p].id # undone.id
    <3>1. actions[p].id \in Nat /\ actions[m].id \in Nat
      BY <1>4, <1>8, <2>1
    <3>2. actions[p].id < actions[m].id \/ actions[m].id < actions[p].id
      BY <1>1, <1>4, <2>1
    <3> QED
      BY <1>3, <3>1, <3>2
  <2>4. ~Redone(actions[p].id)
    BY <1>1, <1>4, <2>1
  <2> QED
    BY <1>9, <2>2, <2>3, <2>4 DEF Redone
<1>14. \A i, j \in DOMAIN redoPool' : redoPool'[i].id = redoPool'[j].id => i = j
  <2>. SUFFICES ASSUME NEW i \in 1..k + 1, NEW j \in 1..k + 1, redoPool'[i].id = redoPool'[j].id
                PROVE  i = j
    BY <1>6
  <2>1. \A l \in 1..k : redoPool'[l].id = redoPool[l].id /\ redoPool'[l].id # undone.id
    BY <1>5, <1>6, <1>11 DEF Redone
  <2>2. \A l \in 1..k + 1 : l \in 1..k \/ l = k + 1
    OBVIOUS
  <2> QED
    BY <1>1, <1>5, <1>6, <2>1, <2>2
<1>15. /\ reverted' \in [1..MaxActions -> Nat]
       /\ \A i \in 1..MaxActions : reverted'[i] = IF Redoing(i)' \/ Redone(i)' THEN 1 ELSE 0
  <2>1. /\ reverted \in [1..MaxActions -> Nat]
        /\ \A i \in 1..MaxActions : reverted[i] = IF Redoing(i) \/ Redone(i) THEN 1 ELSE 0
    BY DEF UndoInv
  <2> QED
    BY <1>1, <1>9, <1>10, <2>1
<1>16. /\ actions' \in Ledger' /\ redoPool' \in Ledger'
       /\ pushed' \in 0..MaxActions /\ at' \in 0..Len(actions')
  <2>1. Len(actions') \in Nat
    BY <1>7, ElementsAre
  <2> QED
    BY <1>1, <1>6, <1>7, <2>1 DEF Ledger, X
<1> QED
  BY <1>1, <1>12, <1>13, <1>14, <1>15, <1>16 DEF UndoInv

LEMMA UndoStep ==
  ASSUME MaxActions \in Nat, U!Free \notin Caller, UndoInv, [U!Next]_(U!vars)
  PROVE  UndoInv'
<1>1. CASE UNCHANGED U!vars
  BY <1>1 DEF U!vars, UndoInv, Ledger, Redoing, Redone
<1>2. CASE U!Next
  BY <1>2, PushKeeps, UndoKeeps, UndoneKeeps DEF U!Next
<1> QED
  BY <1>1, <1>2

LEMMA SameCardinality ==
  ASSUME NEW T
  PROVE  U!Cardinality(T) = Cardinality(T)
BY DEF U!Cardinality, Cardinality

\* The Undo of an action runs once, and of exactly the actions that are in the
\* redo pool or move to it now, for any number of users and of pushes and
\* however short the history: Undo keeps the mutex while the action runs, so
\* that its index in the ledger stays the index of that action.
THEOREM UndoRunsOnce ==
  ASSUME MaxActions \in Nat, U!Free \notin Caller
  PROVE  U!Spec => []UndoneOnce
<1>1. U!Init => UndoInv
  BY UndoInit
<1>2. UndoInv /\ [U!Next]_(U!vars) => UndoInv'
  BY UndoStep
<1>3. UndoInv => UndoneOnce
  <2>. DEFINE redo(i) == Cardinality({j \in DOMAIN redoPool : redoPool[j].id = i})
              runs(i) == IF at # 0 /\ actions[at].id = i THEN 1 ELSE 0
  <2>. SUFFICES ASSUME UndoInv, NEW i \in 1..pushed
                PROVE  /\ reverted[i] = redo(i) + runs(i)
                       /\ reverted[i] <= 1
                       /\ redo(i) = 1 => \A j \in DOMAIN actions : actions[j].id # i
    BY SameCardinality, Zenon DEF UndoneOnce, UndoneOnce, U!UndoneOnce
  <2>. DEFINE found == {j \in DOMAIN redoPool : redoPool[j].id = i}
  <2>1. Cardinality(found) = IF Redone(i) THEN 1 ELSE 0
    <3>1. CASE Redone(i)
      <4>1. PICK j \in DOMAIN redoPool : redoPool[j].id = i
        BY <3>1 DEF Redone
      <4>2. found = {j}
        BY <4>1 DEF UndoInv
      <4> QED
        BY <3>1, <4>2, FS_Singleton
    <3>2. CASE ~Redone(i)
      <4>1. found = {}
        BY <3>2 DEF Redone
      <4> QED
        BY <3>2, <4>1, FS_EmptySet
    <3> QED
      BY <3>1, <3>2
  <2>. HIDE DEF found
  <2>2. /\ reverted[i] = IF Redoing(i) \/ Redone(i) THEN 1 ELSE 0
        /\ \A j \in DOMAIN actions : Redone(i) => actions[j].id # i
    BY DEF UndoInv
  <2>3. ~(Redoing(i) /\ Redone(i))
    BY DEF Redoing, UndoInv, Ledger
  <2> QED
    BY <2>1, <2>2, <2>3 DEF Redoing, found
<1> QED
  BY <1>1, <1>2, <1>3, PTL DEF U!Spec
-----------------------------------------------------------------------------
\* The value tree.  That a subscriber is told of every write, and in order,
\* follows from where the calls under way stand: each has written once, its
\* listeners that are left have not been told of it, and what was written
\* since it began counts as overlapped.

\* No element of q comes twice.
OneEach(q) == \A i, j \in DOMAIN q : q[i] = q[j] => i = j

\* q is increasing, but for elements of late.
Rising(q, late) ==
  \A a, b \in DOMAIN q : a < b => q[a] < q[b] \/ (q[a] > q[b] /\ q[a] \in late)

LEMMA ToSetOfAppend ==
  ASSUME NEW X, NEW q \in Seq(X), NEW e \in X
  PROVE  V!ToSet(Append(q, e)) = V!ToSet(q) \cup {e}
<1>1. V!ToSet(Append(q, e)) \subseteq V!ToSet(q) \cup {e}
  BY AppendIs DEF V!ToSet
<1>2. V!ToSet(q) \subseteq V!ToSet(Append(q, e))
  <2>. SUFFICES ASSUME NEW i \in DOMAIN q
                PROVE  q[i] \in V!ToSet(Append(q, e))
    BY DEF V!ToSet
  <2>. i \in 1..Len(q) /\ i \in DOMAIN Append(q, e) /\ Append(q, e)[i] = q[i]
    BY AppendIs, ElementsAre
  <2> QED
    BY Zenon DEF V!ToSet
<1>3. e \in V!ToSet(Append(q, e))
  <2>. Len(q) + 1 \in DOMAIN Append(q, e) /\ Append(q, e)[Len(q) + 1] = e
    BY AppendIs
  <2> QED
    BY Zenon DEF V!ToSet
<1> QED
  BY <1>1, <1>2, <1>3

LEMMA OneEachOfAppend ==
  ASSUME NEW X, NEW q \in Seq(X), NEW e \in X, OneEach(q), e \notin V!ToSet(q)
  PROVE  OneEach(Append(q, e))
BY AppendIs, ElementsAre DEF OneEach, V!ToSet

LEMMA ToSetOfTail ==
  ASSUME NEW X, NEW q \in Seq(X), q # <<>>
  PROVE  /\ Head(q) \in X /\ Tail(q) \in Seq(X)
         /\ V!ToSet(q) = V!ToSet(Tail(q)) \cup {Head(q)}
         /\ OneEach(q) => OneEach(Tail(q)) /\ Head(q) \notin V!ToSet(Tail(q))
<1>1. /\ Len(q) \in Nat /\ Len(q) > 0 /\ DOMAIN q = 1..Len(q)
      /\ Head(q) = q[1] /\ Head(q) \in X
  OBVIOUS
<1>2. /\ Tail(q) \in Seq(X) /\ DOMAIN Tail(q) = 1..Len(q) - 1
      /\ \A i \in 1..Len(q) - 1 : Tail(q)[i] = q[i + 1]
  BY TailIs
<1>3. V!ToSet(q) \subseteq V!ToSet(Tail(q)) \cup {Head(q)}
  <2>. SUFFICES ASSUME NEW i \in 1..Len(q), i # 1
                PROVE  q[i] \in V!ToSet(Tail(q))
    BY <1>1 DEF V!ToSet
  <2>. i - 1 \in DOMAIN Tail(q) /\ Tail(q)[i - 1] = q[i]
    BY <1>1, <1>2
  <2> QED
    BY Zenon DEF V!ToSet
<1>4. V!ToSet(Tail(q)) \cup {Head(q)} \subseteq V!ToSet(q)
  BY <1>1, <1>2 DEF V!ToSet
<1>5. ASSUME OneEach(q)
      PROVE  OneEach(Tail(q)) /\ Head(q) \notin V!ToSet(Tail(q))
  BY <1>1, <1>2, <1>5 DEF OneEach, V!ToSet
<1> QED
  BY <1>1, <1>2, <1>3, <1>4, <1>5

LEMMA RisingAppend ==
  ASSUME NEW q \in Seq(Nat), NEW n \in Nat, NEW late, Rising(q, late),
         n \notin V!ToSet(q), \A m \in V!ToSet(q) : m > n => m \in late
  PROVE  Rising(Append(q, n), late)
<1>. SUFFICES ASSUME NEW a \in DOMAIN Append(q, n), NEW b \in DOMAIN Append(q, n), a < b
              PROVE  LET r == Append(q, n)
                     IN r[a] < r[b] \/ (r[a] > r[b] /\ r[a] \in late)
  BY Zenon DEF Rising
<1>1. a \in 1..Len(q) /\ b \in 1..Len(q) + 1 /\ Len(q) \in Nat
  BY AppendIs
<1>2. a \in DOMAIN q /\ q[a] \in Nat /\ Append(q, n)[a] = q[a] /\ q[a] \in V!ToSet(q)
  BY <1>1, AppendIs, ElementsAre DEF V!ToSet
<1>3. CASE b \in 1..Len(q)
  BY <1>1, <1>2, <1>3, AppendIs, ElementsAre DEF Rising
<1>4. CASE b = Len(q) + 1
  <2>1. Append(q, n)[b] = n
    BY <1>4, AppendIs
  <2>2. q[a] # n /\ (q[a] > n => q[a] \in late)
    BY <1>2
  <2> QED
    BY <1>2, <2>1, <2>2
<1> QED
  BY <1>1, <1>3, <1>4

\* The calls: what c writes, and whether it is under way.
Under(c) == set[c].at # "out"

TreeTypeOK ==
  /\ writes \in Nat
  /\ subscribers \in Seq(Subscriber)
  /\ channel \in [Subscriber -> Seq(Nat)]
  /\ set \in [Caller -> [at : {"out", "stored", "send"}, write : Nat, key : Key \cup {0},
                         rest : Seq(Subscriber)]]
  /\ since \in [Subscriber -> Nat]
  /\ told \in [Subscriber -> Seq(Nat)]
  /\ dropped \in [Subscriber -> SUBSET Nat]

\* A call has a write of its own, and what came later is overlapped.
CallsAreApart ==
  /\ \A c \in Caller : Under(c) =>
       /\ set[c].write \in 1..writes
       /\ \A m \in set[c].write + 1..writes : m \in overlapped
  /\ \A c, d \in Caller : c # d /\ Under(c) /\ Under(d) => set[c].write # set[d].write

\* Who is left in the list of a call has not been told yet, and nobody has
\* before the list is made.
LeftAreUntold ==
  /\ OneEach(subscribers)
  /\ \A c \in Caller : set[c].at = "send" => OneEach(set[c].rest)
  /\ \A c \in Caller, s \in Subscriber :
       set[c].at = "stored" \/ (set[c].at = "send" /\ s \in V!ToSet(set[c].rest)) =>
         set[c].write \notin V!ToSet(told[s])

\* What the writes become, for a subscriber.
WasTold(s, n) == n \in V!ToSet(told[s]) \cup dropped[s]

EachIsTold ==
  \A s \in V!ToSet(subscribers) :
    /\ \A n \in since[s] + 1..writes : n \in V!UnderWay \/ WasTold(s, n)
    /\ \A c \in Caller :
         set[c].at = "send" /\ set[c].write > since[s] =>
           s \in V!ToSet(set[c].rest) \/ WasTold(s, set[c].write)

ToldInOrder ==
  \A s \in Subscriber : /\ V!ToSet(told[s]) \subseteq 1..writes
                        /\ Rising(told[s], overlapped)

TreeInv == TreeTypeOK /\ CallsAreApart /\ LeftAreUntold /\ EachIsTold /\ ToldInOrder

LEMMA TreeInit ==
  ASSUME V!Init
  PROVE  TreeInv
<1>. USE DEF V!Init, V!Out
<1>1. TreeTypeOK
  BY DEF TreeTypeOK
<1>2. CallsAreApart /\ LeftAreUntold
  BY DEF CallsAreApart, LeftAreUntold, Under, OneEach, V!ToSet
<1>3. EachIsTold /\ ToldInOrder
  BY DEF EachIsTold, ToldInOrder, V!ToSet, Rising
<1> QED
  BY <1>1, <1>2, <1>3 DEF TreeInv

LEMMA StoreKeeps ==
  ASSUME TreeInv, NEW c \in Caller, NEW k \in Key, V!Store(c, k)
  PROVE  TreeInv'
<1>. USE DEF TreeInv
<1>1. /\ writes \in Nat /\ writes' = writes + 1 /\ ~Under(c) /\ ~V!ReadLocked
      /\ \A d \in Caller \ {c} : set'[d] = set[d]
      /\ set'[c].at = "stored" /\ set'[c].write = writes + 1
      /\ UNCHANGED <<subscribers, channel, since, told, dropped>>
  BY DEF V!Store, TreeTypeOK, V!Out, Under
<1>2. TreeTypeOK'
  <2>1. set' \in [Caller -> [at : {"out", "stored", "send"}, write : Nat, key : Key \cup {0},
                             rest : Seq(Subscriber)]]
    <3>1. PICK r : r = [V!Out EXCEPT !.at = "stored", !.write = writes + 1, !.key = k]
      OBVIOUS
    <3>2. r = [at |-> "stored", write |-> writes + 1, key |-> k, rest |-> <<>>]
      BY <3>1 DEF V!Out
    <3>3. r \in [at : {"out", "stored", "send"}, write : Nat, key : Key \cup {0}, rest : Seq(Subscriber)]
      BY <1>1, <3>2
    <3>4. set' = [set EXCEPT ![c] = r]
      BY <3>1 DEF V!Store
    <3> QED
      BY <3>3, <3>4 DEF TreeTypeOK
  <2>2. writes' \in Nat
    BY <1>1
  <2>3. /\ subscribers' \in Seq(Subscriber) /\ channel' \in [Subscriber -> Seq(Nat)]
        /\ since' \in [Subscriber -> Nat] /\ told' \in [Subscriber -> Seq(Nat)]
        /\ dropped' \in [Subscriber -> SUBSET Nat]
    BY <1>1 DEF TreeTypeOK
  <2> QED
    BY <2>1, <2>2, <2>3, Zenon DEF TreeTypeOK
<1>3. \A d \in Caller : Under(d) => writes + 1 \in overlapped'
  BY DEF V!Store, V!UnderWay, Under
<1>4. overlapped \subseteq overlapped'
  BY DEF V!Store
<1>5. CallsAreApart'
  <2>1. ASSUME NEW d \in Caller, Under(d)'
        PROVE  /\ set'[d].write \in 1..writes + 1
               /\ \A m \in set'[d].write + 1..writes + 1 : m \in overlapped'
    <3>1. CASE d = c
      BY <1>1, <3>1
    <3>2. CASE d # c
      <4>1. Under(d) /\ set'[d] = set[d]
        BY <1>1, <2>1, <3>2 DEF Under
      <4>2. set[d].write \in 1..writes /\ \A m \in set[d].write + 1..writes : m \in overlapped
        BY <4>1 DEF CallsAreApart
      <4>3. writes + 1 \in overlapped'
        BY <1>3, <4>1
      <4> QED
        BY <1>1, <1>4, <4>1, <4>2, <4>3
    <3> QED
      BY <3>1, <3>2
  <2>2. ASSUME NEW d \in Caller, NEW e \in Caller, d # e, Under(d)', Under(e)'
        PROVE  set'[d].write # set'[e].write
    BY <1>1, <2>2 DEF CallsAreApart, Under
  <2> QED
    BY <1>1, <2>1, <2>2 DEF CallsAreApart
<1>6. LeftAreUntold'
  <2>1. \A s \in Subscriber : writes + 1 \notin V!ToSet(told[s])
    BY <1>1 DEF ToldInOrder
  <2> QED
    BY <1>1, <2>1 DEF LeftAreUntold
<1>7. EachIsTold'
  <2>. SUFFICES ASSUME NEW s \in V!ToSet(subscribers)
                PROVE  /\ \A n \in since[s] + 1..writes + 1 : n \in V!UnderWay' \/ WasTold(s, n)
                       /\ \A d \in Caller :
                            set'[d].at = "send" /\ set'[d].write > since[s] =>
                              s \in V!ToSet(set'[d].rest) \/ WasTold(s, set'[d].write)
    BY <1>1, Zenon DEF EachIsTold, WasTold
  <2>1. V!UnderWay' = V!UnderWay \cup {writes + 1}
    BY <1>1 DEF V!UnderWay, Under
  <2>2. since[s] \in Nat
    BY ElementsAre DEF V!ToSet, TreeTypeOK
  <2>3. ASSUME NEW n \in since[s] + 1..writes + 1
        PROVE  n \in V!UnderWay' \/ WasTold(s, n)
    <3>1. n \in since[s] + 1..writes \/ n = writes + 1
      BY <1>1, <2>2
    <3> QED
      BY <2>1, <3>1 DEF EachIsTold
  <2>4. ASSUME NEW d \in Caller, set'[d].at = "send"
        PROVE  FALSE
    BY <1>1, <2>4 DEF V!ReadLocked
  <2> QED
    BY <2>3, <2>4
<1>8. ToldInOrder'
  <2>. SUFFICES ASSUME NEW s \in Subscriber
                PROVE  V!ToSet(told[s]) \subseteq 1..writes + 1 /\ Rising(told[s], overlapped')
    BY <1>1, Zenon DEF ToldInOrder
  <2>1. V!ToSet(told[s]) \subseteq 1..writes /\ Rising(told[s], overlapped)
    BY DEF ToldInOrder
  <2>2. V!ToSet(told[s]) \subseteq 1..writes + 1
    BY <1>1, <2>1
  <2>3. Rising(told[s], overlapped')
    BY <1>4, <2>1, Zenon DEF Rising
  <2> QED
    BY <2>2, <2>3
<1> QED
  BY <1>2, <1>5, <1>6, <1>7, <1>8

LEMMA BroadcastKeeps ==
  ASSUME TreeInv, NEW c \in Caller, V!Broadcast(c)
  PROVE  TreeInv'
<1>. USE DEF TreeInv
<1>1. /\ Under(c) /\ set[c].at = "stored"
      /\ \A d \in Caller \ {c} : set'[d] = set[d]
      /\ set'[c].at = "send" /\ set'[c].write = set[c].write /\ set'[c].rest = subscribers
      /\ UNCHANGED <<subscribers, channel, writes, since, told, dropped, overlapped>>
  BY DEF V!Broadcast, V!history, TreeTypeOK, Under
<1>2. TreeTypeOK'
  <2>1. set' \in [Caller -> [at : {"out", "stored", "send"}, write : Nat, key : Key \cup {0},
                             rest : Seq(Subscriber)]]
    BY DEF V!Broadcast, TreeTypeOK
  <2> QED
    BY <1>1, <2>1 DEF TreeTypeOK
<1>3. \A d \in Caller : (Under(d)' <=> Under(d)) /\ set'[d].write = set[d].write
  BY <1>1 DEF Under
<1>4. CallsAreApart'
  BY <1>1, <1>3 DEF CallsAreApart
<1>5. LeftAreUntold'
  BY <1>1 DEF LeftAreUntold
<1>6. V!UnderWay' = V!UnderWay
  BY <1>3 DEF V!UnderWay, Under
<1>7. EachIsTold'
  <2>. SUFFICES ASSUME NEW s \in V!ToSet(subscribers)
                PROVE  \A d \in Caller :
                         set'[d].at = "send" /\ set'[d].write > since[s] =>
                           s \in V!ToSet(set'[d].rest) \/ WasTold(s, set'[d].write)
    BY <1>1, <1>6, Zenon DEF EachIsTold, WasTold
  <2> QED
    BY <1>1 DEF EachIsTold
<1>8. ToldInOrder'
  BY <1>1 DEF ToldInOrder
<1> QED
  BY <1>2, <1>4, <1>5, <1>7, <1>8

\* The head of the list is told, or finds its channel full.
LEMMA SendIs ==
  ASSUME TreeTypeOK, NEW c \in Caller, V!Send(c)
  PROVE  \E s \in Subscriber :
           /\ set[c].at = "send" /\ set[c].rest # <<>> /\ s = Head(set[c].rest)
           /\ set[c].write \in Nat
           /\ set' = [set EXCEPT ![c].rest = Tail(@)]
           /\ UNCHANGED <<subscribers, writes, since, overlapped>>
           /\ V!ToSet(set[c].rest) = V!ToSet(Tail(set[c].rest)) \cup {s}
           /\ OneEach(set[c].rest) =>
                OneEach(Tail(set[c].rest)) /\ s \notin V!ToSet(Tail(set[c].rest))
           /\ Tail(set[c].rest) \in Seq(Subscriber)
           /\ V!Deliver(s, set[c].write)
<1>1. /\ set[c].rest \in Seq(Subscriber) /\ set[c].rest # <<>>
      /\ set[c].write \in Nat
  BY DEF V!Send, TreeTypeOK
<1>2. PICK q : q \in Seq(Subscriber) /\ q # <<>> /\ q = set[c].rest
  BY <1>1
<1>3. /\ Head(q) \in Subscriber /\ Tail(q) \in Seq(Subscriber)
      /\ V!ToSet(q) = V!ToSet(Tail(q)) \cup {Head(q)}
      /\ OneEach(q) => OneEach(Tail(q)) /\ Head(q) \notin V!ToSet(Tail(q))
  BY <1>2, ToSetOfTail
<1> QED
  BY <1>1, <1>2, <1>3 DEF V!Send

\* What Deliver makes of the history.
LEMMA DeliverIs ==
  ASSUME TreeTypeOK, NEW s \in Subscriber, NEW n \in Nat, V!Deliver(s, n)
  PROVE  /\ channel' \in [Subscriber -> Seq(Nat)] /\ told' \in [Subscriber -> Seq(Nat)]
         /\ dropped' \in [Subscriber -> SUBSET Nat]
         /\ \A r \in Subscriber \ {s} : told'[r] = told[r] /\ dropped'[r] = dropped[r]
         /\ told'[s] = told[s] \/ told'[s] = Append(told[s], n)
         /\ n \in V!ToSet(told'[s]) \cup dropped'[s]
         /\ V!ToSet(told[s]) \subseteq V!ToSet(told'[s])
         /\ V!ToSet(told'[s]) \subseteq V!ToSet(told[s]) \cup {n}
         /\ dropped[s] \subseteq dropped'[s]
<1>1. channel[s] \in Seq(Nat) /\ told[s] \in Seq(Nat)
  BY DEF TreeTypeOK
<1>2. Append(channel[s], n) \in Seq(Nat) /\ Append(told[s], n) \in Seq(Nat)
  BY <1>1, AppendIs
<1>3. V!ToSet(Append(told[s], n)) = V!ToSet(told[s]) \cup {n}
  <2>1. PICK q \in Seq(Nat) : q = told[s]
    BY <1>1
  <2>2. V!ToSet(Append(q, n)) = V!ToSet(q) \cup {n}
    BY ToSetOfAppend
  <2> QED
    BY <2>1, <2>2
<1>4. CASE Len(channel[s]) < Capacity
  <2>1. /\ channel' = [channel EXCEPT ![s] = Append(@, n)]
        /\ told' = [told EXCEPT ![s] = Append(@, n)] /\ dropped' = dropped
    BY <1>4 DEF V!Deliver
  <2>2. PICK q : q = Append(told[s], n)
    OBVIOUS
  <2>3. told'[s] = q /\ \A r \in Subscriber \ {s} : told'[r] = told[r]
    BY <2>1, <2>2 DEF TreeTypeOK
  <2>4. V!ToSet(q) = V!ToSet(told[s]) \cup {n} /\ q \in Seq(Nat)
    BY <1>2, <1>3, <2>2
  <2>5. channel' \in [Subscriber -> Seq(Nat)] /\ told' \in [Subscriber -> Seq(Nat)]
    BY <1>2, <2>1 DEF TreeTypeOK
  <2> QED
    BY <2>1, <2>2, <2>3, <2>4, <2>5, Zenon DEF TreeTypeOK
<1>5. CASE ~(Len(channel[s]) < Capacity)
  <2>1. told' = told /\ channel' = channel /\ dropped' = [dropped EXCEPT ![s] = @ \cup {n}]
    BY <1>5 DEF V!Deliver
  <2>2. /\ dropped' \in [Subscriber -> SUBSET Nat] /\ dropped'[s] = dropped[s] \cup {n}
        /\ \A r \in Subscriber \ {s} : dropped'[r] = dropped[r]
    BY <2>1 DEF TreeTypeOK
  <2> QED
    BY <2>1, <2>2, Zenon DEF TreeTypeOK
<1> QED
  BY <1>4, <1>5

LEMMA SendKeeps ==
  ASSUME TreeInv, NEW c \in Caller, V!Send(c)
  PROVE  TreeInv'
<1>1. TreeTypeOK /\ CallsAreApart /\ LeftAreUntold /\ EachIsTold /\ ToldInOrder
  BY DEF TreeInv
<1>2. PICK s \in Subscriber :
           /\ set[c].at = "send" /\ set[c].rest # <<>> /\ s = Head(set[c].rest)
           /\ set[c].write \in Nat
           /\ set' = [set EXCEPT ![c].rest = Tail(@)]
           /\ UNCHANGED <<subscribers, writes, since, overlapped>>
           /\ V!ToSet(set[c].rest) = V!ToSet(Tail(set[c].rest)) \cup {s}
           /\ OneEach(set[c].rest) =>
                OneEach(Tail(set[c].rest)) /\ s \notin V!ToSet(Tail(set[c].rest))
           /\ Tail(set[c].rest) \in Seq(Subscriber)
           /\ V!Deliver(s, set[c].write)
  BY <1>1, SendIs
<1>3. PICK n \in Nat : n = set[c].write
  BY <1>2
<1>4. /\ channel' \in [Subscriber -> Seq(Nat)] /\ told' \in [Subscriber -> Seq(Nat)]
      /\ dropped' \in [Subscriber -> SUBSET Nat]
      /\ \A r \in Subscriber \ {s} : told'[r] = told[r] /\ dropped'[r] = dropped[r]
      /\ told'[s] = told[s] \/ told'[s] = Append(told[s], n)
      /\ n \in V!ToSet(told'[s]) \cup dropped'[s]
      /\ V!ToSet(told[s]) \subseteq V!ToSet(told'[s])
      /\ V!ToSet(told'[s]) \subseteq V!ToSet(told[s]) \cup {n}
      /\ dropped[s] \subseteq dropped'[s]
  BY <1>1, <1>2, <1>3, DeliverIs
<1>5. PICK rest : rest = Tail(set[c].rest)
  OBVIOUS
<1>6. /\ \A d \in Caller \ {c} : set'[d] = set[d]
      /\ set'[c].at = "send" /\ set'[c].write = n /\ set'[c].rest = rest
  BY <1>1, <1>2, <1>3, <1>5 DEF TreeTypeOK
<1>7. TreeTypeOK'
  <2>1. set' \in [Caller -> [at : {"out", "stored", "send"}, write : Nat, key : Key \cup {0},
                             rest : Seq(Subscriber)]]
    BY <1>1, <1>2 DEF TreeTypeOK
  <2>2. writes' \in Nat /\ subscribers' \in Seq(Subscriber) /\ since' \in [Subscriber -> Nat]
    BY <1>1, <1>2 DEF TreeTypeOK
  <2> QED
    BY <1>4, <2>1, <2>2, Zenon DEF TreeTypeOK
<1>8. \A d \in Caller : /\ Under(d)' <=> Under(d)
                        /\ set'[d].at = set[d].at /\ set'[d].write = set[d].write
  BY <1>2, <1>3, <1>6 DEF Under
<1>9. CallsAreApart'
  BY <1>1, <1>2, <1>8 DEF CallsAreApart
<1>10. /\ Under(c) /\ n \in 1..writes /\ n \notin V!ToSet(told[s])
       /\ \A d \in Caller \ {c} : Under(d) => set[d].write # n
       /\ \A m \in V!ToSet(told[s]) : m > n => m \in overlapped
       /\ OneEach(rest) /\ s \notin V!ToSet(rest) /\ V!ToSet(set[c].rest) = V!ToSet(rest) \cup {s}
  <2>1. Under(c) /\ s \in V!ToSet(set[c].rest) /\ OneEach(set[c].rest)
    BY <1>1, <1>2 DEF Under, LeftAreUntold
  <2>2. /\ n \in 1..writes
        /\ \A m \in n + 1..writes : m \in overlapped
        /\ \A d \in Caller \ {c} : Under(d) => set[d].write # n
    BY <1>1, <1>3, <2>1 DEF CallsAreApart
  <2>3. n \notin V!ToSet(told[s])
    BY <1>1, <1>2, <1>3, <2>1 DEF LeftAreUntold
  <2>4. \A m \in V!ToSet(told[s]) : m > n => m \in overlapped
    BY <1>1, <2>2 DEF ToldInOrder, TreeTypeOK
  <2> QED
    BY <1>2, <1>5, <2>1, <2>2, <2>3, <2>4
<1>11. LeftAreUntold'
  <2>1. OneEach(subscribers')
    BY <1>1, <1>2 DEF LeftAreUntold
  <2>2. \A d \in Caller : set'[d].at = "send" => OneEach(set'[d].rest)
    BY <1>1, <1>6, <1>10 DEF LeftAreUntold
  <2>3. ASSUME NEW d \in Caller, NEW r \in Subscriber,
               set'[d].at = "stored" \/ (set'[d].at = "send" /\ r \in V!ToSet(set'[d].rest))
        PROVE  set'[d].write \notin V!ToSet(told'[r])
    <3>1. CASE d = c
      <4>1. r # s /\ r \in V!ToSet(set[c].rest)
        BY <1>6, <1>10, <2>3, <3>1
      <4>2. set[c].write \notin V!ToSet(told[r])
        BY <1>1, <1>2, <4>1 DEF LeftAreUntold
      <4> QED
        BY <1>4, <1>8, <3>1, <4>1, <4>2
    <3>2. CASE d # c
      <4>1. set[d].write \notin V!ToSet(told[r]) /\ Under(d)
        BY <1>1, <1>6, <2>3, <3>2 DEF LeftAreUntold, Under
      <4>2. set[d].write # n
        BY <1>10, <3>2, <4>1
      <4> QED
        BY <1>4, <1>8, <4>1, <4>2
    <3> QED
      BY <3>1, <3>2
  <2> QED
    BY <2>1, <2>2, <2>3, Zenon DEF LeftAreUntold
<1>12. \A r \in Subscriber : \A m : WasTold(r, m) => WasTold(r, m)'
  BY <1>4 DEF WasTold
<1>13. WasTold(s, n)'
  BY <1>4 DEF WasTold
<1>14. V!UnderWay' = V!UnderWay
  BY <1>8 DEF V!UnderWay, Under
<1>15. EachIsTold'
  <2>. SUFFICES ASSUME NEW r \in V!ToSet(subscribers)
                PROVE  /\ \A m \in since[r] + 1..writes : m \in V!UnderWay \/ WasTold(r, m)'
                       /\ \A d \in Caller :
                            set'[d].at = "send" /\ set'[d].write > since[r] =>
                              r \in V!ToSet(set'[d].rest) \/ set'[d].write \in V!ToSet(told'[r]) \cup dropped'[r]
    BY <1>2, <1>14, Zenon DEF EachIsTold, WasTold
  <2>1. r \in Subscriber
    BY <1>1, ElementsAre DEF V!ToSet, TreeTypeOK
  <2>2. \A m \in since[r] + 1..writes : m \in V!UnderWay \/ WasTold(r, m)'
    BY <1>1, <1>12, <2>1 DEF EachIsTold
  <2>3. ASSUME NEW d \in Caller, set'[d].at = "send", set'[d].write > since[r]
        PROVE  r \in V!ToSet(set'[d].rest) \/ set'[d].write \in V!ToSet(told'[r]) \cup dropped'[r]
    <3>1. PICK m : m = set'[d].write /\ m = set[d].write
      BY <1>8
    <3>2. r \in V!ToSet(set[d].rest) \/ WasTold(r, m)
      BY <1>1, <1>8, <2>3, <3>1 DEF EachIsTold
    <3>3. WasTold(r, m)' \/ r \in V!ToSet(set'[d].rest)
      <4>1. CASE d = c
        <5>1. m = n
          BY <1>6, <3>1, <4>1
        <5> QED
          BY <1>6, <1>10, <1>12, <1>13, <2>1, <3>2, <4>1, <5>1
      <4>2. CASE d # c
        BY <1>6, <1>12, <2>1, <3>2, <4>2
      <4> QED
        BY <4>1, <4>2
    <3> QED
      BY <3>1, <3>3 DEF WasTold
  <2> QED
    BY <2>2, <2>3
<1>16. ToldInOrder'
  <2>. SUFFICES ASSUME NEW r \in Subscriber
                PROVE  V!ToSet(told'[r]) \subseteq 1..writes /\ Rising(told'[r], overlapped)
    BY <1>2, Zenon DEF ToldInOrder
  <2>1. V!ToSet(told[r]) \subseteq 1..writes /\ Rising(told[r], overlapped) /\ told[r] \in Seq(Nat)
    BY <1>1 DEF ToldInOrder, TreeTypeOK
  <2>2. CASE r = s
    <3>1. Rising(Append(told[s], n), overlapped)
      BY <1>10, <2>1, <2>2, RisingAppend
    <3> QED
      BY <1>4, <1>10, <2>1, <2>2, <3>1
  <2>3. CASE r # s
    BY <1>4, <2>1, <2>3
  <2> QED
    BY <2>2, <2>3
<1> QED
  BY <1>7, <1>9, <1>11, <1>15, <1>16 DEF TreeInv

LEMMA ReturnKeeps ==
  ASSUME TreeInv, NEW c \in Caller, V!Return(c)
  PROVE  TreeInv'
<1>. USE DEF TreeInv
<1>1. /\ set[c].at = "send" /\ set[c].rest = <<>>
      /\ \A d \in Caller \ {c} : set'[d] = set[d]
      /\ set'[c].at = "out"
      /\ UNCHANGED <<subscribers, channel, writes, since, told, dropped, overlapped>>
  BY DEF V!Return, V!history, V!Out, TreeTypeOK
<1>2. TreeTypeOK'
  <2>1. set' \in [Caller -> [at : {"out", "stored", "send"}, write : Nat, key : Key \cup {0},
                             rest : Seq(Subscriber)]]
    BY DEF V!Return, V!Out, TreeTypeOK
  <2> QED
    BY <1>1, <2>1 DEF TreeTypeOK
<1>3. \A d \in Caller : Under(d)' => Under(d) /\ set'[d] = set[d]
  BY <1>1 DEF Under
<1>4. CallsAreApart'
  BY <1>1, <1>3 DEF CallsAreApart
<1>5. LeftAreUntold'
  BY <1>1 DEF LeftAreUntold
<1>6. EachIsTold'
  <2>. SUFFICES ASSUME NEW s \in V!ToSet(subscribers)
                PROVE  /\ \A n \in since[s] + 1..writes : n \in V!UnderWay' \/ WasTold(s, n)
                       /\ \A d \in Caller :
                            set'[d].at = "send" /\ set'[d].write > since[s] =>
                              s \in V!ToSet(set'[d].rest) \/ WasTold(s, set'[d].write)
    BY <1>1, Zenon DEF EachIsTold, WasTold
  <2>1. V!ToSet(set[c].rest) = {}
    BY <1>1 DEF V!ToSet
  <2>2. ASSUME NEW n \in since[s] + 1..writes, ~WasTold(s, n)
        PROVE  n \in V!UnderWay'
    <3>1. n \in V!UnderWay
      BY <2>2 DEF EachIsTold
    <3>2. PICK d \in Caller : Under(d) /\ set[d].write = n
      BY <3>1 DEF V!UnderWay, Under
    <3>3. since[s] \in Nat /\ n > since[s]
      <4>1. s \in Subscriber
        BY ElementsAre DEF V!ToSet, TreeTypeOK
      <4> QED
        BY <4>1 DEF TreeTypeOK
    <3>4. d # c
      BY <1>1, <2>1, <2>2, <3>2, <3>3 DEF EachIsTold
    <3> QED
      BY <1>1, <3>2, <3>4 DEF V!UnderWay, Under
  <2>3. ASSUME NEW d \in Caller, set'[d].at = "send", set'[d].write > since[s]
        PROVE  s \in V!ToSet(set'[d].rest) \/ WasTold(s, set'[d].write)
    BY <1>1, <2>3 DEF EachIsTold
  <2> QED
    BY <2>2, <2>3
<1>7. ToldInOrder'
  BY <1>1 DEF ToldInOrder
<1> QED
  BY <1>2, <1>4, <1>5, <1>6, <1>7

LEMMA SubscribeKeeps ==
  ASSUME TreeInv, NEW s \in Subscriber, V!Subscribe(s)
  PROVE  TreeInv'
<1>. USE DEF TreeInv
<1>1. /\ subscribers \in Seq(Subscriber) /\ subscribers' = Append(subscribers, s)
      /\ since' = [since EXCEPT ![s] = writes] /\ writes \in Nat
      /\ \A c \in Caller : set[c].at # "send"
      /\ UNCHANGED <<set, channel, writes, told, dropped, overlapped>>
  BY DEF V!Subscribe, V!ReadLocked, TreeTypeOK
<1>2. s \notin V!ToSet(subscribers)
  BY <1>1 DEF V!Subscribe, V!Contains, V!ToSet
<1>3. PICK q \in Seq(Subscriber) : q = subscribers
  BY <1>1
<1>4. Append(q, s) \in Seq(Subscriber) /\ V!ToSet(Append(q, s)) = V!ToSet(q) \cup {s}
  BY AppendIs, ToSetOfAppend
<1>5. subscribers' \in Seq(Subscriber) /\ V!ToSet(subscribers') = V!ToSet(subscribers) \cup {s}
  BY <1>1, <1>3, <1>4
<1>6. TreeTypeOK'
  BY <1>1, <1>5 DEF TreeTypeOK
<1>7. CallsAreApart'
  BY <1>1 DEF CallsAreApart, Under
<1>8. LeftAreUntold'
  <2>1. OneEach(q) => OneEach(Append(q, s))
    BY <1>2, <1>3, OneEachOfAppend
  <2> QED
    BY <1>1, <1>3, <2>1 DEF LeftAreUntold
<1>9. EachIsTold'
  <2>1. V!UnderWay' = V!UnderWay
    BY <1>1 DEF V!UnderWay
  <2>2. \A r \in V!ToSet(subscribers) : r # s /\ r \in Subscriber
    BY <1>1, <1>2, ElementsAre DEF V!ToSet
  <2>3. \A r \in V!ToSet(subscribers) : since'[r] = since[r]
    BY <1>1, <2>2 DEF TreeTypeOK
  <2>4. \A n \in since'[s] + 1..writes : FALSE
    BY <1>1 DEF TreeTypeOK
  <2> QED
    BY <1>1, <1>5, <2>1, <2>3, <2>4 DEF EachIsTold, WasTold
<1>10. ToldInOrder'
  BY <1>1 DEF ToldInOrder
<1> QED
  BY <1>6, <1>7, <1>8, <1>9, <1>10

LEMMA ReceiveKeeps ==
  ASSUME TreeInv, NEW s \in Subscriber, V!Receive(s)
  PROVE  TreeInv'
<1>. USE DEF TreeInv
<1>1. UNCHANGED <<subscribers, set, writes, since, told, dropped, overlapped>>
  BY DEF V!Receive, V!history
<1>2. channel' \in [Subscriber -> Seq(Nat)]
  <2>1. channel[s] \in Seq(Nat) /\ channel[s] # <<>>
    BY DEF V!Receive, TreeTypeOK
  <2>2. Tail(channel[s]) \in Seq(Nat)
    BY <2>1
  <2> QED
    BY <2>2 DEF V!Receive, TreeTypeOK
<1>3. TreeTypeOK'
  BY <1>1, <1>2 DEF TreeTypeOK
<1> QED
  BY <1>1, <1>3 DEF CallsAreApart, LeftAreUntold, EachIsTold, ToldInOrder, Under, WasTold, V!UnderWay

LEMMA TreeStep ==
  ASSUME TreeInv, [V!Next]_(V!vars)
  PROVE  TreeInv'
<1>1. CASE UNCHANGED V!vars
  BY <1>1 DEF V!vars, TreeInv, TreeTypeOK, CallsAreApart, LeftAreUntold, EachIsTold, ToldInOrder, Under,
              WasTold, V!UnderWay
<1>2. CASE V!Next
  BY <1>2, StoreKeeps, BroadcastKeeps, SendKeeps, ReturnKeeps, SubscribeKeeps, ReceiveKeeps DEF V!Next
<1> QED
  BY <1>1, <1>2

\* Every write since a goroutine subscribed is sent to it, and once, or finds
\* its channel full, and the writes come in their order but for those of calls
\* that overlapped (value_tree.go): for any number of callers and subscribers
\* and any capacity of the channels.
THEOREM ChangesAreTold == V!Spec => []SubscribersAreTold
<1>1. V!Init => TreeInv
  BY TreeInit
<1>2. TreeInv /\ [V!Next]_(V!vars) => TreeInv'
  BY TreeStep
<1>3. TreeInv => SubscribersAreTold
  <2>. SUFFICES ASSUME TreeInv, NEW i \in DOMAIN subscribers
                PROVE  /\ \A n \in since[subscribers[i]] + 1..writes :
                            n \in V!UnderWay \cup V!ToSet(told[subscribers[i]]) \cup dropped[subscribers[i]]
                       /\ \A a, b \in DOMAIN told[subscribers[i]] :
                            a < b => \/ told[subscribers[i]][a] < told[subscribers[i]][b]
                                     \/ /\ told[subscribers[i]][a] > told[subscribers[i]][b]
                                        /\ told[subscribers[i]][a] \in overlapped
    BY Zenon DEF SubscribersAreTold, V!SubscribersAreTold
  <2>1. PICK s \in Subscriber : s = subscribers[i] /\ s \in V!ToSet(subscribers)
    BY ElementsAre DEF TreeInv, TreeTypeOK, V!ToSet
  <2>2. \A n \in since[s] + 1..writes : n \in V!UnderWay \cup V!ToSet(told[s]) \cup dropped[s]
    BY <2>1, Zenon DEF TreeInv, EachIsTold, WasTold
  <2>3. Rising(told[s], overlapped)
    BY DEF TreeInv, ToldInOrder
  <2> QED
    BY <2>1, <2>2, <2>3, Zenon DEF Rising
<1> QED
  BY <1>1, <1>2, <1>3, PTL DEF V!Spec

-----------------------------------------------------------------------------
\* The reactive properties.

\* A Set that a listener has to call.
SetCall == [of : P!Properties, val : Values \cup {P!Unset}]

PropertyTypeOK ==
  /\ content \in [P!Properties -> Values \cup {P!Unset}]
  /\ followers \in [P!Properties -> Seq(P!Properties)]
  /\ binding \in [P!Properties -> P!Properties \cup {P!Nobody}]
  /\ todo \in [Caller -> Seq(SetCall)]
  /\ bind \in [Caller -> [of : P!Properties \cup {P!Nobody}, at : {"out", "listen", "get"}]]

Elements(s) == {s[i] : i \in DOMAIN s}

\* A property that is bound to another follows it, or is about to.
BindingOK ==
  /\ \A p \in P!Properties : binding[p] < p
  /\ \A q \in P!Properties : \A p \in Elements(followers[q]) : binding[p] = q
  /\ \A p \in P!Properties : binding[p] # P!Nobody =>
       \/ p \in Elements(followers[binding[p]])
       \/ \E c \in Caller : bind[c].of = p /\ bind[c].at = "listen"
  /\ \A c \in Caller : bind[c].at # "out" =>
       todo[c] = <<>> /\ bind[c].of \in P!Properties /\ binding[bind[c].of] # P!Nobody
  /\ \A c \in Caller : \A e \in Elements(todo[c]) : binding[e.of] # P!Nobody

\* A set of properties that has what is bound to one of them.
Closed(Z) == \A p \in P!Properties : binding[p] \in Z => p \in Z

\* What is not bound to property 1, through whatever others, has no value.
RestIsUnset ==
  \A Z \in SUBSET P!Properties : Closed(Z) /\ 1 \in Z =>
    /\ \A p \in P!Properties \ Z : content[p] = P!Unset
    /\ \A c \in Caller : \A e \in Elements(todo[c]) : e.of \in Z \/ e.val = P!Unset

\* c has yet to set p.
Pending(c, p) == (\E e \in Elements(todo[c]) : e.of = p) \/ (bind[c].at # "out" /\ bind[c].of = p)

\* Unless calls have overlapped, one goroutine is in a call: all it has yet to
\* set gets the same value, that of what it is bound to; and whatever does not
\* depend on these agrees.
CascadeOK ==
  ~unsettled =>
    /\ \A c, d \in Caller : P!InCall(c) /\ P!InCall(d) => c = d
    /\ \A c \in Caller : \A e \in Elements(todo[c]) :
         /\ e.val = content[binding[e.of]]
         /\ \A f \in Elements(todo[c]) : f.val = e.val
    /\ \A Z \in SUBSET P!Properties :
         Closed(Z) /\ (\A c \in Caller, p \in P!Properties : Pending(c, p) => p \in Z)
           => \A p \in P!Properties \ Z : binding[p] # P!Nobody => content[p] = content[binding[p]]

PropertyInv == PropertyTypeOK /\ BindingOK /\ RestIsUnset /\ CascadeOK

\* What the sequences hold.
LEMMA ElementsOf ==
  ASSUME NEW X, NEW s \in Seq(X)
  PROVE  \A e \in Elements(s) : e \in X
BY DEF Elements

LEMMA FollowersAre ==
  ASSUME PropertyTypeOK, BindingOK, NEW q \in P!Properties
  PROVE  \A x \in Elements(followers[q]) : x \in P!Properties /\ binding[x] = q
<1>1. followers[q] \in Seq(P!Properties)
  BY DEF PropertyTypeOK
<1> QED
  BY <1>1, ElementsOf DEF BindingOK

LEMMA TodoIs ==
  ASSUME PropertyTypeOK, NEW c \in Caller
  PROVE  \A e \in Elements(todo[c]) : e \in SetCall /\ e.of \in P!Properties
<1>1. todo[c] \in Seq(SetCall)
  BY DEF PropertyTypeOK
<1>2. \A e \in Elements(todo[c]) : e \in SetCall
  BY <1>1, ElementsOf
<1> QED
  BY <1>2 DEF SetCall

\* Set, as the sets of what it leaves to call.
LEMMA SetMeans ==
  ASSUME PropertyTypeOK, NEW c \in Caller, NEW p \in P!Properties, NEW val \in Values \cup {P!Unset},
         NEW rest \in Seq(SetCall), P!Set(c, p, val, rest)
  PROVE  /\ content' \in [P!Properties -> Values \cup {P!Unset}]
         /\ content'[p] = val /\ \A q \in P!Properties : q # p => content'[q] = content[q]
         /\ todo' \in [Caller -> Seq(SetCall)]
         /\ \A d \in Caller : d # c => todo'[d] = todo[d]
         /\ \A e : e \in Elements(todo'[c]) <=>
              \/ e \in Elements(rest)
              \/ \E x \in Elements(followers[p]) : e = [of |-> x, val |-> val]
<1>0. followers[p] \in Seq(P!Properties)
  BY DEF PropertyTypeOK
<1>1. PICK l, n : l = followers[p] /\ n = Len(l) /\ l \in Seq(P!Properties) /\ n \in Nat
  BY <1>0
<1>. DEFINE h(i) == [of |-> l[i], val |-> val]
<1>2. PICK A : A = [i \in 1..n |-> h(i)]
  OBVIOUS
<1>3. \A i \in 1..n : l[i] \in P!Properties /\ h(i) \in SetCall
  BY <1>1 DEF SetCall
<1>. HIDE DEF h
<1>4. A \in Seq(SetCall) /\ Len(A) = n /\ \A i \in 1..n : A[i] = h(i)
  <2>1. A \in [1..n -> SetCall]
    BY <1>2, <1>3
  <2> QED
    BY <1>1, <1>2, <2>1
<1>5. PICK s : s = A \o rest
  OBVIOUS
<1>6. /\ s \in Seq(SetCall) /\ Len(s) = n + Len(rest) /\ Len(rest) \in Nat
      /\ \A i \in 1..n + Len(rest) : s[i] = IF i <= n THEN A[i] ELSE rest[i - n]
  <2>1. /\ A \o rest \in Seq(SetCall) /\ Len(A \o rest) = Len(A) + Len(rest)
        /\ \A i \in 1..Len(A) + Len(rest) : (A \o rest)[i] = IF i <= Len(A) THEN A[i] ELSE rest[i - Len(A)]
    BY <1>4, ConcatProperties
  <2>2. Len(rest) \in Nat
    OBVIOUS
  <2> QED
    BY <1>4, <1>5, <2>1, <2>2
<1>7. content' = [content EXCEPT ![p] = val] /\ todo' = [todo EXCEPT ![c] = s]
  BY <1>1, <1>2, <1>5 DEF P!Set, h
<1>8. /\ content' \in [P!Properties -> Values \cup {P!Unset}]
      /\ content'[p] = val /\ \A q \in P!Properties : q # p => content'[q] = content[q]
  BY <1>7 DEF PropertyTypeOK
<1>9. /\ todo' \in [Caller -> Seq(SetCall)] /\ todo'[c] = s
      /\ \A d \in Caller : d # c => todo'[d] = todo[d]
  BY <1>6, <1>7 DEF PropertyTypeOK
<1>10. ASSUME NEW i \in DOMAIN s
       PROVE  s[i] \in Elements(rest) \/ \E x \in Elements(l) : s[i] = [of |-> x, val |-> val]
  <2>1. i \in 1..n + Len(rest)
    BY <1>6
  <2>2. CASE i <= n
    <3>1. i \in 1..n /\ s[i] = h(i) /\ l[i] \in Elements(l)
      BY <1>1, <1>4, <1>6, <2>1, <2>2 DEF Elements
    <3> QED
      BY <3>1 DEF h
  <2>3. CASE ~(i <= n)
    <3>1. i - n \in 1..Len(rest) /\ s[i] = rest[i - n]
      BY <1>1, <1>6, <2>1, <2>3
    <3>2. i - n \in DOMAIN rest
      BY <3>1
    <3> QED
      BY <3>1, <3>2 DEF Elements
  <2> QED
    BY <2>2, <2>3
<1>11. ASSUME NEW j \in DOMAIN rest
       PROVE  rest[j] \in Elements(s)
  <2>1. j \in 1..Len(rest)
    OBVIOUS
  <2>2. n + j \in 1..n + Len(rest) /\ ~(n + j <= n) /\ (n + j) - n = j
    BY <1>1, <1>6, <2>1
  <2>3. n + j \in DOMAIN s /\ s[n + j] = rest[j]
    BY <1>6, <2>2
  <2> QED
    BY <2>3 DEF Elements
<1>12. ASSUME NEW j \in DOMAIN l
       PROVE  [of |-> l[j], val |-> val] \in Elements(s)
  <2>1. j \in 1..n /\ j \in 1..n + Len(rest) /\ j <= n
    BY <1>1, <1>6
  <2>2. j \in DOMAIN s /\ s[j] = h(j)
    BY <1>4, <1>6, <2>1
  <2> QED
    BY <2>2 DEF Elements, h
<1>13. \A e : e \in Elements(s) <=>
         e \in Elements(rest) \/ \E x \in Elements(l) : e = [of |-> x, val |-> val]
  BY <1>10, <1>11, <1>12 DEF Elements
<1> QED
  BY <1>1, <1>8, <1>9, <1>13

LEMMA PropertiesAre ==
  Last \in Nat \ {0} /\ P!Properties = 1..Last /\ 1 \in P!Properties /\ P!Nobody \notin P!Properties
BY ServicesAssumption DEF P!PropertyAssumption, P!Properties, P!Nobody

\* Who is not in a call has nothing to do.
LEMMA OutMeans ==
  ASSUME PropertyTypeOK, NEW c \in Caller, ~P!InCall(c)
  PROVE  /\ todo[c] = <<>> /\ Elements(todo[c]) = {} /\ bind[c].at = "out"
         /\ \A p : ~Pending(c, p)
BY DEF P!InCall, Elements, Pending

LEMMA SetSourceKeeps ==
  ASSUME PropertyInv, NEW c \in Caller, NEW val \in Values, P!SetSource(c, val)
  PROVE  PropertyInv'
<1>. USE PropertiesAre DEF PropertyInv
<1>1. /\ UNCHANGED <<followers, binding, bind>> /\ unsettled' = ~P!Alone(c)
      /\ todo[c] = <<>> /\ bind[c].at = "out" /\ P!Set(c, 1, val, <<>>)
  BY OutMeans DEF P!SetSource
<1>2. <<>> \in Seq(SetCall) /\ Elements(<<>>) = {} /\ val \in Values \cup {P!Unset}
  BY DEF Elements
<1>3. /\ content' \in [P!Properties -> Values \cup {P!Unset}]
      /\ content'[1] = val /\ \A q \in P!Properties : q # 1 => content'[q] = content[q]
      /\ todo' \in [Caller -> Seq(SetCall)]
      /\ \A d \in Caller : d # c => todo'[d] = todo[d]
      /\ \A e : e \in Elements(todo'[c]) <=> \E x \in Elements(followers[1]) : e = [of |-> x, val |-> val]
  <2>1. PICK rest : rest \in Seq(SetCall) /\ Elements(rest) = {} /\ P!Set(c, 1, val, rest)
    BY <1>1, <1>2
  <2>2. /\ content' \in [P!Properties -> Values \cup {P!Unset}]
        /\ content'[1] = val /\ \A q \in P!Properties : q # 1 => content'[q] = content[q]
        /\ todo' \in [Caller -> Seq(SetCall)]
        /\ \A d \in Caller : d # c => todo'[d] = todo[d]
        /\ \A e : e \in Elements(todo'[c]) <=>
             \/ e \in Elements(rest)
             \/ \E x \in Elements(followers[1]) : e = [of |-> x, val |-> val]
    BY <1>2, <2>1, SetMeans
  <2> QED
    BY <2>1, <2>2
<1>4. PropertyTypeOK'
  BY <1>1, <1>3 DEF PropertyTypeOK
<1>5. \A x \in Elements(followers[1]) : x \in P!Properties /\ binding[x] = 1
  BY FollowersAre
<1>6. BindingOK'
  <2>1. \A d \in Caller : bind[d].at # "out" => d # c /\ todo'[d] = todo[d]
    BY <1>1, <1>3
  <2>2. \A d \in Caller : \A e \in Elements(todo'[d]) : binding[e.of] # P!Nobody
    BY <1>3, <1>5 DEF BindingOK
  <2> QED
    BY <1>1, <2>1, <2>2 DEF BindingOK
<1>7. \A Z : Closed(Z)' <=> Closed(Z)
  BY <1>1 DEF Closed
<1>8. RestIsUnset'
  <2>. SUFFICES ASSUME NEW Z \in SUBSET P!Properties, Closed(Z), 1 \in Z
                PROVE  /\ \A p \in P!Properties \ Z : content'[p] = P!Unset
                       /\ \A d \in Caller : \A e \in Elements(todo'[d]) : e.of \in Z \/ e.val = P!Unset
    BY <1>7 DEF RestIsUnset
  <2>1. \A x \in Elements(followers[1]) : x \in Z
    BY <1>5 DEF Closed
  <2>2. /\ \A p \in P!Properties \ Z : content[p] = P!Unset
        /\ \A d \in Caller : \A e \in Elements(todo[d]) : e.of \in Z \/ e.val = P!Unset
    BY DEF RestIsUnset
  <2>3. \A p \in P!Properties \ Z : content'[p] = P!Unset
    BY <1>3, <2>2
  <2>4. ASSUME NEW d \in Caller, NEW e \in Elements(todo'[d])
        PROVE  e.of \in Z \/ e.val = P!Unset
    BY <1>3, <2>1, <2>2, <2>4
  <2> QED
    BY <2>3, <2>4
<1>9. ASSUME ~unsettled'
      PROVE  /\ \A d, b \in Caller : P!InCall(d)' /\ P!InCall(b)' => d = b
             /\ \A d \in Caller : \A e \in Elements(todo'[d]) :
                  /\ e.val = content'[binding[e.of]]
                  /\ \A f \in Elements(todo'[d]) : f.val = e.val
  <2>1. \A d \in Caller : d # c => ~P!InCall(d)
    BY <1>1, <1>9 DEF P!Alone
  <2>2. \A d \in Caller : d # c => ~P!InCall(d)' /\ Elements(todo'[d]) = {}
    BY <1>1, <1>3, <2>1, OutMeans DEF P!InCall
  <2> QED
    BY <1>3, <1>5, <2>2
<1>10. ASSUME ~unsettled', NEW Z \in SUBSET P!Properties, Closed(Z),
              \A d \in Caller, p \in P!Properties : Pending(d, p)' => p \in Z,
              NEW p \in P!Properties \ Z, binding[p] # P!Nobody
       PROVE  content'[p] = content'[binding[p]]
  <2>1. \A d \in Caller : bind[d].at = "out"
    BY <1>1, <1>10, OutMeans DEF P!Alone
\* What is bound to property 1 follows it.
  <2>2. \A x \in P!Properties : binding[x] = 1 => x \in Z
    <3>1. ASSUME NEW x \in P!Properties, binding[x] = 1
          PROVE  x \in Z
      <4>1. x \in Elements(followers[1])
        BY <2>1, <3>1 DEF BindingOK
      <4>2. [of |-> x, val |-> val] \in Elements(todo'[c])
        BY <1>3, <4>1
      <4>3. Pending(c, x)'
        BY <4>2 DEF Pending
      <4> QED
        BY <1>10, <4>3
    <3> QED
      BY <3>1
  <2>3. binding[p] \in P!Properties /\ binding[p] < p
    BY <1>10 DEF PropertyTypeOK, BindingOK
  <2>4. p # 1 /\ binding[p] # 1 /\ p \notin Z \cup {1} /\ binding[p] \notin Z \cup {1}
    <3>1. p \in Nat /\ binding[p] \in Nat /\ binding[p] >= 1
      BY <2>3
    <3> QED
      BY <1>10, <2>2, <2>3, <3>1 DEF Closed
  <2>5. Z \cup {1} \in SUBSET P!Properties /\ Closed(Z \cup {1})
    BY <1>10, <2>2 DEF Closed
  <2>6. content[p] = P!Unset /\ content[binding[p]] = P!Unset
    BY <2>3, <2>4, <2>5 DEF RestIsUnset
  <2> QED
    BY <1>3, <2>3, <2>4, <2>6
<1>11. CascadeOK'
  BY <1>1, <1>7, <1>9, <1>10 DEF CascadeOK
<1> QED
  BY <1>4, <1>6, <1>8, <1>11

\* The first of a sequence, and the rest.
LEMMA HeadAndTail ==
  ASSUME NEW X, NEW s \in Seq(X), s # <<>>
  PROVE  /\ Head(s) \in X /\ Tail(s) \in Seq(X)
         /\ \A e : e \in Elements(s) <=> e = Head(s) \/ e \in Elements(Tail(s))
<1>1. PICK n : n = Len(s) /\ n \in Nat /\ n > 0
  OBVIOUS
<1>2. /\ Tail(s) \in Seq(X) /\ Len(Tail(s)) = n - 1 /\ Head(s) = s[1] /\ s[1] \in X
      /\ \A i \in 1..n - 1 : Tail(s)[i] = s[i + 1]
  BY <1>1
<1>3. \A i \in 1..n : i = 1 \/ (i - 1 \in 1..n - 1 /\ (i - 1) + 1 = i)
  BY <1>1
<1>4. \A i \in 1..n - 1 : i + 1 \in 1..n
  BY <1>1
<1>5. DOMAIN s = 1..n /\ DOMAIN Tail(s) = 1..n - 1 /\ 1 \in 1..n
  BY <1>1, <1>2
<1>6. ASSUME NEW i \in DOMAIN s
      PROVE  s[i] = Head(s) \/ s[i] \in Elements(Tail(s))
  <2>1. CASE i = 1
    BY <1>2, <2>1
  <2>2. CASE i # 1
    <3>1. i - 1 \in DOMAIN Tail(s) /\ Tail(s)[i - 1] = s[i]
      BY <1>2, <1>3, <1>5, <2>2
    <3> QED
      BY <3>1 DEF Elements
  <2> QED
    BY <2>1, <2>2
<1>7. ASSUME NEW i \in DOMAIN Tail(s)
      PROVE  Tail(s)[i] \in Elements(s)
  BY <1>2, <1>4, <1>5 DEF Elements
<1>8. Head(s) \in Elements(s)
  BY <1>2, <1>5 DEF Elements
<1> QED
  BY <1>2, <1>6, <1>7, <1>8 DEF Elements

LEMMA CallListenerKeeps ==
  ASSUME PropertyInv, NEW c \in Caller, P!CallListener(c)
  PROVE  PropertyInv'
<1>. USE PropertiesAre DEF PropertyInv
<1>1. PICK h, rest : /\ h = Head(todo[c]) /\ rest = Tail(todo[c]) /\ todo[c] # <<>>
                     /\ P!Set(c, h.of, h.val, rest)
                     /\ UNCHANGED <<followers, binding, bind, unsettled>>
  BY DEF P!CallListener
<1>2. /\ h \in SetCall /\ rest \in Seq(SetCall)
      /\ \A e : e \in Elements(todo[c]) <=> e = h \/ e \in Elements(rest)
  <2>1. todo[c] \in Seq(SetCall)
    BY DEF PropertyTypeOK
  <2> QED
    BY <1>1, <2>1, HeadAndTail
<1>3. h.of \in P!Properties /\ h.val \in Values \cup {P!Unset} /\ binding[h.of] # P!Nobody
  BY <1>2 DEF SetCall, BindingOK
<1>4. /\ content' \in [P!Properties -> Values \cup {P!Unset}]
      /\ content'[h.of] = h.val /\ \A q \in P!Properties : q # h.of => content'[q] = content[q]
      /\ todo' \in [Caller -> Seq(SetCall)]
      /\ \A d \in Caller : d # c => todo'[d] = todo[d]
      /\ \A e : e \in Elements(todo'[c]) <=>
           \/ e \in Elements(rest)
           \/ \E x \in Elements(followers[h.of]) : e = [of |-> x, val |-> h.val]
  <2>1. PICK p, v : p = h.of /\ v = h.val /\ P!Set(c, p, v, rest)
    BY <1>1
  <2>2. p \in P!Properties /\ v \in Values \cup {P!Unset}
    BY <1>3, <2>1
  <2>3. /\ content' \in [P!Properties -> Values \cup {P!Unset}]
        /\ content'[p] = v /\ \A q \in P!Properties : q # p => content'[q] = content[q]
        /\ todo' \in [Caller -> Seq(SetCall)]
        /\ \A d \in Caller : d # c => todo'[d] = todo[d]
        /\ \A e : e \in Elements(todo'[c]) <=>
             \/ e \in Elements(rest)
             \/ \E x \in Elements(followers[p]) : e = [of |-> x, val |-> v]
    BY <1>2, <2>1, <2>2, SetMeans
  <2> QED
    BY <2>1, <2>3
<1>5. PropertyTypeOK'
  BY <1>1, <1>4 DEF PropertyTypeOK
<1>6. \A x \in Elements(followers[h.of]) : x \in P!Properties /\ binding[x] = h.of
  BY <1>3, FollowersAre
<1>7. bind[c].at = "out"
  BY <1>1 DEF BindingOK
<1>8. BindingOK'
  <2>1. \A d \in Caller : bind[d].at # "out" => d # c /\ todo'[d] = todo[d]
    BY <1>4, <1>7
  <2>2. \A d \in Caller : \A e \in Elements(todo'[d]) : binding[e.of] # P!Nobody
    BY <1>2, <1>3, <1>4, <1>6 DEF BindingOK
  <2> QED
    BY <1>1, <2>1, <2>2 DEF BindingOK
<1>9. \A Z : Closed(Z)' <=> Closed(Z)
  BY <1>1 DEF Closed
<1>10. RestIsUnset'
  <2>. SUFFICES ASSUME NEW Z \in SUBSET P!Properties, Closed(Z), 1 \in Z
                PROVE  /\ \A p \in P!Properties \ Z : content'[p] = P!Unset
                       /\ \A d \in Caller : \A e \in Elements(todo'[d]) : e.of \in Z \/ e.val = P!Unset
    BY <1>9 DEF RestIsUnset
  <2>1. /\ \A p \in P!Properties \ Z : content[p] = P!Unset
        /\ \A d \in Caller : \A e \in Elements(todo[d]) : e.of \in Z \/ e.val = P!Unset
    BY DEF RestIsUnset
  <2>2. h.of \in Z \/ h.val = P!Unset
    BY <1>2, <2>1
  <2>3. \A x \in Elements(followers[h.of]) : x \in Z \/ h.val = P!Unset
    BY <1>6, <2>2 DEF Closed
  <2>4. \A p \in P!Properties \ Z : content'[p] = P!Unset
    BY <1>4, <2>1, <2>2
  <2>5. ASSUME NEW d \in Caller, NEW e \in Elements(todo'[d])
        PROVE  e.of \in Z \/ e.val = P!Unset
    BY <1>2, <1>4, <2>1, <2>3, <2>5
  <2> QED
    BY <2>4, <2>5
<1>11. CASE unsettled
  BY <1>1, <1>5, <1>8, <1>10, <1>11 DEF CascadeOK
<1>12. CASE ~unsettled
  <2>1. \A d \in Caller : d # c => ~P!InCall(d) /\ Elements(todo[d]) = {} /\ bind[d].at = "out"
    <3>1. P!InCall(c)
      BY <1>1 DEF P!InCall
    <3> QED
      BY <1>12, <3>1, OutMeans DEF CascadeOK
  <2>2. \A d, b \in Caller : P!InCall(d)' /\ P!InCall(b)' => d = b
    BY <1>1, <1>4, <2>1 DEF P!InCall
  <2>3. /\ h.val = content[binding[h.of]]
        /\ \A e \in Elements(rest) : e.val = h.val /\ e.val = content[binding[e.of]]
                                     /\ e.of \in P!Properties /\ binding[e.of] # P!Nobody
    <3>1. \A e \in Elements(rest) : e \in SetCall
      BY <1>2 DEF Elements
    <3> QED
      BY <1>2, <1>12, <3>1 DEF CascadeOK, BindingOK, SetCall
  <2>4. ASSUME NEW d \in Caller, NEW e \in Elements(todo'[d])
        PROVE  e.val = content'[binding[e.of]] /\ e.val = h.val
    <3>1. d = c
      BY <1>4, <2>1, <2>4
    <3>2. CASE e \in Elements(rest)
      <4>1. binding[e.of] \in P!Properties
        BY <2>3, <3>2 DEF PropertyTypeOK
      <4> QED
        BY <1>4, <2>3, <3>2, <4>1
    <3>3. CASE \E x \in Elements(followers[h.of]) : e = [of |-> x, val |-> h.val]
      BY <1>4, <1>6, <3>3
    <3> QED
      BY <1>4, <2>4, <3>1, <3>2, <3>3
  <2>5. ASSUME NEW Z \in SUBSET P!Properties, Closed(Z),
               \A d \in Caller, p \in P!Properties : Pending(d, p)' => p \in Z,
               NEW p \in P!Properties \ Z, binding[p] # P!Nobody
        PROVE  content'[p] = content'[binding[p]]
    <3>. DEFINE Z2 == Z \cup {h.of}
    <3>1. \A x \in P!Properties : binding[x] = h.of => x \in Z
      <4>1. ASSUME NEW x \in P!Properties, binding[x] = h.of
            PROVE  x \in Z
        <5>1. x \in Elements(followers[h.of])
          BY <1>3, <1>7, <2>1, <4>1 DEF BindingOK
        <5>2. [of |-> x, val |-> h.val] \in Elements(todo'[c])
          BY <1>4, <5>1
        <5>3. Pending(c, x)'
          BY <5>2 DEF Pending
        <5> QED
          BY <2>5, <5>3
      <4> QED
        BY <4>1
    <3>2. Z2 \in SUBSET P!Properties /\ Closed(Z2)
      BY <1>3, <2>5, <3>1 DEF Closed
    <3>3. ASSUME NEW d \in Caller, NEW x \in P!Properties, Pending(d, x)
          PROVE  x \in Z2
      <4>1. d = c /\ bind[c].at = "out"
        BY <1>7, <2>1, <3>3 DEF Pending
      <4>2. PICK e \in Elements(todo[c]) : e.of = x
        BY <3>3, <4>1 DEF Pending
      <4>3. CASE e \in Elements(rest)
        <5>1. Pending(c, x)'
          BY <1>4, <4>2, <4>3 DEF Pending
        <5> QED
          BY <2>5, <5>1
      <4> QED
        BY <1>2, <4>2, <4>3
    <3>4. \A x \in P!Properties \ Z2 : binding[x] # P!Nobody => content[x] = content[binding[x]]
      BY <1>12, <3>2, <3>3 DEF CascadeOK
    <3>5. binding[p] \in P!Properties /\ binding[p] < p
      BY <2>5 DEF PropertyTypeOK, BindingOK
    <3>6. CASE p # h.of
      BY <1>4, <2>5, <3>1, <3>4, <3>5, <3>6
    <3>7. CASE p = h.of
      <4>1. binding[p] # p
        BY <3>5
      <4> QED
        BY <1>4, <2>3, <3>5, <3>7, <4>1
    <3> QED
      BY <3>6, <3>7
  <2>6. CascadeOK'
    BY <1>1, <1>9, <2>2, <2>4, <2>5 DEF CascadeOK
  <2> QED
    BY <1>5, <1>8, <1>10, <2>6
<1> QED
  BY <1>11, <1>12

LEMMA BindKeeps ==
  ASSUME PropertyInv, NEW c \in Caller, NEW p \in P!Properties, NEW other \in P!Properties,
         P!Bind(c, p, other)
  PROVE  PropertyInv'
<1>. USE PropertiesAre DEF PropertyInv
<1>1. /\ UNCHANGED <<content, followers, todo>>
      /\ other < p /\ binding[p] = P!Nobody
      /\ unsettled' = (unsettled \/ ~P!Alone(c))
      /\ todo[c] = <<>> /\ bind[c].at = "out"
  BY OutMeans DEF P!Bind
<1>2. /\ binding' \in [P!Properties -> P!Properties \cup {P!Nobody}]
      /\ binding'[p] = other /\ \A q \in P!Properties : q # p => binding'[q] = binding[q]
  BY DEF P!Bind, PropertyTypeOK
<1>3. /\ bind' \in [Caller -> [of : P!Properties \cup {P!Nobody}, at : {"out", "listen", "get"}]]
      /\ bind'[c].of = p /\ bind'[c].at = "listen"
      /\ \A d \in Caller : d # c => bind'[d] = bind[d]
  <2>1. bind' = [bind EXCEPT ![c] = [of |-> p, at |-> "listen"]]
    BY DEF P!Bind
  <2>2. [of |-> p, at |-> "listen"] \in [of : P!Properties \cup {P!Nobody}, at : {"out", "listen", "get"}]
    OBVIOUS
  <2> QED
    BY <2>1, <2>2 DEF PropertyTypeOK
<1>4. PropertyTypeOK'
  BY <1>1, <1>2, <1>3 DEF PropertyTypeOK
<1>5. \A q \in P!Properties : \A x \in Elements(followers[q]) : x \in P!Properties /\ x # p
  BY <1>1, PropertiesAre, FollowersAre
<1>6. \A x \in P!Properties : binding[x] # P!Nobody => x # p /\ binding'[x] = binding[x]
  BY <1>1, <1>2
<1>7. \A d \in Caller : \A e \in Elements(todo[d]) : e.of \in P!Properties /\ e.of # p
  <2>1. \A d \in Caller : \A e \in Elements(todo[d]) : e \in SetCall
    BY DEF PropertyTypeOK, Elements
  <2> QED
    BY <1>1, <2>1 DEF BindingOK, SetCall
<1>8. BindingOK'
  <2>1. \A q \in P!Properties : binding'[q] < q
    BY <1>1, <1>2 DEF BindingOK
  <2>2. \A q \in P!Properties : \A x \in Elements(followers[q]) : binding'[x] = q
    BY <1>2, <1>5 DEF BindingOK
  <2>3. ASSUME NEW x \in P!Properties, binding'[x] # P!Nobody
        PROVE  \/ x \in Elements(followers[binding'[x]])
               \/ \E d \in Caller : bind'[d].of = x /\ bind'[d].at = "listen"
    <3>1. CASE x = p
      BY <1>3, <3>1
    <3>2. CASE x # p
      <4>1. binding[x] # P!Nobody /\ binding'[x] = binding[x]
        BY <1>2, <2>3, <3>2
      <4>2. \A d \in Caller : bind[d].at = "listen" => bind'[d] = bind[d]
        BY <1>1, <1>3
      <4> QED
        BY <4>1, <4>2 DEF BindingOK
    <3> QED
      BY <3>1, <3>2
  <2>4. ASSUME NEW d \in Caller, bind'[d].at # "out"
        PROVE  todo[d] = <<>> /\ bind'[d].of \in P!Properties /\ binding'[bind'[d].of] # P!Nobody
    <3>1. CASE d = c
      BY <1>1, <1>2, <1>3, <3>1
    <3>2. CASE d # c
      BY <1>3, <1>6, <2>4, <3>2 DEF BindingOK
    <3> QED
      BY <3>1, <3>2
  <2>5. \A d \in Caller : \A e \in Elements(todo[d]) : binding'[e.of] # P!Nobody
    BY <1>2, <1>7 DEF BindingOK
  <2> QED
    BY <1>1, <2>1, <2>2, <2>3, <2>4, <2>5 DEF BindingOK
<1>9. \A Z \in SUBSET P!Properties : Closed(Z)' => Closed(Z)
  BY <1>1, <1>2 DEF Closed
<1>10. RestIsUnset'
  BY <1>1, <1>9 DEF RestIsUnset
<1>11. CascadeOK'
  <2>. SUFFICES ASSUME ~unsettled'
                PROVE  /\ \A a, b \in Caller : P!InCall(a)' /\ P!InCall(b)' => a = b
                       /\ \A d \in Caller : Elements(todo[d]) = {}
                       /\ \A Z \in SUBSET P!Properties :
                            (\A d \in Caller, x \in P!Properties : Pending(d, x)' => x \in Z) =>
                            \A x \in P!Properties \ Z :
                              binding'[x] # P!Nobody => content[x] = content[binding'[x]]
    BY <1>1 DEF CascadeOK
  <2>1. ~unsettled /\ P!Alone(c)
    BY <1>1
  <2>2. \A d \in Caller : ~P!InCall(d)
    BY <2>1 DEF P!Alone, P!Bind
  <2>3. \A d \in Caller : Elements(todo[d]) = {} /\ \A x : ~Pending(d, x)
    BY <2>2, OutMeans
  <2>4. \A a \in Caller : P!InCall(a)' => a = c
    BY <1>1, <1>3, <2>2 DEF P!InCall
  <2>5. \A x \in P!Properties : binding[x] # P!Nobody => content[x] = content[binding[x]]
    <3>1. {} \in SUBSET P!Properties /\ Closed({})
      BY DEF Closed
    <3> QED
      BY <2>1, <2>3, <3>1 DEF CascadeOK
  <2>6. Pending(c, p)'
    BY <1>3 DEF Pending
  <2> QED
    BY <1>2, <2>3, <2>4, <2>5, <2>6
<1> QED
  BY <1>4, <1>8, <1>10, <1>11

LEMMA AddListenerKeeps ==
  ASSUME PropertyInv, NEW c \in Caller, P!AddListener(c)
  PROVE  PropertyInv'
<1>. USE PropertiesAre DEF PropertyInv
<1>1. PICK p, q : p = bind[c].of /\ q = binding[p]
  OBVIOUS
<1>2. /\ UNCHANGED <<content, binding, todo, unsettled>> /\ bind[c].at = "listen"
      /\ p \in P!Properties /\ q \in P!Properties /\ todo[c] = <<>>
  BY <1>1 DEF P!AddListener, BindingOK, PropertyTypeOK
<1>3. followers' = [followers EXCEPT ![q] = Append(@, p)]
  BY <1>1 DEF P!AddListener
<1>4. /\ followers' \in [P!Properties -> Seq(P!Properties)]
      /\ \A r \in P!Properties : r # q => followers'[r] = followers[r]
      /\ \A x : x \in Elements(followers'[q]) <=> x = p \/ x \in Elements(followers[q])
  <2>0. followers[q] \in Seq(P!Properties)
    BY <1>2 DEF PropertyTypeOK
  <2>1. PICK l, n : l = followers[q] /\ n = Len(l) /\ l \in Seq(P!Properties) /\ n \in Nat
    BY <2>0
  <2>2. /\ Append(l, p) \in Seq(P!Properties) /\ Len(Append(l, p)) = n + 1
        /\ Append(l, p)[n + 1] = p /\ \A i \in 1..n : Append(l, p)[i] = l[i]
    BY <1>2, <2>1
  <2>3. /\ followers' \in [P!Properties -> Seq(P!Properties)] /\ followers'[q] = Append(l, p)
        /\ \A r \in P!Properties : r # q => followers'[r] = followers[r]
    BY <1>2, <1>3, <2>1, <2>2 DEF PropertyTypeOK
  <2>4. DOMAIN l = 1..n /\ DOMAIN Append(l, p) = 1..n + 1 /\ \A i \in 1..n + 1 : i \in 1..n \/ i = n + 1
    <3>1. DOMAIN l = 1..n
      BY <2>1
    <3>2. DOMAIN Append(l, p) = 1..n + 1
      BY <2>2
    <3>3. \A i \in 1..n + 1 : i \in 1..n \/ i = n + 1
      BY <2>1
    <3> QED
      BY <3>1, <3>2, <3>3
  <2>5. \A i \in 1..n : i \in 1..n + 1
    BY <2>1
  <2>6. n + 1 \in 1..n + 1
    BY <2>1
  <2>7. \A x : x \in Elements(Append(l, p)) <=> x = p \/ x \in Elements(l)
    BY <2>2, <2>4, <2>5, <2>6 DEF Elements
  <2> QED
    BY <2>1, <2>3, <2>7
<1>5. /\ bind' \in [Caller -> [of : P!Properties \cup {P!Nobody}, at : {"out", "listen", "get"}]]
      /\ bind'[c].of = p /\ bind'[c].at = "get"
      /\ \A d \in Caller : d # c => bind'[d] = bind[d]
  <2>1. PICK A, F : A = P!Properties \cup {P!Nobody} /\ F = {"out", "listen", "get"}
    OBVIOUS
  <2>2. bind \in [Caller -> [of : A, at : F]] /\ bind' = [bind EXCEPT ![c].at = "get"] /\ "get" \in F
    BY <2>1 DEF P!AddListener, PropertyTypeOK
  <2>3. [bind[c] EXCEPT !.at = "get"] \in [of : A, at : F]
    BY <2>2
  <2>4. /\ bind' \in [Caller -> [of : A, at : F]] /\ bind'[c] = [bind[c] EXCEPT !.at = "get"]
        /\ \A d \in Caller : d # c => bind'[d] = bind[d]
    BY <2>2, <2>3
  <2>5. bind'[c].of = bind[c].of /\ bind'[c].at = "get"
    BY <2>2, <2>4
  <2> QED
    BY <1>1, <2>1, <2>4, <2>5
<1>6. PropertyTypeOK'
  BY <1>2, <1>4, <1>5 DEF PropertyTypeOK
<1>7. BindingOK'
  <2>1. \A r \in P!Properties : \A x \in Elements(followers'[r]) : binding[x] = r
    BY <1>1, <1>4 DEF BindingOK
  <2>2. ASSUME NEW x \in P!Properties, binding[x] # P!Nobody
        PROVE  \/ x \in Elements(followers'[binding[x]])
               \/ \E d \in Caller : bind'[d].of = x /\ bind'[d].at = "listen"
    <3>1. CASE x = p
      BY <1>1, <1>4, <3>1
    <3>2. CASE x # p
      <4>1. \A d \in Caller : bind[d].of = x => d # c /\ bind'[d] = bind[d]
        BY <1>1, <1>5, <3>2
      <4>2. binding[x] \in P!Properties
        BY <2>2 DEF PropertyTypeOK
      <4>3. x \in Elements(followers[binding[x]]) => x \in Elements(followers'[binding[x]])
        BY <1>4, <4>2
      <4> QED
        BY <2>2, <4>1, <4>3 DEF BindingOK
    <3> QED
      BY <3>1, <3>2
  <2>3. \A d \in Caller : bind'[d].at # "out" => bind[d].at # "out" /\ bind'[d].of = bind[d].of
    BY <1>1, <1>2, <1>5
  <2> QED
    BY <1>2, <2>1, <2>2, <2>3 DEF BindingOK
<1>8. \A Z : Closed(Z)' <=> Closed(Z)
  BY <1>2 DEF Closed
<1>9. RestIsUnset'
  BY <1>2, <1>8 DEF RestIsUnset
<1>10. \A d \in Caller : (P!InCall(d)' <=> P!InCall(d)) /\ \A x : Pending(d, x)' <=> Pending(d, x)
  BY <1>1, <1>2, <1>5 DEF P!InCall, Pending
<1>11. CascadeOK'
  BY <1>2, <1>8, <1>10 DEF CascadeOK
<1> QED
  BY <1>6, <1>7, <1>9, <1>11

LEMMA BindGetsKeeps ==
  ASSUME PropertyInv, NEW c \in Caller, P!BindGets(c)
  PROVE  PropertyInv'
<1>. USE PropertiesAre DEF PropertyInv
<1>1. PICK p, q, e : p = bind[c].of /\ q = binding[p] /\ e = [of |-> p, val |-> content[q]]
  OBVIOUS
<1>2. /\ UNCHANGED <<content, followers, binding, unsettled>> /\ bind[c].at = "get"
      /\ p \in P!Properties /\ q \in P!Properties /\ todo[c] = <<>> /\ Elements(todo[c]) = {}
      /\ e \in SetCall /\ e.of = p /\ e.val = content[q]
  <2>1. UNCHANGED <<content, followers, binding, unsettled>> /\ bind[c].at = "get"
    BY DEF P!BindGets
  <2>2. todo[c] = <<>> /\ p \in P!Properties /\ q # P!Nobody
    BY <1>1, <2>1 DEF BindingOK
  <2>3. q \in P!Properties
    BY <1>1, <2>2 DEF PropertyTypeOK
  <2>4. content[q] \in Values \cup {P!Unset}
    BY <2>3 DEF PropertyTypeOK
  <2>5. e \in SetCall /\ e.of = p /\ e.val = content[q]
    BY <1>1, <2>2, <2>4 DEF SetCall
  <2>6. Elements(todo[c]) = {}
    BY <2>2 DEF Elements
  <2> QED
    BY <2>1, <2>2, <2>3, <2>5, <2>6
<1>3. todo' = [todo EXCEPT ![c] = <<e>>] /\ bind' = [bind EXCEPT ![c] = P!NoBind]
  BY <1>1 DEF P!BindGets
<1>4. /\ todo' \in [Caller -> Seq(SetCall)] /\ todo'[c] = <<e>> /\ \A x : x \in Elements(todo'[c]) <=> x = e
      /\ \A d \in Caller : d # c => todo'[d] = todo[d]
  <2>1. <<e>> \in Seq(SetCall) /\ Elements(<<e>>) = {e}
    BY <1>2 DEF Elements
  <2> QED
    BY <1>3, <2>1 DEF PropertyTypeOK
<1>5. /\ bind' \in [Caller -> [of : P!Properties \cup {P!Nobody}, at : {"out", "listen", "get"}]]
      /\ bind'[c].at = "out" /\ \A d \in Caller : d # c => bind'[d] = bind[d]
  <2>1. /\ P!NoBind \in [of : P!Properties \cup {P!Nobody}, at : {"out", "listen", "get"}]
        /\ P!NoBind.at = "out"
    BY DEF P!NoBind
  <2> QED
    BY <1>3, <2>1 DEF PropertyTypeOK
<1>6. PropertyTypeOK'
  BY <1>2, <1>4, <1>5 DEF PropertyTypeOK
<1>7. BindingOK'
  <2>1. \A d \in Caller : bind[d].at = "listen" => bind'[d] = bind[d]
    BY <1>2, <1>5
  <2>2. \A d \in Caller : bind'[d].at # "out" => d # c /\ bind'[d] = bind[d] /\ todo'[d] = todo[d]
    BY <1>4, <1>5
  <2>3. \A d \in Caller : \A x \in Elements(todo'[d]) : binding[x.of] # P!Nobody
    BY <1>1, <1>2, <1>4 DEF BindingOK
  <2> QED
    BY <1>2, <2>1, <2>2, <2>3 DEF BindingOK
<1>8. \A Z : Closed(Z)' <=> Closed(Z)
  BY <1>2 DEF Closed
<1>9. RestIsUnset'
  <2>. SUFFICES ASSUME NEW Z \in SUBSET P!Properties, Closed(Z), 1 \in Z
                PROVE  /\ \A x \in P!Properties \ Z : content[x] = P!Unset
                       /\ \A d \in Caller : \A x \in Elements(todo'[d]) : x.of \in Z \/ x.val = P!Unset
    BY <1>2, <1>8 DEF RestIsUnset
  <2>1. p \in Z \/ content[q] = P!Unset
    BY <1>1, <1>2 DEF Closed, RestIsUnset
  <2> QED
    BY <1>2, <1>4, <2>1 DEF RestIsUnset
<1>10. \A d \in Caller : P!InCall(d)' => P!InCall(d)
  BY <1>2, <1>4, <1>5 DEF P!InCall
<1>11. \A d \in Caller, x \in P!Properties : Pending(d, x) => Pending(d, x)'
  <2>1. ASSUME NEW x \in P!Properties, Pending(c, x)
        PROVE  Pending(c, x)'
    BY <1>1, <1>2, <1>4, <2>1 DEF Pending
  <2>2. ASSUME NEW d \in Caller, d # c, NEW x \in P!Properties, Pending(d, x)
        PROVE  Pending(d, x)'
    BY <1>4, <1>5, <2>2 DEF Pending
  <2> QED
    BY <2>1, <2>2
<1>12. ASSUME ~unsettled, NEW d \in Caller, NEW x \in Elements(todo'[d])
       PROVE  x.val = content[binding[x.of]] /\ \A y \in Elements(todo'[d]) : y.val = x.val
  BY <1>1, <1>2, <1>4, <1>12 DEF CascadeOK
<1>13. CascadeOK'
  BY <1>2, <1>8, <1>10, <1>11, <1>12 DEF CascadeOK
<1> QED
  BY <1>6, <1>7, <1>9, <1>13

LEMMA PropertyInit ==
  ASSUME P!Init
  PROVE  PropertyInv
<1>. USE PropertiesAre DEF P!Init
<1>1. PropertyTypeOK
  BY DEF PropertyTypeOK, P!NoBind
<1>2. \A c \in Caller : todo[c] = <<>> /\ Elements(todo[c]) = {} /\ bind[c].at = "out"
  BY DEF Elements, P!NoBind
<1>3. BindingOK
  BY <1>2 DEF BindingOK, Elements, P!Nobody
<1>4. RestIsUnset /\ CascadeOK
  BY <1>2 DEF RestIsUnset, CascadeOK, P!InCall
<1> QED
  BY <1>1, <1>3, <1>4 DEF PropertyInv

LEMMA PropertyStutters ==
  ASSUME PropertyInv, UNCHANGED P!vars
  PROVE  PropertyInv'
<1>1. UNCHANGED <<content, followers, binding, todo, bind, unsettled>>
  BY DEF P!vars
<1>2. PropertyTypeOK' /\ BindingOK'
  BY <1>1 DEF PropertyInv, PropertyTypeOK, BindingOK
<1>3. \A Z : Closed(Z)' <=> Closed(Z)
  BY <1>1 DEF Closed
<1>4. \A d \in Caller : (P!InCall(d)' <=> P!InCall(d)) /\ \A x : Pending(d, x)' <=> Pending(d, x)
  BY <1>1 DEF P!InCall, Pending
<1>5. RestIsUnset' /\ CascadeOK'
  BY <1>1, <1>3, <1>4 DEF PropertyInv, RestIsUnset, CascadeOK
<1> QED
  BY <1>2, <1>5 DEF PropertyInv

\* A bound property agrees with the one it is bound to whenever no call is under
\* way, except after calls that overlapped, and one Set that runs alone ends that
\* (Set and Bind, internal/kernel/property.go).
THEOREM BoundAgree == P!Spec => []BoundAgrees
<1>1. P!Init => PropertyInv
  BY PropertyInit
<1>2. PropertyInv /\ [P!Next]_(P!vars) => PropertyInv'
  BY PropertyStutters, SetSourceKeeps, CallListenerKeeps, BindKeeps, AddListenerKeeps, BindGetsKeeps
  DEF P!Next
<1>3. PropertyInv => BoundAgrees
  <2>. SUFFICES ASSUME PropertyInv, ~unsettled, \A c \in Caller : ~P!InCall(c)
                PROVE  \A p \in P!Properties : binding[p] # P!Nobody => content[p] = content[binding[p]]
    BY DEF BoundAgrees, P!BoundAgrees
  <2>1. \A c \in Caller : \A p : ~Pending(c, p)
    BY OutMeans DEF PropertyInv
  <2>2. {} \in SUBSET P!Properties /\ Closed({})
    BY DEF Closed
  <2> QED
    BY <2>1, <2>2 DEF PropertyInv, CascadeOK
<1> QED
  BY <1>1, <1>2, <1>3, PTL DEF P!Spec
==============================================================================
