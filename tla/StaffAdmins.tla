------------------------------ MODULE StaffAdmins ------------------------------
(***************************************************************************)
(* Changes of staff and staff groups (staff.service.ts) and the promise    *)
(* that an active administrator remains.  A change holds an advisory lock  *)
(* in one transaction (withRbacMutationLock) while it reads, counts and,   *)
(* in some operations, writes through other connections: when the          *)
(* transaction is timed out the lock is gone and the operation goes on.    *)
(*                                                                         *)
(* Names, departments, passwords and the sessions that a change ends       *)
(* (StaffSessions) are left out, and of permissions only whether the actor *)
(* is an administrator.                                                    *)
(***************************************************************************)
EXTENDS Naturals, FiniteSets

CONSTANTS
    Staff,
    Group,
    AdminGroup, \* the groups with isAdmin, which no update changes
    Request,    \* operations that may be under way at once
    None,
    MaxFaults   \* bound on transactions that time out and processes that die

VARIABLES
    staff,      \* isEnabled and staffGroupId
    group,      \* the groups that exist
    lock,       \* the holder of RBAC_MUTATION_LOCK_KEY
    request,    \* the operations
    late,       \* whether an operation wrote after its transaction was gone
    faults

vars == <<staff, group, lock, request, late, faults>>

Idle == [pc |-> "idle"]

Init ==
    /\ group = Group
    /\ staff \in [Staff -> [on : {TRUE}, group : AdminGroup]]
    /\ lock = None
    /\ request = [r \in Request |-> Idle]
    /\ late = FALSE
    /\ faults = 0

Active(s) == staff[s].on /\ staff[s].group \in AdminGroup

\* countEnabledAdmins
EnabledAdmins == Cardinality({s \in Staff : Active(s)})

Does(r, what) == request' = [request EXCEPT ![r] = what]

Goes(r, pc) == Does(r, [request[r] EXCEPT !.pc = pc])

Asked(kind, admin, of, g, on) ==
    [pc |-> "read", kind |-> kind, admin |-> admin, of |-> of, group |-> g, on |-> on]

\* update, which may leave the group or isEnabled out; disable; deleteGroup; createGroup.
\* Nothing is read before the lock is held but the principal.
Start(r) ==
    /\ request[r] = Idle /\ lock = None
    /\ lock' = r
    /\ \E admin \in BOOLEAN :
        \/ \E s \in Staff, g \in Group \cup {None}, on \in BOOLEAN \cup {None} :
                <<g, on>> # <<None, None>> /\ Does(r, Asked("update", admin, s, g, on))
        \/ \E s \in Staff : Does(r, Asked("disable", admin, s, None, FALSE))
        \/ \E kind \in {"deleteGroup", "createGroup"}, g \in Group :
                Does(r, Asked(kind, admin, None, g, None))
    /\ UNCHANGED <<staff, group, late, faults>>

Ends(r) == Does(r, Idle) /\ lock' = IF lock = r THEN None ELSE lock

\* assertGroupWithinActorAuthority, of the group that is left and the one that is entered.
Authorized(q) ==
    \/ q.admin
    \/ q.group \notin AdminGroup /\ (q.of # None => staff[q.of].group \notin AdminGroup)

\* What is checked is read once; the count follows it.
Read(r) ==
    /\ request[r].pc = "read"
    /\ LET q == request[r] IN
        IF Authorized(q) /\ (q.group \in group \/ q.group = None \/ q.kind = "createGroup")
        THEN Does(r, [pc |-> "check", kind |-> q.kind, of |-> q.of, group |-> q.group, on |-> q.on,
                      before |-> IF q.of = None THEN None ELSE staff[q.of]])
             /\ UNCHANGED lock
        ELSE Ends(r)
    /\ UNCHANGED <<staff, group, late, faults>>

\* assertNotRemovingLastAdmin: what was read was an active administrator and will not be.
RemovesAdmin(q) ==
    /\ q.before.on /\ q.before.group \in AdminGroup
    /\ q.on = FALSE \/ q.group \notin AdminGroup \cup {None}

\* Mutant: only disabling is looked at.
AllowedOnMove(q) ==
    CASE q.kind \in {"update", "disable"} -> (RemovesAdmin(q) /\ q.on = FALSE => EnabledAdmins > 1)
      [] q.kind = "deleteGroup" -> (q.group \in AdminGroup => Cardinality(group \cap AdminGroup) > 1)
                                   /\ \A s \in Staff : staff[s].group # q.group
      [] OTHER -> TRUE

Allowed(q) ==
    CASE q.kind \in {"update", "disable"} -> (RemovesAdmin(q) => EnabledAdmins > 1)
      [] q.kind = "deleteGroup" -> (q.group \in AdminGroup => Cardinality(group \cap AdminGroup) > 1)
                                   /\ \A s \in Staff : staff[s].group # q.group
      [] OTHER -> TRUE

Check(r) ==
    /\ request[r].pc = "check"
    /\ IF Allowed(request[r]) THEN Goes(r, "write") /\ UNCHANGED lock ELSE Ends(r)
    /\ UNCHANGED <<staff, group, late, faults>>

\* update writes in the transaction: without it the call throws.
WriteUpdate(r) ==
    /\ request[r].pc = "write" /\ request[r].kind = "update"
    /\ LET q == request[r] IN
        staff' = IF lock = r /\ q.group \in group \cup {None}
                 THEN [staff EXCEPT ![q.of].on = IF q.on = None THEN @ ELSE q.on,
                                    ![q.of].group = IF q.group = None THEN @ ELSE q.group]
                 ELSE staff
    /\ Ends(r)
    /\ UNCHANGED <<group, late, faults>>

Late(r) == late' = (late \/ lock # r)

\* The others write through this.prisma, then the transaction ends.
WriteDisable(r) ==
    /\ request[r].pc = "write" /\ request[r].kind = "disable"
    /\ staff' = [staff EXCEPT ![request[r].of].on = FALSE]
    /\ Late(r) /\ Ends(r)
    /\ UNCHANGED <<group, faults>>

\* The foreign key of Staff keeps a group that somebody has entered.
WriteDeleteGroup(r) ==
    /\ request[r].pc = "write" /\ request[r].kind = "deleteGroup"
    /\ IF \A s \in Staff : staff[s].group # request[r].group
       THEN group' = group \ {request[r].group} /\ Late(r)
       ELSE UNCHANGED <<group, late>>
    /\ Ends(r)
    /\ UNCHANGED <<staff, faults>>

WriteCreateGroup(r) ==
    /\ request[r].pc = "write" /\ request[r].kind = "createGroup"
    /\ group' = group \cup {request[r].group}
    /\ Late(r) /\ Ends(r)
    /\ UNCHANGED <<staff, faults>>

Faulty == faults < MaxFaults /\ faults' = faults + 1

\* Five seconds: the transaction is rolled back under the operation.
TimesOut(r) ==
    /\ lock = r /\ Faulty
    /\ lock' = None
    /\ UNCHANGED <<staff, group, request, late>>

Dies(r) ==
    /\ request[r].pc # "idle" /\ Faulty
    /\ Ends(r)
    /\ UNCHANGED <<staff, group, late>>

Next == \E r \in Request :
    \/ Start(r) \/ Read(r) \/ Check(r)
    \/ WriteUpdate(r) \/ WriteDisable(r) \/ WriteDeleteGroup(r) \/ WriteCreateGroup(r)
    \/ TimesOut(r) \/ Dies(r)

Spec == Init /\ [][Next]_vars
--------------------------------------------------------------------------------
TypeOK ==
    /\ staff \in [Staff -> [on : BOOLEAN, group : Group]]
    /\ group \subseteq Group
    /\ lock \in Request \cup {None}
    /\ \A r \in Request : request[r].pc \in {"idle", "read", "check", "write"}
    /\ late \in BOOLEAN

\* staff.service.ts: "Never strand the deployment without an administrator.  The
\* advisory lock makes this count-and-write sequence safe across API processes",
\* as long as no operation outlives its lock and writes; a transaction that is
\* timed out under an update, and a process that dies, do no harm.  Nobody is in a
\* group that does not exist, whatever happens.
AnAdminRemains ==
    /\ ~late => \E s \in Staff : Active(s)
    /\ \A s \in Staff : staff[s].group \in group

================================================================================
