---------------------------- MODULE MailboxAccess ----------------------------
(***************************************************************************)
(* Who belongs to one mailbox, and which member a thread of it is assigned *)
(* to: src/web/src/app/api/mailboxes/[id]/members and lib/assignments.ts.  *)
(*                                                                         *)
(* A handler checks in one statement and writes in a later one, on a       *)
(* database without a transaction around them, so a request is served in   *)
(* steps: it is sent, checked, and written.  The two statements of a check *)
(* on the last owner are one step: reading the role before the count can   *)
(* only refuse more.  Roles below "owner" are treated alike by this code,  *)
(* so "reader" is left out.                                                *)
(*                                                                         *)
(* races and removed are not in the code: they record which writes crossed *)
(* and who was ever removed, so that the properties can name the causes.   *)
(***************************************************************************)
EXTENDS Naturals, FiniteSets

CONSTANTS
    Users,          \* people who have, or may be given, access
    Creator,        \* the one who created the mailbox, its first owner
    Nobody,         \* no assignee
    Workers,        \* requests that can be in flight together
    MaxRequests     \* bound: requests served in a behaviour

ASSUME AccessAssumption ==
    Creator \in Users /\ Nobody \notin Users /\ MaxRequests \in Nat

VARIABLES
    role,           \* user_mailbox_access: user -> role, "none" without a row
    assignee,       \* thread_assignments of the thread, Nobody without a row
    claim,          \* number of the assignment the row holds
    closed,         \* resolved_at: 0, or the assignment its resolver had read
    job,            \* worker -> the request it serves
    at,             \* worker -> how far it is
    saw,            \* worker -> the number its handler remembers
    served,         \* requests sent so far
    races,          \* kinds of writes that crossed one another
    removed         \* users who were removed at some time

requestVars == <<job, at, saw, served>>
accessVars == <<role, assignee, claim, closed, requestVars, races, removed>>

Roles == {"owner", "member", "none"}
Owners == {u \in Users : role[u] = "owner"}
Stages == {"idle", "sent", "target", "write", "seed", "cards", "ok", "failed"}
Members == {u \in Users : role[u] # "none"}

\* A request; the columns its handler listed, and what the page that sent it
\* showed before, are for the board's.
Request(op, by, target, to) ==
    [op |-> op, by |-> by, target |-> target, to |-> to,
     page |-> FALSE, listed |-> <<>>, before |-> <<>>]
NoRequest == Request("none", Nobody, Nobody, "none")

AccessInit ==
    /\ role = [u \in Users |-> IF u = Creator THEN "owner" ELSE "none"]
    /\ assignee = Nobody /\ claim = 0 /\ closed = 0
    /\ job = [w \in Workers |-> NoRequest]
    /\ at = [w \in Workers |-> "idle"]
    /\ saw = [w \in Workers |-> 0]
    /\ served = 0
    /\ races = {}
    /\ removed = {}

Send(w, request) ==
    /\ at[w] = "idle"
    /\ served < MaxRequests
    /\ served' = served + 1
    /\ job' = [job EXCEPT ![w] = request]
    /\ at' = [at EXCEPT ![w] = "sent"]
    /\ UNCHANGED saw

\* A handler goes on with request r and number n; one that has ended forgets.
Learns(w, from, to, r, n) ==
    /\ at[w] = from
    /\ at' = [at EXCEPT ![w] = to]
    /\ job' = [job EXCEPT ![w] = IF to = "idle" THEN NoRequest ELSE r]
    /\ saw' = [saw EXCEPT ![w] = IF to = "idle" THEN 0 ELSE n]

Goes(w, from, to) == Learns(w, from, to, job[w], saw[w])

\* Another request of these kinds has passed its check and has yet to write.
Crossed(w, ops) == \E v \in Workers \ {w} : at[v] = "write" /\ job[v].op \in ops

Note(condition, kind) == races' = IF condition THEN races \union {kind} ELSE races

-----------------------------------------------------------------------------
(* The members' routes, for administrators.                                *)

MemberOps == {"role", "invite", "remove"}

\* Mutant: the other owners are counted as if they included this one.
IsLastOwnerMiscounted(u) == role[u] = "owner" /\ Owners = {}

IsLastOwner(u) == role[u] = "owner" /\ Owners \ {u} = {}

\* A request that may take ownership away.
Demoting(w) == job[w].op \in MemberOps /\ job[w].to # "owner"

AskMember(w) ==
    /\ \E u \in Users :
          \/ \E r \in Roles \ {"none"}, op \in {"role", "invite"} :
                Send(w, Request(op, Nobody, u, r))
          \/ Send(w, Request("remove", Nobody, u, "none"))
    /\ UNCHANGED <<role, assignee, claim, closed, races, removed>>

\* PATCH, DELETE and POST: each refuses to take away the last owner.
CheckMember(w) ==
    /\ job[w].op \in MemberOps
    /\ Goes(w, "sent",
            IF Demoting(w) /\ IsLastOwner(job[w].target) THEN "idle" ELSE "write")
    /\ UNCHANGED <<role, assignee, claim, closed, served, races, removed>>

\* The write itself is unconditional; an UPDATE finds no row of a stranger.
WriteMember(w) ==
    LET u == job[w].target
        misses == job[w].op # "invite" /\ role[u] = "none"
    IN  /\ job[w].op \in MemberOps
        /\ Goes(w, "write", "idle")
        /\ role' = IF misses THEN role ELSE [role EXCEPT ![u] = job[w].to]
        /\ removed' = IF job[w].op = "remove" THEN removed \union {u} ELSE removed
        /\ Note(Demoting(w) /\ \E v \in Workers \ {w} : at[v] = "write" /\ Demoting(v),
                "owners")
        /\ UNCHANGED <<assignee, claim, closed, served>>

-----------------------------------------------------------------------------
(* Assigning, unassigning, resolving and reopening the thread.             *)

AssignOps == {"assign", "unassign", "resolve", "reopen"}

AskAssign(w) ==
    /\ \E u \in Users :
          \/ \E v \in Users : Send(w, Request("assign", u, v, "none"))
          \/ \E op \in AssignOps \ {"assign"} : Send(w, Request(op, u, Nobody, "none"))
    /\ UNCHANGED <<role, assignee, claim, closed, races, removed>>

\* The caller's access, in one query with the row of the thread.
CheckAssign(w) ==
    LET granted ==
          /\ job[w].by \in Members
          /\ job[w].op \in {"resolve", "reopen"} => assignee # Nobody
          /\ job[w].op = "resolve" => closed = 0
          /\ job[w].op = "reopen" => closed # 0
        next == IF job[w].op = "assign" /\ job[w].target # job[w].by
                THEN "target" ELSE "write"
    IN  /\ job[w].op \in AssignOps
        /\ Learns(w, "sent", IF granted THEN next ELSE "idle",
                  job[w], claim)
        /\ UNCHANGED <<role, assignee, claim, closed, served, races, removed>>

\* Whoever assigns another asks for that member's access in a second query.
CheckAssignee(w) ==
    /\ Goes(w, "target", IF job[w].target \in Members THEN "write" ELSE "idle")
    /\ UNCHANGED <<role, assignee, claim, closed, served, races, removed>>

\* Mutant: the upsert leaves resolved_at as it was.
WriteAssignKeepsResolved(w) ==
    /\ job[w].op = "assign"
    /\ Goes(w, "write", "idle")
    /\ assignee' = job[w].target
    /\ claim' = claim + 1
    /\ Note(Crossed(w, {"resolve"}), "claims")
    /\ UNCHANGED <<role, closed, served, removed>>

WriteAssign(w) ==
    /\ job[w].op = "assign"
    /\ Goes(w, "write", "idle")
    /\ assignee' = job[w].target
    /\ claim' = claim + 1
    /\ closed' = 0
    /\ Note(Crossed(w, {"resolve"}), "claims")
    /\ UNCHANGED <<role, served, removed>>

WriteUnassign(w) ==
    /\ job[w].op = "unassign"
    /\ Goes(w, "write", "idle")
    /\ assignee' = Nobody
    /\ closed' = 0
    /\ UNCHANGED <<role, claim, served, races, removed>>

\* The UPDATE names the thread only: it closes whatever row is there by now.
WriteResolve(w) ==
    /\ job[w].op = "resolve"
    /\ Goes(w, "write", "idle")
    /\ closed' = IF assignee = Nobody THEN closed ELSE saw[w]
    /\ UNCHANGED <<role, assignee, claim, served, races, removed>>

WriteReopen(w) ==
    /\ job[w].op = "reopen"
    /\ Goes(w, "write", "idle")
    /\ closed' = 0
    /\ UNCHANGED <<role, assignee, claim, served, races, removed>>

AccessNext ==
    \E w \in Workers :
        \/ AskMember(w) \/ CheckMember(w) \/ WriteMember(w)
        \/ AskAssign(w) \/ CheckAssign(w) \/ CheckAssignee(w)
        \/ WriteAssign(w) \/ WriteUnassign(w) \/ WriteResolve(w) \/ WriteReopen(w)

AccessSpec == AccessInit /\ [][AccessNext]_accessVars

-----------------------------------------------------------------------------
AccessTypeOK ==
    /\ role \in [Users -> Roles]
    /\ assignee \in Users \union {Nobody}
    /\ claim \in Nat /\ closed \in Nat
    /\ at \in [Workers -> Stages]
    /\ DOMAIN saw = Workers
    /\ served \in Nat
    /\ removed \subseteq Users

\* The mailbox keeps an owner (the soft invariant of the members' routes)
\* unless two requests that take ownership away were both past their check.
OwnerRemains == Owners = {} => "owners" \in races

\* A thread is shown as resolved to the assignee its resolver saw: a new
\* assignee starts with an open thread, unless a resolve that had read the
\* earlier assignment was still to be written.
ResolvedAsSeen == closed # 0 => closed = claim \/ "claims" \in races

\* The thread is assigned to a member, or to one who was removed since:
\* nothing takes the assignment of a leaver away, but no stranger gets one.
AssignedToMembers == assignee \in Members \union removed \union {Nobody}
=============================================================================
