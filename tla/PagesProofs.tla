----------------------------- MODULE PagesProofs -----------------------------
(***************************************************************************)
(* Members, assignments and the board of a mailbox, and the inbox page,    *)
(* for any number of people, threads and requests in flight.               *)
(*                                                                         *)
(* First TeamBoard: an owner remains, a thread is resolved for the         *)
(* assignee its resolver saw, and assigned to members, unless the writes   *)
(* crossed; and the same with the board beside them, where a deleted       *)
(* column stays gone, and the page shows what a reload would.              *)
(*                                                                         *)
(* Then InboxPage: the cards of the triage deck, the flags of the toolbar, *)
(* and what becomes of the last wish about a thread.                       *)
(***************************************************************************)
EXTENDS TeamBoard, InboxPage, FiniteSetTheorems, SequenceTheorems, TLAPS

(***************************************************************************)
(* What the requests carry: a member's role is taken away only by the      *)
(* route that removes the member, and only an assignment has a second      *)
(* check.                                                                  *)
(***************************************************************************)
RequestOK(w) ==
    /\ job[w].op \in MemberOps =>
          /\ job[w].target \in Users
          /\ job[w].to \in Roles
          /\ job[w].to = "none" => job[w].op = "remove"
    /\ job[w].op = "assign" => job[w].target \in Users
    /\ at[w] = "target" => job[w].op = "assign"
    /\ at[w] = "write" /\ job[w].op = "resolve" => saw[w] \in Nat
    /\ DOMAIN job[w] = DOMAIN NoRequest

RequestsOK == DOMAIN job = Workers /\ \A w \in Workers : RequestOK(w)

(***************************************************************************)
(* Who is past its check saw another owner, and nobody has taken that one  *)
(* away since: its write would have met this one pending.                  *)
(***************************************************************************)
OwnersGuarded ==
    "owners" \in races
    \/ /\ Owners # {}
       /\ \A w \in Workers :
            at[w] = "write" /\ Demoting(w) => Owners \ {job[w].target} # {}

(***************************************************************************)
(* A resolve past its check has read the assignment there is.              *)
(***************************************************************************)
ResolvesGuarded ==
    /\ ResolvedAsSeen
    /\ "claims" \notin races =>
        \A w \in Workers :
            at[w] = "write" /\ job[w].op = "resolve" => saw[w] = claim

(***************************************************************************)
(* An assignment past its checks names a member, or one removed since.     *)
(***************************************************************************)
AssignsGuarded ==
    /\ AssignedToMembers
    /\ \A w \in Workers :
        at[w] = "write" /\ job[w].op = "assign" => job[w].target \in Members \union removed

IInv == AccessTypeOK /\ RequestsOK /\ OwnersGuarded /\ ResolvesGuarded /\ AssignsGuarded

LEMMA InitGuarded == AccessInit => IInv
<1> SUFFICES ASSUME AccessInit
             PROVE  IInv
  OBVIOUS
<1> USE AccessAssumption DEF AccessInit
<1>1. AccessTypeOK
  BY DEF AccessTypeOK, Roles, Stages
<1>2. RequestsOK
  BY DEF RequestsOK, RequestOK, MemberOps, Request, NoRequest
<1>3. OwnersGuarded
  BY DEF OwnersGuarded, Owners
<1>4. ResolvesGuarded
  BY DEF ResolvesGuarded, ResolvedAsSeen
<1>5. AssignsGuarded
  BY DEF AssignsGuarded, AssignedToMembers
<1> QED
  BY <1>1, <1>2, <1>3, <1>4, <1>5 DEF IInv

LEMMA TypeStep ==
    AccessTypeOK /\ RequestsOK /\ [AccessNext]_accessVars => AccessTypeOK'
<1> SUFFICES ASSUME AccessTypeOK, RequestsOK, [AccessNext]_accessVars
             PROVE  AccessTypeOK'
  OBVIOUS
<1> USE AccessAssumption
    DEF AccessTypeOK, Stages, RequestsOK, RequestOK, Roles, MemberOps, AssignOps, Request, NoRequest
<1>1. CASE UNCHANGED accessVars
  BY <1>1 DEF accessVars, requestVars
<1>2. ASSUME NEW w \in Workers, AskMember(w)
      PROVE  AccessTypeOK'
  <2>1. UNCHANGED <<role, assignee, claim, closed, races, removed>>
    BY <1>2 DEF AskMember
  <2>2. PICK r : Send(w, r)
    BY <1>2 DEF AskMember
  <2> QED
    BY <2>1, <2>2 DEF Send
<1>3. ASSUME NEW w \in Workers, CheckMember(w)
      PROVE  AccessTypeOK'
  BY <1>3 DEF CheckMember, Goes, Learns
<1>4. ASSUME NEW w \in Workers, WriteMember(w)
      PROVE  AccessTypeOK'
  BY <1>4 DEF WriteMember, Goes, Learns
<1>5. ASSUME NEW w \in Workers, AskAssign(w)
      PROVE  AccessTypeOK'
  BY <1>5 DEF AskAssign, Send
<1>6. ASSUME NEW w \in Workers, CheckAssign(w)
      PROVE  AccessTypeOK'
  BY <1>6 DEF CheckAssign, Learns
<1>7. ASSUME NEW w \in Workers, CheckAssignee(w)
      PROVE  AccessTypeOK'
  BY <1>7 DEF CheckAssignee, Goes, Learns
<1>8. ASSUME NEW w \in Workers, WriteAssign(w)
      PROVE  AccessTypeOK'
  BY <1>8 DEF WriteAssign, Goes, Learns
<1>9. ASSUME NEW w \in Workers, WriteUnassign(w)
      PROVE  AccessTypeOK'
  BY <1>9 DEF WriteUnassign, Goes, Learns
<1>10. ASSUME NEW w \in Workers, WriteResolve(w)
      PROVE  AccessTypeOK'
  BY <1>10 DEF WriteResolve, Goes, Learns
<1>11. ASSUME NEW w \in Workers, WriteReopen(w)
      PROVE  AccessTypeOK'
  BY <1>11 DEF WriteReopen, Goes, Learns
<1> QED
  BY <1>1, <1>2, <1>3, <1>4, <1>5, <1>6, <1>7, <1>8,
     <1>9, <1>10, <1>11 DEF AccessNext

LEMMA RequestsStep ==
    AccessTypeOK /\ RequestsOK /\ [AccessNext]_accessVars => RequestsOK'
<1> SUFFICES ASSUME AccessTypeOK, RequestsOK, [AccessNext]_accessVars
             PROVE  RequestsOK'
  OBVIOUS
<1> USE AccessAssumption
    DEF AccessTypeOK, Stages, RequestsOK, RequestOK, Roles, MemberOps, AssignOps, Request, NoRequest
<1>1. CASE UNCHANGED accessVars
  BY <1>1 DEF accessVars, requestVars
<1>2. ASSUME NEW w \in Workers, AskMember(w)
      PROVE  RequestsOK'
  <2>1. DOMAIN job' = Workers
    BY <1>2 DEF AskMember, Send
  <2>2. ASSUME NEW v \in Workers
        PROVE  RequestOK(v)'
    <3>1. CASE v = w
      BY <1>2, <3>1 DEF AskMember, Send
    <3>2. CASE v # w
      <4>1. job'[v] = job[v] /\ at'[v] = at[v] /\ saw'[v] = saw[v]
        BY <1>2, <3>2 DEF AskMember, Send
      <4> QED
        BY <4>1
    <3> QED
      BY <3>1, <3>2
  <2> QED
    BY <2>1, <2>2
<1>3. ASSUME NEW w \in Workers, CheckMember(w)
      PROVE  RequestsOK'
  <2>1. DOMAIN job' = Workers
    BY <1>3 DEF CheckMember, Goes, Learns
  <2>2. ASSUME NEW v \in Workers
        PROVE  RequestOK(v)'
    <3>1. CASE v = w
      <4>1. (job'[v] = NoRequest /\ at'[v] = "idle") \/ job'[v] = job[v]
        BY <1>3, <3>1 DEF CheckMember, Goes, Learns
      <4>2. at'[v] = "target" => job'[v].op = "assign"
        BY <1>3, <3>1 DEF CheckMember, Goes, Learns
      <4>3. at'[v] = "write" /\ job'[v].op = "resolve" => saw'[v] \in Nat
        BY <1>3, <3>1 DEF CheckMember, Goes, Learns
      <4> QED
        BY <4>1, <4>2, <4>3
    <3>2. CASE v # w
      <4>1. job'[v] = job[v] /\ at'[v] = at[v] /\ saw'[v] = saw[v]
        BY <1>3, <3>2 DEF CheckMember, Goes, Learns
      <4> QED
        BY <4>1
    <3> QED
      BY <3>1, <3>2
  <2> QED
    BY <2>1, <2>2
<1>4. ASSUME NEW w \in Workers, WriteMember(w)
      PROVE  RequestsOK'
  <2>1. DOMAIN job' = Workers
    BY <1>4 DEF WriteMember, Goes, Learns
  <2>2. ASSUME NEW v \in Workers
        PROVE  RequestOK(v)'
    <3>1. CASE v = w
      <4>1. (job'[v] = NoRequest /\ at'[v] = "idle") \/ job'[v] = job[v]
        BY <1>4, <3>1 DEF WriteMember, Goes, Learns
      <4>2. at'[v] = "target" => job'[v].op = "assign"
        BY <1>4, <3>1 DEF WriteMember, Goes, Learns
      <4>3. at'[v] = "write" /\ job'[v].op = "resolve" => saw'[v] \in Nat
        BY <1>4, <3>1 DEF WriteMember, Goes, Learns
      <4> QED
        BY <4>1, <4>2, <4>3
    <3>2. CASE v # w
      <4>1. job'[v] = job[v] /\ at'[v] = at[v] /\ saw'[v] = saw[v]
        BY <1>4, <3>2 DEF WriteMember, Goes, Learns
      <4> QED
        BY <4>1
    <3> QED
      BY <3>1, <3>2
  <2> QED
    BY <2>1, <2>2
<1>5. ASSUME NEW w \in Workers, AskAssign(w)
      PROVE  RequestsOK'
  <2>1. DOMAIN job' = Workers
    BY <1>5 DEF AskAssign, Send
  <2>2. ASSUME NEW v \in Workers
        PROVE  RequestOK(v)'
    <3>1. CASE v = w
      BY <1>5, <3>1 DEF AskAssign, Send
    <3>2. CASE v # w
      <4>1. job'[v] = job[v] /\ at'[v] = at[v] /\ saw'[v] = saw[v]
        BY <1>5, <3>2 DEF AskAssign, Send
      <4> QED
        BY <4>1
    <3> QED
      BY <3>1, <3>2
  <2> QED
    BY <2>1, <2>2
<1>6. ASSUME NEW w \in Workers, CheckAssign(w)
      PROVE  RequestsOK'
  <2>1. DOMAIN job' = Workers
    BY <1>6 DEF CheckAssign, Learns
  <2>2. ASSUME NEW v \in Workers
        PROVE  RequestOK(v)'
    <3>1. CASE v = w
      <4>1. (job'[v] = NoRequest /\ at'[v] = "idle") \/ job'[v] = job[v]
        BY <1>6, <3>1 DEF CheckAssign, Learns
      <4>2. at'[v] = "target" => job'[v].op = "assign"
        BY <1>6, <3>1 DEF CheckAssign, Learns
      <4>3. at'[v] = "write" /\ job'[v].op = "resolve" => saw'[v] \in Nat
        BY <1>6, <3>1 DEF CheckAssign, Learns
      <4> QED
        BY <4>1, <4>2, <4>3
    <3>2. CASE v # w
      <4>1. job'[v] = job[v] /\ at'[v] = at[v] /\ saw'[v] = saw[v]
        BY <1>6, <3>2 DEF CheckAssign, Learns
      <4> QED
        BY <4>1
    <3> QED
      BY <3>1, <3>2
  <2> QED
    BY <2>1, <2>2
<1>7. ASSUME NEW w \in Workers, CheckAssignee(w)
      PROVE  RequestsOK'
  <2>1. DOMAIN job' = Workers
    BY <1>7 DEF CheckAssignee, Goes, Learns
  <2>2. ASSUME NEW v \in Workers
        PROVE  RequestOK(v)'
    <3>1. CASE v = w
      <4>1. (job'[v] = NoRequest /\ at'[v] = "idle") \/ job'[v] = job[v]
        BY <1>7, <3>1 DEF CheckAssignee, Goes, Learns
      <4>2. at'[v] = "target" => job'[v].op = "assign"
        BY <1>7, <3>1 DEF CheckAssignee, Goes, Learns
      <4>3. at'[v] = "write" /\ job'[v].op = "resolve" => saw'[v] \in Nat
        BY <1>7, <3>1 DEF CheckAssignee, Goes, Learns
      <4> QED
        BY <4>1, <4>2, <4>3
    <3>2. CASE v # w
      <4>1. job'[v] = job[v] /\ at'[v] = at[v] /\ saw'[v] = saw[v]
        BY <1>7, <3>2 DEF CheckAssignee, Goes, Learns
      <4> QED
        BY <4>1
    <3> QED
      BY <3>1, <3>2
  <2> QED
    BY <2>1, <2>2
<1>8. ASSUME NEW w \in Workers, WriteAssign(w)
      PROVE  RequestsOK'
  <2>1. DOMAIN job' = Workers
    BY <1>8 DEF WriteAssign, Goes, Learns
  <2>2. ASSUME NEW v \in Workers
        PROVE  RequestOK(v)'
    <3>1. CASE v = w
      <4>1. (job'[v] = NoRequest /\ at'[v] = "idle") \/ job'[v] = job[v]
        BY <1>8, <3>1 DEF WriteAssign, Goes, Learns
      <4>2. at'[v] = "target" => job'[v].op = "assign"
        BY <1>8, <3>1 DEF WriteAssign, Goes, Learns
      <4>3. at'[v] = "write" /\ job'[v].op = "resolve" => saw'[v] \in Nat
        BY <1>8, <3>1 DEF WriteAssign, Goes, Learns
      <4> QED
        BY <4>1, <4>2, <4>3
    <3>2. CASE v # w
      <4>1. job'[v] = job[v] /\ at'[v] = at[v] /\ saw'[v] = saw[v]
        BY <1>8, <3>2 DEF WriteAssign, Goes, Learns
      <4> QED
        BY <4>1
    <3> QED
      BY <3>1, <3>2
  <2> QED
    BY <2>1, <2>2
<1>9. ASSUME NEW w \in Workers, WriteUnassign(w)
      PROVE  RequestsOK'
  <2>1. DOMAIN job' = Workers
    BY <1>9 DEF WriteUnassign, Goes, Learns
  <2>2. ASSUME NEW v \in Workers
        PROVE  RequestOK(v)'
    <3>1. CASE v = w
      <4>1. (job'[v] = NoRequest /\ at'[v] = "idle") \/ job'[v] = job[v]
        BY <1>9, <3>1 DEF WriteUnassign, Goes, Learns
      <4>2. at'[v] = "target" => job'[v].op = "assign"
        BY <1>9, <3>1 DEF WriteUnassign, Goes, Learns
      <4>3. at'[v] = "write" /\ job'[v].op = "resolve" => saw'[v] \in Nat
        BY <1>9, <3>1 DEF WriteUnassign, Goes, Learns
      <4> QED
        BY <4>1, <4>2, <4>3
    <3>2. CASE v # w
      <4>1. job'[v] = job[v] /\ at'[v] = at[v] /\ saw'[v] = saw[v]
        BY <1>9, <3>2 DEF WriteUnassign, Goes, Learns
      <4> QED
        BY <4>1
    <3> QED
      BY <3>1, <3>2
  <2> QED
    BY <2>1, <2>2
<1>10. ASSUME NEW w \in Workers, WriteResolve(w)
      PROVE  RequestsOK'
  <2>1. DOMAIN job' = Workers
    BY <1>10 DEF WriteResolve, Goes, Learns
  <2>2. ASSUME NEW v \in Workers
        PROVE  RequestOK(v)'
    <3>1. CASE v = w
      <4>1. (job'[v] = NoRequest /\ at'[v] = "idle") \/ job'[v] = job[v]
        BY <1>10, <3>1 DEF WriteResolve, Goes, Learns
      <4>2. at'[v] = "target" => job'[v].op = "assign"
        BY <1>10, <3>1 DEF WriteResolve, Goes, Learns
      <4>3. at'[v] = "write" /\ job'[v].op = "resolve" => saw'[v] \in Nat
        BY <1>10, <3>1 DEF WriteResolve, Goes, Learns
      <4> QED
        BY <4>1, <4>2, <4>3
    <3>2. CASE v # w
      <4>1. job'[v] = job[v] /\ at'[v] = at[v] /\ saw'[v] = saw[v]
        BY <1>10, <3>2 DEF WriteResolve, Goes, Learns
      <4> QED
        BY <4>1
    <3> QED
      BY <3>1, <3>2
  <2> QED
    BY <2>1, <2>2
<1>11. ASSUME NEW w \in Workers, WriteReopen(w)
      PROVE  RequestsOK'
  <2>1. DOMAIN job' = Workers
    BY <1>11 DEF WriteReopen, Goes, Learns
  <2>2. ASSUME NEW v \in Workers
        PROVE  RequestOK(v)'
    <3>1. CASE v = w
      <4>1. (job'[v] = NoRequest /\ at'[v] = "idle") \/ job'[v] = job[v]
        BY <1>11, <3>1 DEF WriteReopen, Goes, Learns
      <4>2. at'[v] = "target" => job'[v].op = "assign"
        BY <1>11, <3>1 DEF WriteReopen, Goes, Learns
      <4>3. at'[v] = "write" /\ job'[v].op = "resolve" => saw'[v] \in Nat
        BY <1>11, <3>1 DEF WriteReopen, Goes, Learns
      <4> QED
        BY <4>1, <4>2, <4>3
    <3>2. CASE v # w
      <4>1. job'[v] = job[v] /\ at'[v] = at[v] /\ saw'[v] = saw[v]
        BY <1>11, <3>2 DEF WriteReopen, Goes, Learns
      <4> QED
        BY <4>1
    <3> QED
      BY <3>1, <3>2
  <2> QED
    BY <2>1, <2>2
<1> QED
  BY <1>1, <1>2, <1>3, <1>4, <1>5, <1>6, <1>7, <1>8,
     <1>9, <1>10, <1>11 DEF AccessNext

LEMMA OwnersStep ==
    AccessTypeOK /\ RequestsOK /\ OwnersGuarded /\ [AccessNext]_accessVars => OwnersGuarded'
<1> SUFFICES ASSUME AccessTypeOK, RequestsOK, OwnersGuarded, [AccessNext]_accessVars
             PROVE  OwnersGuarded'
  OBVIOUS
<1> USE AccessAssumption
    DEF AccessTypeOK, Stages, RequestsOK, RequestOK, Roles, MemberOps, AssignOps, Request, NoRequest,
        OwnersGuarded, Owners, Demoting, Note, IsLastOwner
<1>1. CASE UNCHANGED accessVars
  BY <1>1 DEF accessVars, requestVars
<1>2. ASSUME NEW w \in Workers, AskMember(w)
      PROVE  OwnersGuarded'
  <2>1. UNCHANGED <<role, assignee, claim, closed, races, removed>>
    BY <1>2 DEF AskMember
  <2>2. PICK r : Send(w, r)
    BY <1>2 DEF AskMember
  <2> QED
    BY <2>1, <2>2 DEF Send
<1>3. ASSUME NEW w \in Workers, CheckMember(w)
      PROVE  OwnersGuarded'
  BY <1>3 DEF CheckMember, Goes, Learns
<1>4. ASSUME NEW w \in Workers, WriteMember(w)
      PROVE  OwnersGuarded'
  BY <1>4 DEF WriteMember, Goes, Learns
<1>5. ASSUME NEW w \in Workers, AskAssign(w)
      PROVE  OwnersGuarded'
  <2>1. UNCHANGED <<role, assignee, claim, closed, races, removed>>
    BY <1>5 DEF AskAssign
  <2>2. PICK r : Send(w, r)
    BY <1>5 DEF AskAssign
  <2> QED
    BY <2>1, <2>2 DEF Send
<1>6. ASSUME NEW w \in Workers, CheckAssign(w)
      PROVE  OwnersGuarded'
  BY <1>6 DEF CheckAssign, Learns
<1>7. ASSUME NEW w \in Workers, CheckAssignee(w)
      PROVE  OwnersGuarded'
  BY <1>7 DEF CheckAssignee, Goes, Learns
<1>8. ASSUME NEW w \in Workers, WriteAssign(w)
      PROVE  OwnersGuarded'
  BY <1>8 DEF WriteAssign, Goes, Learns
<1>9. ASSUME NEW w \in Workers, WriteUnassign(w)
      PROVE  OwnersGuarded'
  BY <1>9 DEF WriteUnassign, Goes, Learns
<1>10. ASSUME NEW w \in Workers, WriteResolve(w)
      PROVE  OwnersGuarded'
  BY <1>10 DEF WriteResolve, Goes, Learns
<1>11. ASSUME NEW w \in Workers, WriteReopen(w)
      PROVE  OwnersGuarded'
  BY <1>11 DEF WriteReopen, Goes, Learns
<1> QED
  BY <1>1, <1>2, <1>3, <1>4, <1>5, <1>6, <1>7, <1>8,
     <1>9, <1>10, <1>11 DEF AccessNext

LEMMA ResolvesStep ==
    AccessTypeOK /\ RequestsOK /\ ResolvesGuarded /\ [AccessNext]_accessVars => ResolvesGuarded'
<1> SUFFICES ASSUME AccessTypeOK, RequestsOK, ResolvesGuarded, [AccessNext]_accessVars
             PROVE  ResolvesGuarded'
  OBVIOUS
<1> USE AccessAssumption
    DEF AccessTypeOK, Stages, RequestsOK, RequestOK, Roles, MemberOps, AssignOps, Request, NoRequest,
        ResolvesGuarded, ResolvedAsSeen, Note, Crossed
<1>1. CASE UNCHANGED accessVars
  BY <1>1 DEF accessVars, requestVars
<1>2. ASSUME NEW w \in Workers, AskMember(w)
      PROVE  ResolvesGuarded'
  <2>1. UNCHANGED <<role, assignee, claim, closed, races, removed>>
    BY <1>2 DEF AskMember
  <2>2. PICK r : Send(w, r)
    BY <1>2 DEF AskMember
  <2> QED
    BY <2>1, <2>2 DEF Send
<1>3. ASSUME NEW w \in Workers, CheckMember(w)
      PROVE  ResolvesGuarded'
  BY <1>3 DEF CheckMember, Goes, Learns
<1>4. ASSUME NEW w \in Workers, WriteMember(w)
      PROVE  ResolvesGuarded'
  BY <1>4 DEF WriteMember, Goes, Learns
<1>5. ASSUME NEW w \in Workers, AskAssign(w)
      PROVE  ResolvesGuarded'
  <2>1. UNCHANGED <<role, assignee, claim, closed, races, removed>>
    BY <1>5 DEF AskAssign
  <2>2. PICK r : Send(w, r)
    BY <1>5 DEF AskAssign
  <2> QED
    BY <2>1, <2>2 DEF Send
<1>6. ASSUME NEW w \in Workers, CheckAssign(w)
      PROVE  ResolvesGuarded'
  BY <1>6 DEF CheckAssign, Learns
<1>7. ASSUME NEW w \in Workers, CheckAssignee(w)
      PROVE  ResolvesGuarded'
  BY <1>7 DEF CheckAssignee, Goes, Learns
<1>8. ASSUME NEW w \in Workers, WriteAssign(w)
      PROVE  ResolvesGuarded'
  BY <1>8 DEF WriteAssign, Goes, Learns
<1>9. ASSUME NEW w \in Workers, WriteUnassign(w)
      PROVE  ResolvesGuarded'
  BY <1>9 DEF WriteUnassign, Goes, Learns
<1>10. ASSUME NEW w \in Workers, WriteResolve(w)
      PROVE  ResolvesGuarded'
  BY <1>10 DEF WriteResolve, Goes, Learns
<1>11. ASSUME NEW w \in Workers, WriteReopen(w)
      PROVE  ResolvesGuarded'
  BY <1>11 DEF WriteReopen, Goes, Learns
<1> QED
  BY <1>1, <1>2, <1>3, <1>4, <1>5, <1>6, <1>7, <1>8,
     <1>9, <1>10, <1>11 DEF AccessNext

LEMMA AssignsStep ==
    AccessTypeOK /\ RequestsOK /\ AssignsGuarded /\ [AccessNext]_accessVars => AssignsGuarded'
<1> SUFFICES ASSUME AccessTypeOK, RequestsOK, AssignsGuarded, [AccessNext]_accessVars
             PROVE  AssignsGuarded'
  OBVIOUS
<1> USE AccessAssumption
    DEF AccessTypeOK, Stages, RequestsOK, RequestOK, Roles, MemberOps, AssignOps, Request, NoRequest,
        AssignsGuarded, AssignedToMembers, Members
<1>1. CASE UNCHANGED accessVars
  BY <1>1 DEF accessVars, requestVars
<1>2. ASSUME NEW w \in Workers, AskMember(w)
      PROVE  AssignsGuarded'
  <2>1. UNCHANGED <<role, assignee, claim, closed, races, removed>>
    BY <1>2 DEF AskMember
  <2>2. PICK r : Send(w, r)
    BY <1>2 DEF AskMember
  <2> QED
    BY <2>1, <2>2 DEF Send
<1>3. ASSUME NEW w \in Workers, CheckMember(w)
      PROVE  AssignsGuarded'
  BY <1>3 DEF CheckMember, Goes, Learns
<1>4. ASSUME NEW w \in Workers, WriteMember(w)
      PROVE  AssignsGuarded'
  BY <1>4 DEF WriteMember, Goes, Learns
<1>5. ASSUME NEW w \in Workers, AskAssign(w)
      PROVE  AssignsGuarded'
  BY <1>5 DEF AskAssign, Send
<1>6. ASSUME NEW w \in Workers, CheckAssign(w)
      PROVE  AssignsGuarded'
  BY <1>6 DEF CheckAssign, Learns
<1>7. ASSUME NEW w \in Workers, CheckAssignee(w)
      PROVE  AssignsGuarded'
  BY <1>7 DEF CheckAssignee, Goes, Learns
<1>8. ASSUME NEW w \in Workers, WriteAssign(w)
      PROVE  AssignsGuarded'
  BY <1>8 DEF WriteAssign, Goes, Learns
<1>9. ASSUME NEW w \in Workers, WriteUnassign(w)
      PROVE  AssignsGuarded'
  BY <1>9 DEF WriteUnassign, Goes, Learns
<1>10. ASSUME NEW w \in Workers, WriteResolve(w)
      PROVE  AssignsGuarded'
  BY <1>10 DEF WriteResolve, Goes, Learns
<1>11. ASSUME NEW w \in Workers, WriteReopen(w)
      PROVE  AssignsGuarded'
  BY <1>11 DEF WriteReopen, Goes, Learns
<1> QED
  BY <1>1, <1>2, <1>3, <1>4, <1>5, <1>6, <1>7, <1>8,
     <1>9, <1>10, <1>11 DEF AccessNext

THEOREM Guarded == AccessSpec => []IInv
<1>1. AccessInit => IInv
  BY InitGuarded
<1>2. IInv /\ [AccessNext]_accessVars => IInv'
  BY TypeStep, RequestsStep, OwnersStep, ResolvesStep, AssignsStep DEF IInv
<1> QED
  BY <1>1, <1>2, PTL DEF AccessSpec

\* However many administrators act at once, an owner remains unless two
\* requests that take ownership away were both past their check.
THEOREM OwnerRemainsAlways == AccessSpec => []OwnerRemains
<1>1. IInv => OwnerRemains
  BY DEF IInv, OwnersGuarded, OwnerRemains
<1> QED
  BY <1>1, Guarded, PTL

\* A new assignee starts with an open thread, unless a resolve that had read
\* the earlier assignment was still to be written.
THEOREM ResolvedAsSeenAlways == AccessSpec => []ResolvedAsSeen
<1>1. IInv => ResolvedAsSeen
  BY DEF IInv, ResolvesGuarded
<1> QED
  BY <1>1, Guarded, PTL

\* No thread is ever assigned to somebody who was not a member.
THEOREM AssignedToMembersAlways == AccessSpec => []AssignedToMembers
<1>1. IInv => AssignedToMembers
  BY DEF IInv, AssignsGuarded
<1> QED
  BY <1>1, Guarded, PTL

(***************************************************************************)
(* The board.  What a step of worker w for the board leaves of the members *)
(* and of the requests: it starts a request of the board's, ends one, or   *)
(* goes on with the one it has.                                            *)
(***************************************************************************)
Continues(w) ==
    \/ job'[w] = NoRequest
    \/ job'[w].op = job[w].op /\ job'[w].target = job[w].target /\ job'[w].to = job[w].to

BoardEffect(w) ==
    /\ UNCHANGED memberVars /\ races \subseteq races' /\ served' \in Nat
    /\ DOMAIN job' = Workers /\ DOMAIN saw' = Workers
    /\ \E s \in Stages \ {"target"} : at' = [at EXCEPT ![w] = s]
    /\ \A v \in Workers \ {w} : job'[v] = job[v] /\ saw'[v] = saw[v]
    /\ DOMAIN job'[w] = DOMAIN NoRequest
    /\ Continues(w) \/ job'[w].op \in BoardOps \union {"load"}
    /\ at'[w] = "write" => job'[w].op \in BoardOps

LEMMA ListedRequest ==
    ASSUME NEW r, DOMAIN r = DOMAIN NoRequest, NEW l
    PROVE  LET q == [r EXCEPT !.listed = l]
           IN  /\ DOMAIN q = DOMAIN NoRequest
               /\ q.op = r.op /\ q.target = r.target /\ q.to = r.to
BY DEF NoRequest, Request

LEMMA SentEffect ==
    ASSUME AccessTypeOK, RequestsOK, NEW w \in Workers, NEW r, Send(w, r),
           UNCHANGED <<memberVars, races>>,
           DOMAIN r = DOMAIN NoRequest, r.op \in BoardOps \union {"load"}
    PROVE  BoardEffect(w)
<1> USE DEF AccessTypeOK, RequestsOK, Send
<1>1. "sent" \in Stages \ {"target"} /\ at' = [at EXCEPT ![w] = "sent"]
  BY DEF Stages
<1>2. job' = [job EXCEPT ![w] = r] /\ saw' = saw /\ served' \in Nat
  BY DEF AccessTypeOK
<1> QED
  BY <1>1, <1>2 DEF BoardEffect, memberVars

LEMMA LearntEffect ==
    ASSUME AccessTypeOK, RequestsOK, NEW w \in Workers,
           NEW s, NEW t \in Stages \ {"target", "write"}, NEW l, NEW n,
           Learns(w, s, t, [job[w] EXCEPT !.listed = l], n),
           UNCHANGED <<memberVars, races, served>>
    PROVE  BoardEffect(w)
<1>1. DOMAIN job[w] = DOMAIN NoRequest
  BY DEF RequestsOK, RequestOK
<1> QED
  BY <1>1, ListedRequest
     DEF AccessTypeOK, RequestsOK, BoardEffect, Continues, memberVars, Learns

LEMMA BoardSteps ==
    AccessTypeOK /\ RequestsOK /\ BoardNext => \E w \in Workers : BoardEffect(w)
<1> SUFFICES ASSUME AccessTypeOK, RequestsOK, BoardNext
             PROVE  \E w \in Workers : BoardEffect(w)
  OBVIOUS
<1> USE DEF AccessTypeOK, Stages, RequestsOK, BoardEffect, Continues, memberVars, BoardOps
<1>1. ASSUME NEW w \in Workers, AskBoard(w)
      PROVE  BoardEffect(w)
  <2>1. PICK op, u, t, c :
         op \in BoardOps \union {"load"} /\ Send(w, Request(op, u, t, c))
    BY <1>1 DEF AskBoard
  <2>2. UNCHANGED <<memberVars, races>>
    BY <1>1 DEF AskBoard
  <2> QED
    BY <2>1, <2>2, SentEffect DEF Request, NoRequest
<1>2. ASSUME NEW w \in Workers, PageLoad(w)
      PROVE  BoardEffect(w)
  <2>1. PICK op, u, t, c :
         op \in BoardOps \union {"load"} /\ PageAsks(w, Request(op, u, t, c))
    BY <1>2 DEF PageLoad
  <2>2. PICK p, b : Send(w, [Request(op, u, t, c) EXCEPT !.page = p, !.before = b])
    BY <2>1 DEF PageAsks
  <2> QED
    BY <2>1, <2>2, SentEffect DEF PageAsks, Request, NoRequest
<1>3. ASSUME NEW w \in Workers, PageMove(w)
      PROVE  BoardEffect(w)
  <2>1. PICK op, u, t, c :
         op \in BoardOps \union {"load"} /\ PageAsks(w, Request(op, u, t, c))
    BY <1>3 DEF PageMove
  <2>2. PICK p, b : Send(w, [Request(op, u, t, c) EXCEPT !.page = p, !.before = b])
    BY <2>1 DEF PageAsks
  <2> QED
    BY <2>1, <2>2, SentEffect DEF PageAsks, Request, NoRequest
<1>4. ASSUME NEW w \in Workers, PageCreate(w)
      PROVE  BoardEffect(w)
  <2>1. PICK op, u, t, c :
         op \in BoardOps \union {"load"} /\ PageAsks(w, Request(op, u, t, c))
    BY <1>4 DEF PageCreate
  <2>2. PICK p, b : Send(w, [Request(op, u, t, c) EXCEPT !.page = p, !.before = b])
    BY <2>1 DEF PageAsks
  <2> QED
    BY <2>1, <2>2, SentEffect DEF PageAsks, Request, NoRequest
<1>5. ASSUME NEW w \in Workers, PageDelete(w)
      PROVE  BoardEffect(w)
  <2>1. PICK op, u, t, c :
         op \in BoardOps \union {"load"} /\ PageAsks(w, Request(op, u, t, c))
    BY <1>5 DEF PageDelete
  <2>2. PICK p, b : Send(w, [Request(op, u, t, c) EXCEPT !.page = p, !.before = b])
    BY <2>1 DEF PageAsks
  <2> QED
    BY <2>1, <2>2, SentEffect DEF PageAsks, Request, NoRequest
<1>6. ASSUME NEW w \in Workers, PageReorder(w)
      PROVE  BoardEffect(w)
  <2>1. PICK op, u, t, c :
         op \in BoardOps \union {"load"} /\ PageAsks(w, Request(op, u, t, c))
    BY <1>6 DEF PageReorder
  <2>2. PICK p, b : Send(w, [Request(op, u, t, c) EXCEPT !.page = p, !.before = b])
    BY <2>1 DEF PageAsks
  <2> QED
    BY <2>1, <2>2, SentEffect DEF PageAsks, Request, NoRequest
<1>7. ASSUME NEW w \in Workers, CheckMove(w)
      PROVE  BoardEffect(w)
  BY <1>7 DEF CheckMove, Checked, Ended, Learns, RequestOK, NoRequest
<1>8. ASSUME NEW w \in Workers, CheckCreate(w)
      PROVE  BoardEffect(w)
  BY <1>8 DEF CheckCreate, Checked, Ended, Learns, RequestOK, NoRequest
<1>9. ASSUME NEW w \in Workers, CheckDelete(w)
      PROVE  BoardEffect(w)
  BY <1>9 DEF CheckDelete, Checked, Ended, Learns, RequestOK, NoRequest
<1>10. ASSUME NEW w \in Workers, CheckReorder(w)
      PROVE  BoardEffect(w)
  BY <1>10 DEF CheckReorder, Checked, Ended, Learns, RequestOK, NoRequest
<1>11. ASSUME NEW w \in Workers, CheckLoad(w)
      PROVE  BoardEffect(w)
  <2>1. DOMAIN job[w] = DOMAIN NoRequest
    BY DEF RequestOK
  <2> QED
    BY <1>11, <2>1, ListedRequest DEF CheckLoad, Ended, Learns
<1>12. ASSUME NEW w \in Workers, SeedColumn(w)
      PROVE  BoardEffect(w)
  <2>1. DOMAIN job[w] = DOMAIN NoRequest
    BY DEF RequestOK
  <2> QED
    BY <1>12, <2>1, ListedRequest DEF SeedColumn, Ended, Learns
<1>13. ASSUME NEW w \in Workers, ListSeeded(w)
      PROVE  BoardEffect(w)
  <2>1. PICK l : Learns(w, "seed", "cards", [job[w] EXCEPT !.listed = l], saw[w])
    BY <1>13 DEF ListSeeded
  <2>2. UNCHANGED <<memberVars, races, served>>
    BY <1>13 DEF ListSeeded
  <2> QED
    BY <2>1, <2>2, LearntEffect DEF Ended
<1>14. ASSUME NEW w \in Workers, LoadCards(w)
      PROVE  BoardEffect(w)
  BY <1>14 DEF LoadCards, Ended, Goes, Learns, RequestOK, NoRequest
<1>15. ASSUME NEW w \in Workers, WriteMove(w)
      PROVE  BoardEffect(w)
  BY <1>15 DEF WriteMove, Ended, Goes, Learns, RequestOK, NoRequest
<1>16. ASSUME NEW w \in Workers, WriteCreate(w)
      PROVE  BoardEffect(w)
  <2>1. PICK c : Learns(w, "write", Ended(w, "ok"), [job[w] EXCEPT !.listed = <<c>>], saw[w])
    BY <1>16 DEF WriteCreate
  <2>2. UNCHANGED <<memberVars, races, served>>
    BY <1>16 DEF WriteCreate
  <2> QED
    BY <2>1, <2>2, LearntEffect DEF Ended
<1>17. ASSUME NEW w \in Workers, WriteDelete(w)
      PROVE  BoardEffect(w)
  BY <1>17 DEF WriteDelete, Ended, Goes, Learns, RequestOK, NoRequest
<1>18. ASSUME NEW w \in Workers, WriteReorder(w)
      PROVE  BoardEffect(w)
  <2>1. DOMAIN job[w] = DOMAIN NoRequest
    BY DEF RequestOK
  <2> QED
    BY <1>18, <2>1, ListedRequest DEF WriteReorder, Ended, Learns
<1>19. ASSUME NEW w \in Workers, Break(w)
      PROVE  BoardEffect(w)
  <2>1. PICK s \in Stages, t \in {"idle", "failed"} : Goes(w, s, t)
    BY <1>19 DEF Break, Ended
  <2> QED
    BY <1>19, <2>1 DEF Break, Goes, Learns, RequestOK, NoRequest
<1>20. ASSUME NEW w \in Workers, LoseAnswer(w)
      PROVE  BoardEffect(w)
  BY <1>20 DEF LoseAnswer, Ended, Goes, Learns, RequestOK, NoRequest
<1>21. ASSUME NEW w \in Workers, Succeed(w)
      PROVE  BoardEffect(w)
  BY <1>21 DEF Succeed, Ended, Goes, Learns, RequestOK, NoRequest
<1>22. ASSUME NEW w \in Workers, Revert(w)
      PROVE  BoardEffect(w)
  BY <1>22 DEF Revert, Ended, Goes, Learns, RequestOK, NoRequest
<1> QED
  BY <1>1, <1>2, <1>3, <1>4, <1>5, <1>6, <1>7, <1>8, <1>9, <1>10, <1>11,
     <1>12, <1>13, <1>14, <1>15, <1>16, <1>17, <1>18, <1>19, <1>20, <1>21,
     <1>22 DEF BoardNext

LEMMA BoardKeepsAccess ==
    ASSUME IInv, NEW w \in Workers, BoardEffect(w)
    PROVE  IInv'
<1> USE DEF IInv, AccessTypeOK, BoardEffect, memberVars
<1>1. \A v \in Workers \ {w} : at'[v] = at[v] /\ job'[v] = job[v] /\ saw'[v] = saw[v]
  OBVIOUS
<1>2. at'[w] = "write" => job'[w].op \notin MemberOps \union AssignOps
  BY DEF BoardOps, MemberOps, AssignOps
<1>3. AccessTypeOK'
  BY DEF Stages
<1>4. RequestsOK'
  <2>1. RequestOK(w)'
    BY <1>2 DEF RequestsOK, RequestOK, Continues, NoRequest, Request, MemberOps, BoardOps,
       AssignOps
  <2>2. ASSUME NEW v \in Workers \ {w}
        PROVE  RequestOK(v)'
    BY <1>1 DEF RequestsOK, RequestOK
  <2> QED
    BY <2>1, <2>2 DEF RequestsOK
<1>5. OwnersGuarded'
  BY <1>1, <1>2 DEF OwnersGuarded, Owners, Demoting
<1>6. ResolvesGuarded'
  BY <1>1, <1>2 DEF ResolvesGuarded, ResolvedAsSeen, AssignOps
<1>7. AssignsGuarded'
  BY <1>1, <1>2 DEF AssignsGuarded, AssignedToMembers, Members, AssignOps
<1> QED
  BY <1>3, <1>4, <1>5, <1>6, <1>7

(***************************************************************************)
(* Which columns there were.  A board that had columns has some, and one   *)
(* being seeded has lost none: so no default comes back.  A deletion past  *)
(* its check leaves another column, as long as no second one is with it.   *)
(***************************************************************************)
SeedsGuarded ==
    /\ used # {} => Present # {}
    /\ \A w \in Workers : at[w] = "seed" => used = Present
    /\ \A w \in Workers :
        at[w] = "write" /\ job[w].op = "delete" => Present \ {job[w].to} # {}

Undisturbed == races \intersect {"seed", "deletes"} = {}

BoardGuarded == Present \subseteq used /\ (Undisturbed => SeedsGuarded)

BoardIInv == IInv /\ BoardGuarded

LEMMA AnotherIsLeft ==
    ASSUME NEW S, NEW c, Cardinality(S) > 1
    PROVE  S \ {c} # {}
<1> SUFFICES ASSUME S \subseteq {c}
             PROVE  FALSE
  OBVIOUS
<1>1. S = {} \/ S = {c}
  OBVIOUS
<1>2. Cardinality(S) = 0 \/ Cardinality(S) = 1
  BY <1>1, FS_EmptySet, FS_Singleton
<1> QED
  BY <1>2

\* A step that takes no column away, and lets nobody seed or delete.
LEMMA GrowthKeepsBoard ==
    ASSUME IInv, BoardGuarded, NEW w \in Workers,
           \A v \in Workers \ {w} : at'[v] = at[v] /\ job'[v] = job[v],
           at'[w] \notin {"seed", "write"},
           races \subseteq races',
           NEW C, Present' = Present \union C, used' = used \union C
    PROVE  BoardGuarded'
<1> USE DEF BoardGuarded, Undisturbed, SeedsGuarded
<1>1. Present' \subseteq used'
  OBVIOUS
<1>2. ASSUME Undisturbed'
      PROVE  SeedsGuarded'
  <2>1. SeedsGuarded
    BY <1>2
  <2>2. used' # {} => Present' # {}
    BY <2>1
  <2>3. ASSUME NEW v \in Workers, at'[v] = "seed"
        PROVE  used' = Present'
    BY <2>1, <2>3
  <2>4. ASSUME NEW v \in Workers, at'[v] = "write", job'[v].op = "delete"
        PROVE  Present' \ {job'[v].to} # {}
    BY <2>1, <2>4
  <2> QED
    BY <2>2, <2>3, <2>4
<1> QED
  BY <1>1, <1>2

\* A step that leaves the columns alone, and whoever of worker w's comes to
\* a write or to the seeding comes there rightly.
LEMMA RestKeepsBoard ==
    ASSUME IInv, BoardGuarded, NEW w \in Workers,
           \A v \in Workers \ {w} : at'[v] = at[v] /\ job'[v] = job[v],
           at'[w] = "seed" => at[w] = "seed" \/ Present = {},
           at'[w] = "write" /\ job'[w].op = "delete" => Present \ {job'[w].to} # {},
           races \subseteq races',
           Present' = Present, used' = used
    PROVE  BoardGuarded'
<1> USE DEF BoardGuarded, Undisturbed, SeedsGuarded
<1>2. ASSUME Undisturbed'
      PROVE  SeedsGuarded'
  <2>1. SeedsGuarded
    BY <1>2
  <2>3. ASSUME NEW v \in Workers, at'[v] = "seed"
        PROVE  used' = Present'
    BY <2>1, <2>3
  <2>4. ASSUME NEW v \in Workers, at'[v] = "write", job'[v].op = "delete"
        PROVE  Present' \ {job'[v].to} # {}
    BY <2>1, <2>4
  <2> QED
    BY <2>1, <2>3, <2>4
<1> QED
  BY <1>2

\* The routes of the members and of the assignments never touch a column.
LEMMA AccessKeepsBoard ==
    ASSUME IInv, BoardGuarded, AccessNext, UNCHANGED boardVars
    PROVE  BoardGuarded'
<1> USE DEF IInv, AccessTypeOK, RequestsOK
<1>1. PICK w \in Workers :
         \/ AskMember(w) \/ CheckMember(w) \/ WriteMember(w)
         \/ AskAssign(w) \/ CheckAssign(w) \/ CheckAssignee(w)
         \/ WriteAssign(w) \/ WriteUnassign(w) \/ WriteResolve(w) \/ WriteReopen(w)
  BY DEF AccessNext
<1>2. /\ \A v \in Workers \ {w} : at'[v] = at[v] /\ job'[v] = job[v]
      /\ at'[w] # "seed"
      /\ at'[w] = "write" => job'[w].op # "delete"
      /\ races \subseteq races'
  <2>1. CASE AskMember(w)
    BY <2>1 DEF AskMember, Send
  <2>2. CASE CheckMember(w)
    BY <2>2 DEF CheckMember, Goes, Learns, MemberOps
  <2>3. CASE WriteMember(w)
    BY <2>3 DEF WriteMember, Goes, Learns, Note
  <2>4. CASE AskAssign(w)
    BY <2>4 DEF AskAssign, Send
  <2>5. CASE CheckAssign(w)
    BY <2>5 DEF CheckAssign, Learns, AssignOps
  <2>6. CASE CheckAssignee(w)
    BY <2>6 DEF CheckAssignee, Goes, Learns, RequestOK
  <2>7. CASE WriteAssign(w)
    BY <2>7 DEF WriteAssign, Goes, Learns, Note
  <2>8. CASE WriteUnassign(w)
    BY <2>8 DEF WriteUnassign, Goes, Learns
  <2>9. CASE WriteResolve(w)
    BY <2>9 DEF WriteResolve, Goes, Learns
  <2>10. CASE WriteReopen(w)
    BY <2>10 DEF WriteReopen, Goes, Learns
  <2> QED
    BY <1>1, <2>1, <2>2, <2>3, <2>4, <2>5, <2>6, <2>7, <2>8, <2>9, <2>10
<1>3. Present' = Present /\ used' = used
  BY DEF boardVars, Present
<1> QED
  BY <1>2, <1>3, RestKeepsBoard

\* Requests of the board, from their start to their end.
Serving(w) ==
    \/ AskBoard(w) \/ PageLoad(w) \/ PageMove(w) \/ PageCreate(w)
    \/ PageDelete(w) \/ PageReorder(w) \/ CheckMove(w) \/ CheckCreate(w)
    \/ CheckDelete(w) \/ CheckReorder(w) \/ CheckLoad(w) \/ ListSeeded(w)
    \/ LoadCards(w) \/ Break(w) \/ LoseAnswer(w) \/ Succeed(w) \/ Revert(w)

LEMMA ServingLeavesBoard ==
    ASSUME NEW w \in Workers, Serving(w)
    PROVE  UNCHANGED <<boardVars, races>>
<1>1. CASE AskBoard(w)
  BY <1>1 DEF AskBoard
<1>2. CASE PageLoad(w) \/ PageMove(w) \/ PageCreate(w) \/ PageDelete(w) \/ PageReorder(w)
  <2>1. PICK r : PageAsks(w, r)
    BY <1>2 DEF PageLoad, PageMove, PageCreate, PageDelete, PageReorder
  <2> QED
    BY <2>1 DEF PageAsks
<1>3. CASE CheckMove(w) \/ CheckCreate(w) \/ CheckDelete(w) \/ CheckReorder(w)
  BY <1>3 DEF Checked, CheckMove, CheckCreate, CheckDelete, CheckReorder
<1>4. CASE CheckLoad(w) \/ ListSeeded(w) \/ LoadCards(w)
  <2>1. CASE CheckLoad(w)
    BY <2>1 DEF CheckLoad
  <2>2. CASE ListSeeded(w)
    BY <2>2 DEF ListSeeded, boardVars
  <2>3. CASE LoadCards(w)
    BY <2>3 DEF LoadCards
  <2> QED
    BY <1>4, <2>1, <2>2, <2>3
<1>5. CASE Break(w) \/ LoseAnswer(w) \/ Succeed(w) \/ Revert(w)
  BY <1>5 DEF Break, LoseAnswer, Succeed, Revert
<1> QED
  BY <1>1, <1>2, <1>3, <1>4, <1>5 DEF Serving

LEMMA RequestsKeepBoard ==
    ASSUME IInv, BoardGuarded, NEW w \in Workers, Serving(w)
    PROVE  BoardGuarded'
<1> DEFINE Rightly ==
        /\ \A v \in Workers \ {w} : at'[v] = at[v] /\ job'[v] = job[v]
        /\ at'[w] = "seed" => Present = {}
        /\ at'[w] = "write" /\ job'[w].op = "delete" => Present \ {job'[w].to} # {}
<1> USE DEF IInv, AccessTypeOK, RequestsOK
<1>1. UNCHANGED <<boardVars, races>>
  BY ServingLeavesBoard
<1>2. Rightly
  <2>1. ASSUME NEW r, Send(w, r)
        PROVE  Rightly
    BY <2>1 DEF Send
  <2>2. ASSUME NEW s \in Stages, NEW t \in Stages \ {"seed", "write"}, NEW r, NEW n,
               Learns(w, s, t, r, n)
        PROVE  Rightly
    BY <2>2 DEF Learns
  <2>3. CASE AskBoard(w)
    BY <2>1, <2>3 DEF AskBoard
  <2>4. CASE PageLoad(w) \/ PageMove(w) \/ PageCreate(w) \/ PageDelete(w) \/ PageReorder(w)
    <3>1. PICK r : Send(w, r)
      BY <2>4 DEF PageLoad, PageMove, PageCreate, PageDelete, PageReorder, PageAsks
    <3> QED
      BY <2>1, <3>1
  <2>5. CASE CheckMove(w)
    BY <2>5 DEF CheckMove, Checked, Learns, Ended
  <2>6. CASE CheckCreate(w)
    BY <2>6 DEF CheckCreate, Checked, Learns, Ended
  <2>7. CASE CheckDelete(w)
    BY <2>7, AnotherIsLeft DEF CheckDelete, Checked, Learns, Ended
  <2>8. CASE CheckReorder(w)
    BY <2>8 DEF CheckReorder, Checked, Learns, Ended
  <2>9. CASE CheckLoad(w)
    <3>1. PICK l : Learns(w, "sent", IF job[w].by \notin Members THEN "idle"
                                     ELSE IF Present = {} THEN "seed" ELSE "cards", l, 1)
      BY <2>9 DEF CheckLoad
    <3> QED
      BY <3>1 DEF Learns
  <2>10. CASE ListSeeded(w)
    <3>1. PICK l : Learns(w, "seed", "cards", l, saw[w])
      BY <2>10 DEF ListSeeded
    <3> QED
      BY <2>2, <3>1 DEF Stages
  <2>11. CASE LoadCards(w)
    BY <2>11 DEF LoadCards, Goes, Learns
  <2>12. CASE Break(w)
    BY <2>12 DEF Break, Goes, Learns, Ended
  <2>13. CASE LoseAnswer(w)
    BY <2>13 DEF LoseAnswer, Goes, Learns
  <2>14. CASE Succeed(w)
    BY <2>14 DEF Succeed, Goes, Learns
  <2>15. CASE Revert(w)
    BY <2>15 DEF Revert, Goes, Learns
  <2> QED
    BY <2>3, <2>4, <2>5, <2>6, <2>7, <2>8, <2>9, <2>10, <2>11, <2>12,
       <2>13, <2>14, <2>15 DEF Serving
<1>3. Present' = Present /\ used' = used
  BY <1>1 DEF boardVars, Present
<1> QED
  BY <1>1, <1>2, <1>3, RestKeepsBoard

\* The writes: only a deletion takes a column away, and it leaves one.
LEMMA WritesKeepBoard ==
    ASSUME IInv, BoardGuarded, NEW w \in Workers,
           WriteMove(w) \/ WriteCreate(w) \/ WriteDelete(w) \/ WriteReorder(w)
    PROVE  BoardGuarded'
<1> USE DEF IInv, AccessTypeOK, RequestsOK
<1>1. CASE WriteMove(w)
  <2>1. /\ \A v \in Workers \ {w} : at'[v] = at[v] /\ job'[v] = job[v]
        /\ at'[w] \notin {"seed", "write"}
        /\ races' = races
    BY <1>1 DEF WriteMove, Goes, Learns, Ended
  <2>2. Present' = Present /\ used' = used
    BY <1>1 DEF WriteMove, Present
  <2> QED
    BY <2>1, <2>2, RestKeepsBoard
<1>2. CASE WriteCreate(w)
  <2>1. PICK c \in Columns :
           /\ Learns(w, "write", Ended(w, "ok"), [job[w] EXCEPT !.listed = <<c>>], saw[w])
           /\ position' = WithColumn(c, saw[w])
           /\ used' = used \union {c}
    BY <1>2 DEF WriteCreate
  <2>2. races' = races
    BY <1>2 DEF WriteCreate
  <2>3. Present' = Present \union {c}
    BY <2>1 DEF Present, WithColumn
  <2>4. /\ \A v \in Workers \ {w} : at'[v] = at[v] /\ job'[v] = job[v]
        /\ at'[w] \notin {"seed", "write"}
    BY <2>1 DEF Learns, Ended
  <2> QED
    BY <2>1, <2>2, <2>3, <2>4, GrowthKeepsBoard
<1>3. CASE WriteReorder(w)
  <2>1. /\ \A v \in Workers \ {w} : at'[v] = at[v] /\ job'[v] = job[v]
        /\ at'[w] # "seed"
        /\ at'[w] = "write" => job'[w].op # "delete"
        /\ races' = races
    BY <1>3 DEF WriteReorder, Learns, Ended
  <2>2. Present' = Present /\ used' = used
    BY <1>3 DEF WriteReorder, Present
  <2> QED
    BY <2>1, <2>2, RestKeepsBoard
<1>4. CASE WriteDelete(w)
  <2> DEFINE c == job[w].to
  <2>1. /\ at[w] = "write" /\ job[w].op = "delete"
        /\ \A v \in Workers \ {w} : at'[v] = at[v] /\ job'[v] = job[v]
        /\ at'[w] \notin {"seed", "write"}
        /\ used' = used
    BY <1>4 DEF WriteDelete, Goes, Learns, Ended
  <2>2. Present' = Present \ {c}
    BY <1>4 DEF WriteDelete, Present, Restrict
  <2>3. /\ races \subseteq races'
        /\ \A v \in Workers : at[v] = "seed" => "seed" \in races'
        /\ \A v \in Workers \ {w} :
              at[v] = "write" /\ job[v].op = "delete" => "deletes" \in races'
    BY <1>4 DEF WriteDelete, Crossed
  <2>4. Present' \subseteq used'
    BY <2>1, <2>2 DEF BoardGuarded
  <2>5. ASSUME Undisturbed'
        PROVE  SeedsGuarded'
    <3>1. SeedsGuarded
      BY <2>3, <2>5 DEF BoardGuarded, Undisturbed
    <3>2. Present' # {}
      BY <2>1, <2>2, <3>1 DEF SeedsGuarded
    <3>3. \A v \in Workers : at'[v] # "seed"
      BY <2>1, <2>3, <2>5 DEF Undisturbed
    <3>4. \A v \in Workers : ~(at'[v] = "write" /\ job'[v].op = "delete")
      BY <2>1, <2>3, <2>5 DEF Undisturbed
    <3> QED
      BY <3>2, <3>3, <3>4 DEF SeedsGuarded
  <2> QED
    BY <2>4, <2>5 DEF BoardGuarded
<1> QED
  BY <1>1, <1>2, <1>3, <1>4

\* A board being seeded only grows, by a default that is not gone.
LEMMA SeedKeepsBoard ==
    ASSUME IInv, BoardGuarded, NEW w \in Workers, SeedColumn(w)
    PROVE  BoardGuarded'
<1> USE DEF IInv, AccessTypeOK, RequestsOK
<1> DEFINE d == Defaults[saw[w]]
<1>1. /\ at[w] = "seed" /\ at'[w] = "seed"
      /\ \A v \in Workers \ {w} : at'[v] = at[v] /\ job'[v] = job[v]
      /\ races' = races
      /\ used' = used \union {d}
  BY DEF SeedColumn, Learns
<1>2. Present' = Present \union {d}
  BY DEF SeedColumn, Present, WithColumn
<1>3. Present' \subseteq used'
  BY <1>1, <1>2 DEF BoardGuarded
<1>4. ASSUME Undisturbed'
      PROVE  SeedsGuarded'
  <2>1. SeedsGuarded
    BY <1>1, <1>4 DEF BoardGuarded, Undisturbed
  <2>2. used' = Present'
    BY <1>1, <1>2, <2>1 DEF SeedsGuarded
  <2>3. ASSUME NEW v \in Workers, at'[v] = "write", job'[v].op = "delete"
        PROVE  Present' \ {job'[v].to} # {}
    BY <1>1, <1>2, <2>1, <2>3 DEF SeedsGuarded
  <2> QED
    BY <2>2, <2>3 DEF SeedsGuarded
<1> QED
  BY <1>3, <1>4 DEF BoardGuarded

\* Every column that comes (back) in a step, comes by a creation under a new
\* id or by a seeding.
LEMMA NothingReturns ==
    ASSUME IInv, BoardGuarded, NEW w \in Workers, WriteCreate(w) \/ SeedColumn(w),
           NEW c \in used \ Present, c \in Present'
    PROVE  ~Undisturbed
<1>1. CASE WriteCreate(w)
  <2>1. PICK n \in Columns \ used : position' = WithColumn(n, saw[w])
    BY <1>1 DEF WriteCreate
  <2>2. Present' = Present \union {n}
    BY <2>1 DEF Present, WithColumn
  <2> QED
    BY <2>1, <2>2
<1>2. CASE SeedColumn(w)
  <2>1. at[w] = "seed"
    BY <1>2 DEF SeedColumn, Learns
  <2> QED
    BY <2>1 DEF BoardGuarded, SeedsGuarded
<1> QED
  BY <1>1, <1>2

\* No other step adds a column.
LEMMA OthersAddNothing ==
    ASSUME [Next]_vars, \A w \in Workers : ~(WriteCreate(w) \/ SeedColumn(w))
    PROVE  Present' \subseteq Present
<1>1. CASE UNCHANGED vars \/ (AccessNext /\ UNCHANGED <<boardVars, pageVars>>)
  BY <1>1 DEF vars, boardVars, Present
<1>2. ASSUME NEW w \in Workers, Serving(w)
      PROVE  Present' \subseteq Present
  BY <1>2, ServingLeavesBoard DEF boardVars, Present
<1>3. ASSUME NEW w \in Workers, WriteMove(w) \/ WriteDelete(w) \/ WriteReorder(w)
      PROVE  Present' \subseteq Present
  BY <1>3 DEF WriteMove, WriteDelete, WriteReorder, Present, Restrict
<1>4. CASE BoardNext
  BY <1>2, <1>3, <1>4 DEF BoardNext, Serving
<1> QED
  BY <1>1, <1>4 DEF Next

LEMMA BoardInitGuarded == BoardInit => BoardIInv
<1> SUFFICES ASSUME BoardInit
             PROVE  BoardIInv
  OBVIOUS
<1>1. IInv
  BY InitGuarded DEF BoardInit
<1>2. Present = {} /\ used = {} /\ \A w \in Workers : at[w] = "idle"
  BY DEF BoardInit, AccessInit, Present
<1> QED
  BY <1>1, <1>2 DEF BoardIInv, BoardGuarded, SeedsGuarded

LEMMA AccessStep ==
    IInv /\ [AccessNext]_accessVars => IInv'
BY TypeStep, RequestsStep, OwnersStep, ResolvesStep, AssignsStep DEF IInv

LEMMA BoardKeepsBoard ==
    ASSUME IInv, BoardGuarded, BoardNext
    PROVE  BoardGuarded'
<1>1. PICK w \in Workers :
         \/ AskBoard(w)
         \/ PageLoad(w) \/ PageMove(w) \/ PageCreate(w) \/ PageDelete(w) \/ PageReorder(w)
         \/ CheckMove(w) \/ CheckCreate(w) \/ CheckDelete(w) \/ CheckReorder(w) \/ CheckLoad(w)
         \/ SeedColumn(w) \/ ListSeeded(w) \/ LoadCards(w)
         \/ WriteMove(w) \/ WriteCreate(w) \/ WriteDelete(w) \/ WriteReorder(w)
         \/ Break(w) \/ LoseAnswer(w) \/ Succeed(w) \/ Revert(w)
  BY DEF BoardNext
<1>2. CASE SeedColumn(w)
  BY <1>2, SeedKeepsBoard
<1>3. CASE WriteMove(w) \/ WriteCreate(w) \/ WriteDelete(w) \/ WriteReorder(w)
  BY <1>3, WritesKeepBoard
<1>4. CASE ~(SeedColumn(w) \/ WriteMove(w) \/ WriteCreate(w) \/ WriteDelete(w)
             \/ WriteReorder(w))
  BY <1>1, <1>4, RequestsKeepBoard DEF Serving
<1> QED
  BY <1>2, <1>3, <1>4

LEMMA BoardStep == BoardIInv /\ [Next]_vars => BoardIInv'
<1> SUFFICES ASSUME BoardIInv, [Next]_vars
             PROVE  BoardIInv'
  OBVIOUS
<1> USE DEF BoardIInv
<1>1. CASE UNCHANGED vars
  <2>1. UNCHANGED accessVars /\ UNCHANGED boardVars
    BY <1>1 DEF vars
  <2>2. IInv'
    BY <2>1, AccessStep
  <2>3. BoardGuarded'
    BY <2>1 DEF accessVars, requestVars, boardVars, BoardGuarded, Undisturbed, SeedsGuarded,
       Present
  <2> QED
    BY <2>2, <2>3
<1>2. CASE AccessNext /\ UNCHANGED <<boardVars, pageVars>>
  <2>1. AccessNext /\ UNCHANGED boardVars
    BY <1>2
  <2> QED
    BY <2>1, AccessStep, AccessKeepsBoard
<1>3. CASE BoardNext
  <2>1. PICK w \in Workers : BoardEffect(w)
    BY <1>3, BoardSteps DEF IInv
  <2> QED
    BY <1>3, <2>1, BoardKeepsAccess, BoardKeepsBoard
<1> QED
  BY <1>1, <1>2, <1>3 DEF Next

\* Members and board together, for any number of people, of threads, of
\* columns and of requests in flight.
THEOREM BoardIInvAlways == Spec => []BoardIInv
<1> QED
  BY BoardInitGuarded, BoardStep, PTL DEF Spec

\* The mailbox keeps an owner whatever the board's requests do meanwhile.
THEOREM OwnerRemainsWithBoard == Spec => []OwnerRemains
<1>1. BoardIInv => OwnerRemains
  BY DEF BoardIInv, IInv, OwnersGuarded, OwnerRemains
<1> QED
  BY <1>1, BoardIInvAlways, PTL

\* Nor do they reopen, close or reassign a thread.
THEOREM ResolvedAsSeenWithBoard == Spec => []ResolvedAsSeen
<1>1. BoardIInv => ResolvedAsSeen
  BY DEF BoardIInv, IInv, ResolvesGuarded
<1> QED
  BY <1>1, BoardIInvAlways, PTL

\* A board is seeded once: the columns deleted from it stay away, unless a
\* deletion crossed the seeding, or another deletion.
THEOREM DeletedStaysGoneAlways == Spec => DeletedStaysGone
<1>1. ASSUME BoardIInv, [Next]_vars
      PROVE  [\A c \in used \ Present : c \in Present'
                => races \intersect {"seed", "deletes"} # {}]_vars
  <2> SUFFICES ASSUME NEW c \in used \ Present, c \in Present'
               PROVE  ~Undisturbed
    BY DEF Undisturbed
  <2>1. CASE \E w \in Workers : WriteCreate(w) \/ SeedColumn(w)
    BY <1>1, <2>1, NothingReturns DEF BoardIInv
  <2>2. CASE ~\E w \in Workers : WriteCreate(w) \/ SeedColumn(w)
    <3>1. Present' \subseteq Present
      BY <1>1, <2>2, OthersAddNothing
    <3> QED
      BY <3>1
  <2> QED
    BY <2>1, <2>2
<1> QED
  BY <1>1, BoardIInvAlways, PTL DEF Spec, DeletedStaysGone

-----------------------------------------------------------------------------
(***************************************************************************)
(* The page of the board.  A list that names every element of a set once.  *)
(***************************************************************************)
Lists(s, S) ==
    /\ s \in Seq(S)
    /\ \A i, j \in 1 .. Len(s) : s[i] = s[j] => i = j
    /\ \A e \in S : \E i \in 1 .. Len(s) : s[i] = e

LEMMA RangeOfLists ==
    ASSUME NEW S, NEW s, Lists(s, S)
    PROVE  Range(s) = S /\ s \in Seq(S)
BY DEF Lists, Range

LEMMA ListFacts ==
    ASSUME NEW S, NEW s, Lists(s, S)
    PROVE  /\ Len(s) \in Nat /\ \A k \in 1 .. Len(s) : s[k] \in S
           /\ \A i, j \in 1 .. Len(s) : s[i] = s[j] => i = j
           /\ \A e \in S : \E i \in 1 .. Len(s) : s[i] = e
BY DEF Lists

\* The sequences of a finite set are its lists.
LEMMA ListsAreSeqs ==
    ASSUME NEW S, IsFiniteSet(S), NEW s
    PROVE  s \in SetToSeqs(S) <=> Lists(s, S)
<1> DEFINE n == Cardinality(S)
           D == 1 .. n
<1>1. n \in Nat /\ IsFiniteSet(D) /\ Cardinality(D) = n
  BY FS_CardinalityType, FS_Interval
<1>2. ASSUME s \in SetToSeqs(S)
      PROVE  Lists(s, S)
  <2>1. s \in [D -> S] /\ \A i, j \in D : i # j => s[i] # s[j]
    BY <1>2 DEF SetToSeqs
  <2>2. s \in Seq(S) /\ Len(s) = n
    BY <1>1, <2>1
  <2>3. s \in Injection(D, S)
    BY <2>1 DEF Injection, IsInjective
  <2>4. s \in Surjection(D, S)
    BY <1>1, <2>3, FS_Injection
  <2>5. \A e \in S : \E i \in D : s[i] = e
    BY <2>4 DEF Surjection
  <2> QED
    BY <2>1, <2>2, <2>5 DEF Lists
<1>3. ASSUME Lists(s, S)
      PROVE  s \in SetToSeqs(S)
  <2> DEFINE E == 1 .. Len(s)
  <2>1. s \in Seq(S) /\ Len(s) \in Nat /\ s \in [E -> S]
    BY <1>3 DEF Lists
  <2>2. s \in Bijection(E, S)
    BY <1>3, <2>1 DEF Lists, Bijection, Injection, IsInjective, Surjection
  <2>3. IsFiniteSet(E) /\ Cardinality(E) = Len(s)
    BY <2>1, FS_Interval
  <2>4. n = Len(s)
    BY <2>2, <2>3, FS_Bijection DEF ExistsBijection
  <2> QED
    BY <1>3, <2>1, <2>4 DEF SetToSeqs, Lists
<1> QED
  BY <1>2, <1>3

\* A list without its place i.
LEMMA PlaceTakenOut ==
    ASSUME NEW S, NEW s \in Seq(S), NEW i \in 1 .. Len(s)
    PROVE  /\ RemoveAt(s, i) \in Seq(S)
           /\ Len(RemoveAt(s, i)) = Len(s) - 1
           /\ \A k \in 1 .. Len(s) - 1 :
                 /\ k < i => RemoveAt(s, i)[k] = s[k]
                 /\ k >= i => RemoveAt(s, i)[k] = s[k + 1]
<1> DEFINE a == SubSeq(s, 1, i - 1)
           b == SubSeq(s, i + 1, Len(s))
<1>1. a \in Seq(S) /\ Len(a) = i - 1 /\ \A k \in 1 .. i - 1 : a[k] = s[k]
  OBVIOUS
<1>2. b \in Seq(S) /\ Len(b) = Len(s) - i /\ \A k \in 1 .. Len(b) : b[k] = s[k + i]
  OBVIOUS
<1>3. RemoveAt(s, i) = a \o b
  BY DEF RemoveAt
<1> HIDE DEF a, b
<1>4. /\ a \o b \in Seq(S) /\ Len(a \o b) = Len(a) + Len(b)
      /\ \A k \in 1 .. Len(a) + Len(b) :
            (a \o b)[k] = IF k <= Len(a) THEN a[k] ELSE b[k - Len(a)]
  BY <1>1, <1>2, ConcatProperties
<1>5. Len(s) \in Nat
  OBVIOUS
<1>6. ASSUME NEW k \in 1 .. Len(s) - 1
      PROVE  /\ k < i => (a \o b)[k] = s[k]
             /\ k >= i => (a \o b)[k] = s[k + 1]
  <2>1. ASSUME k < i
        PROVE  (a \o b)[k] = s[k]
    BY <1>1, <1>2, <1>4, <1>5, <2>1
  <2>2. ASSUME k >= i
        PROVE  (a \o b)[k] = s[k + 1]
    <3>1. k - (i - 1) \in 1 .. Len(b) /\ (a \o b)[k] = b[k - (i - 1)]
      BY <1>1, <1>2, <1>4, <1>5, <2>2
    <3> QED
      BY <1>2, <1>5, <2>2, <3>1
  <2> QED
    BY <2>1, <2>2
<1> QED
  BY <1>1, <1>2, <1>3, <1>4, <1>5, <1>6

LEMMA ListWithoutOne ==
    ASSUME NEW S, NEW s, Lists(s, S), NEW i \in 1 .. Len(s)
    PROVE  Lists(RemoveAt(s, i), S \ {s[i]})
<1> DEFINE r == RemoveAt(s, i)
<1>1. /\ r \in Seq(S) /\ Len(r) = Len(s) - 1
      /\ \A k \in 1 .. Len(s) - 1 : (k < i => r[k] = s[k]) /\ (k >= i => r[k] = s[k + 1])
  BY PlaceTakenOut DEF Lists
<1>2. /\ Len(s) \in Nat /\ \A k \in 1 .. Len(s) : s[k] \in S
      /\ \A j, k \in 1 .. Len(s) : s[j] = s[k] => j = k
      /\ \A e \in S : \E k \in 1 .. Len(s) : s[k] = e
  BY ListFacts
<1> HIDE DEF r
<1>3. ASSUME NEW k \in 1 .. Len(r)
      PROVE  \E x \in 1 .. Len(s) :
                r[k] = s[x] /\ x # i /\ (k < i => x = k) /\ (k >= i => x = k + 1)
  <2>1. CASE k < i
    BY <1>1, <1>2, <2>1
  <2>2. CASE k >= i
    <3>1. k + 1 \in 1 .. Len(s) /\ r[k] = s[k + 1] /\ k + 1 # i /\ ~(k < i)
      BY <1>1, <1>2, <2>2
    <3> QED
      BY <3>1
  <2> QED
    BY <1>1, <1>2, <2>1, <2>2
<1>4. \A k \in 1 .. Len(r) : r[k] \in S \ {s[i]}
  BY <1>3, <1>2
<1>5. r \in Seq(S \ {s[i]})
  BY <1>1, <1>4
<1>6. \A j, k \in 1 .. Len(r) : r[j] = r[k] => j = k
  <2> SUFFICES ASSUME NEW j \in 1 .. Len(r), NEW k \in 1 .. Len(r), r[j] = r[k]
               PROVE  j = k
    OBVIOUS
  <2>1. PICK x \in 1 .. Len(s) : r[j] = s[x] /\ (j < i => x = j) /\ (j >= i => x = j + 1)
    BY <1>3
  <2>2. PICK y \in 1 .. Len(s) : r[k] = s[y] /\ (k < i => y = k) /\ (k >= i => y = k + 1)
    BY <1>3
  <2>3. x = y
    BY <1>2, <2>1, <2>2
  <2> QED
    BY <1>1, <1>2, <2>1, <2>2, <2>3
<1>7. ASSUME NEW e \in S \ {s[i]}
      PROVE  \E k \in 1 .. Len(r) : r[k] = e
  <2>1. PICK j \in 1 .. Len(s) : s[j] = e
    BY <1>2
  <2>2. CASE j < i
    <3>1. j \in 1 .. Len(r) /\ r[j] = s[j]
      BY <1>1, <1>2, <2>2
    <3> QED
      BY <2>1, <3>1
  <2>3. CASE j > i
    <3>1. j - 1 \in 1 .. Len(r) /\ r[j - 1] = s[j]
      BY <1>1, <1>2, <2>3
    <3> QED
      BY <2>1, <3>1
  <2> QED
    BY <1>2, <1>7, <2>1, <2>2, <2>3
<1>8. Lists(r, S \ {s[i]})
  BY <1>5, <1>6, <1>7 DEF Lists
<1> QED
  BY <1>8 DEF r

\* A list with a new element at its end.
LEMMA ListWithOneMore ==
    ASSUME NEW S, NEW s, Lists(s, S), NEW e, e \notin S
    PROVE  /\ Lists(s \o <<e>>, S \union {e})
           /\ Len(s \o <<e>>) = Len(s) + 1
           /\ \A k \in 1 .. Len(s) : (s \o <<e>>)[k] = s[k]
           /\ (s \o <<e>>)[Len(s) + 1] = e
<1> DEFINE r == s \o <<e>>
<1>1. /\ r \in Seq(S \union {e}) /\ Len(r) = Len(s) + 1
      /\ \A k \in 1 .. Len(s) : r[k] = s[k]
      /\ r[Len(s) + 1] = e
  BY DEF Lists
<1>2. /\ Len(s) \in Nat /\ \A k \in 1 .. Len(s) : s[k] \in S
      /\ \A j, k \in 1 .. Len(s) : s[j] = s[k] => j = k
      /\ \A x \in S : \E k \in 1 .. Len(s) : s[k] = x
  BY ListFacts
<1> HIDE DEF r
<1>3. \A j, k \in 1 .. Len(r) : r[j] = r[k] => j = k
  <2> SUFFICES ASSUME NEW j \in 1 .. Len(r), NEW k \in 1 .. Len(r), r[j] = r[k]
               PROVE  j = k
    OBVIOUS
  <2>1. j = Len(s) + 1 \/ (j \in 1 .. Len(s) /\ r[j] = s[j] /\ s[j] # e)
    BY <1>1, <1>2
  <2>2. k = Len(s) + 1 \/ (k \in 1 .. Len(s) /\ r[k] = s[k] /\ s[k] # e)
    BY <1>1, <1>2
  <2> QED
    BY <1>1, <1>2, <2>1, <2>2
<1>4. \A x \in S \union {e} : \E k \in 1 .. Len(r) : r[k] = x
  BY <1>1, <1>2
<1>5. Lists(r, S \union {e})
  BY <1>1, <1>3, <1>4 DEF Lists
<1> QED
  BY <1>1, <1>5 DEF r

\* A list with the element of place i moved to place j.
LEMMA PlaceMoved ==
    ASSUME NEW S, NEW s, Lists(s, S), NEW i \in 1 .. Len(s), NEW j \in 1 .. Len(s)
    PROVE  /\ Lists(InsertAt(RemoveAt(s, i), j, s[i]), S)
           /\ Len(InsertAt(RemoveAt(s, i), j, s[i])) = Len(s)
<1>1. s \in Seq(S) /\ Len(s) \in Nat /\ s[i] \in S
  BY DEF Lists
<1>2. PICK r : r = RemoveAt(s, i)
  OBVIOUS
<1>3. PICK e : e = s[i]
  OBVIOUS
<1>4. Lists(r, S \ {e}) /\ Len(r) = Len(s) - 1 /\ Len(s) \in Nat /\ e \in S
  BY <1>2, <1>3, <1>1, ListWithoutOne, PlaceTakenOut
<1> DEFINE m == InsertAt(r, j, e)
<1>5. /\ m \in Seq(S) /\ Len(m) = Len(r) + 1
      /\ \A k \in 1 .. Len(r) + 1 :
            (k < j => m[k] = r[k]) /\ (k = j => m[k] = e) /\ (k > j => m[k] = r[k - 1])
  <2>1. r \in Seq(S) /\ j \in 1 .. Len(r) + 1
    BY <1>4 DEF Lists
  <2> DEFINE a == SubSeq(r, 1, j - 1)
             b == SubSeq(r, j, Len(r))
  <2>2. a \in Seq(S) /\ Len(a) = j - 1 /\ \A k \in 1 .. j - 1 : a[k] = r[k]
    BY <2>1
  <2>3. b \in Seq(S) /\ Len(b) = Len(r) - j + 1 /\ \A k \in 1 .. Len(b) : b[k] = r[k + j - 1]
    BY <2>1
  <2>4. m = (a \o <<e>>) \o b
    BY DEF InsertAt
  <2> HIDE DEF a, b, m
  <2>5. /\ a \o <<e>> \in Seq(S) /\ Len(a \o <<e>>) = j
        /\ \A k \in 1 .. j : (a \o <<e>>)[k] = IF k < j THEN r[k] ELSE e
    BY <1>4, <2>1, <2>2
  <2>6. PICK c : c = a \o <<e>>
    OBVIOUS
  <2>7. /\ m \in Seq(S) /\ Len(m) = Len(c) + Len(b)
        /\ \A k \in 1 .. Len(c) + Len(b) :
              m[k] = IF k <= Len(c) THEN c[k] ELSE b[k - Len(c)]
    <3>1. m = c \o b
      BY <2>4, <2>6
    <3>2. c \in Seq(S) /\ b \in Seq(S)
      BY <2>3, <2>5, <2>6
    <3> QED
      BY <3>1, <3>2, ConcatProperties
  <2>8. Len(m) = Len(r) + 1 /\ Len(r) \in Nat /\ Len(c) = j
    <3>1. Len(c) = j
      BY <2>5, <2>6
    <3>2. Len(b) = Len(r) - j + 1 /\ Len(m) = Len(c) + Len(b)
      BY <2>3, <2>7
    <3>3. Len(r) \in Nat /\ j \in Nat
      BY <2>1
    <3> QED
      BY <3>1, <3>2, <3>3
  <2>9. ASSUME NEW k \in 1 .. Len(r) + 1
        PROVE  (k < j => m[k] = r[k]) /\ (k = j => m[k] = e) /\ (k > j => m[k] = r[k - 1])
    <3>0. k \in 1 .. Len(c) + Len(b) /\ k \in Nat /\ j \in Nat
      BY <2>1, <2>3, <2>8
    <3>1. ASSUME k <= j
          PROVE  k \in 1 .. j /\ m[k] = c[k]
      BY <2>7, <2>8, <3>0, <3>1
    <3>2. ASSUME k > j
          PROVE  m[k] = r[k - 1]
      <4>1. m[k] = b[k - j]
        BY <2>7, <2>8, <3>0, <3>2
      <4>2. k - j \in 1 .. Len(b)
        BY <2>3, <2>8, <3>0, <3>2
      <4>3. (k - j) + j - 1 = k - 1
        BY <3>0
      <4> QED
        BY <2>3, <4>1, <4>2, <4>3
    <3> QED
      BY <2>5, <2>6, <3>0, <3>1, <3>2
  <2> QED
    BY <2>7, <2>8, <2>9
<1> HIDE DEF m
<1>6. \A k \in 1 .. Len(r) : r[k] \in S /\ r[k] # e
  BY <1>4, ListFacts
<1>7. ASSUME NEW k \in 1 .. Len(m), NEW l \in 1 .. Len(m), m[k] = m[l]
      PROVE  k = l
  <2>1. Len(r) \in Nat /\ \A x, y \in 1 .. Len(r) : r[x] = r[y] => x = y
    BY <1>4, ListFacts
  <2>2. k # j => \E x \in 1 .. Len(r) : m[k] = r[x] /\ (k < j => x = k) /\ (k > j => x = k - 1)
    BY <1>4, <1>5, <2>1
  <2>3. l # j => \E x \in 1 .. Len(r) : m[l] = r[x] /\ (l < j => x = l) /\ (l > j => x = l - 1)
    BY <1>4, <1>5, <2>1
  <2>4. m[j] = e
    BY <1>4, <1>5
  <2> QED
    BY <1>4, <1>5, <1>6, <1>7, <2>1, <2>2, <2>3, <2>4
<1>8. ASSUME NEW x \in S
      PROVE  \E k \in 1 .. Len(m) : m[k] = x
  <2>1. CASE x = e
    BY <1>4, <1>5, <2>1
  <2>2. CASE x # e
    <3>1. PICK k \in 1 .. Len(r) : r[k] = x
      BY <1>4, <2>2 DEF Lists
    <3>2. CASE k < j
      <4>1. k \in 1 .. Len(m) /\ m[k] = r[k]
        BY <1>4, <1>5, <3>2
      <4> QED
        BY <3>1, <4>1
    <3>3. CASE k >= j
      <4>1. k + 1 \in 1 .. Len(m) /\ m[k + 1] = r[k]
        BY <1>4, <1>5, <3>3
      <4> QED
        BY <3>1, <4>1
    <3> QED
      BY <1>4, <3>2, <3>3
  <2> QED
    BY <2>1, <2>2
<1>9. Lists(m, S)
  BY <1>5, <1>7, <1>8 DEF Lists
<1> QED
  BY <1>2, <1>3, <1>4, <1>5, <1>9 DEF m

\* A finite set of numbers that is not empty has a greatest.
LEMMA GreatestThereIs ==
    ASSUME NEW S \in SUBSET Nat, IsFiniteSet(S), S # {}
    PROVE  Max(S) \in S /\ \A k \in S : k <= Max(S)
<1> SUFFICES \E x \in S : \A y \in S : x >= y
  BY DEF Max
<1> DEFINE U == {0 .. k : k \in S}
           D == UNION U
<1>1. IsFiniteSet(U)
  <2> DEFINE f == [k \in S |-> 0 .. k]
  <2>1. f \in Surjection(S, U)
    BY DEF Surjection
  <2> QED
    BY <2>1, FS_Surjection
<1>2. IsFiniteSet(D)
  <2>1. \A T \in U : IsFiniteSet(T)
    BY FS_Interval
  <2> QED
    BY <1>1, <2>1, FS_UNION
<1>3. \A k : k \in D <=> \E x \in S : k \in 0 .. x
  BY Zenon
<1> HIDE DEF D
<1>4. 0 \in D /\ D \subseteq Nat /\ S \subseteq D
  <2>1. \A x \in S : 0 \in 0 .. x /\ x \in 0 .. x /\ 0 .. x \subseteq Nat
    OBVIOUS
  <2>2. 0 \in D
    BY <1>3, <2>1
  <2>3. D \subseteq Nat
    BY <1>3, <2>1
  <2>4. S \subseteq D
    BY <1>3, <2>1
  <2> QED
    BY <2>2, <2>3, <2>4
<1>5. \A k \in D : \E x \in S : k <= x
  BY <1>3
<1>6. \A x \in S : \A k \in 0 .. x : k \in D
  BY <1>3
<1> SUFFICES ASSUME \A x \in S : \E y \in S : y > x
             PROVE  FALSE
  BY <1>4
<1>7. \A k \in D : k + 1 \in D \ {0}
  <2> SUFFICES ASSUME NEW k \in D
               PROVE  k + 1 \in D \ {0}
    OBVIOUS
  <2>1. PICK x \in S : k <= x
    BY <1>5
  <2>2. PICK y \in S : y > x
    OBVIOUS
  <2>3. k + 1 \in 0 .. y
    BY <1>4, <2>1, <2>2
  <2> QED
    BY <1>4, <1>6, <2>3
<1> DEFINE g == [k \in D |-> k + 1]
<1>8. g \in [D -> D \ {0}]
  BY <1>7
<1>9. IsFiniteSet(D \ {0}) /\ Cardinality(D \ {0}) < Cardinality(D)
  <2>1. Cardinality(D) \in Nat
    BY <1>2, FS_CardinalityType
  <2>2. IsFiniteSet(D \ {0}) /\ Cardinality(D \ {0}) = Cardinality(D) - 1
    BY <1>2, <1>4, FS_RemoveElement
  <2> QED
    BY <2>1, <2>2
<1> HIDE DEF g
<1>10. PICK x, y \in D : x # y /\ g[x] = g[y]
  BY <1>2, <1>8, <1>9, FS_PigeonHole
<1> QED
  BY <1>4, <1>10 DEF g

-----------------------------------------------------------------------------
(***************************************************************************)
(* The page that shows columns s, and the cards in columns k, agrees with  *)
(* the board whose columns have the positions p, whose cards are placed as *)
(* q says, and which has had the columns u: a card with a placement is in  *)
(* its column, one without in the first column or in none that is shown.   *)
(***************************************************************************)
InOrder(s, p) == \A i, j \in 1 .. Len(s) : i < j => p[s[i]] <= p[s[j]]

CardsAgree(s, k, q) ==
    \A t \in Threads :
        /\ q[t] = NoColumn => k[t] = First(s) \/ k[t] \notin Range(s)
        /\ q[t] # NoColumn => k[t] = q[t]

Agrees(s, k, p, q, u) ==
    /\ Lists(s, DOMAIN p) /\ InOrder(s, p)
    /\ k \in [Threads -> u \union {NoColumn}]
    /\ CardsAgree(s, k, q)

\* The rows of the board's tables.
Rows(p, q, u) ==
    /\ IsFiniteSet(DOMAIN p) /\ DOMAIN p \subseteq u /\ u \subseteq Columns
    /\ \A c \in DOMAIN p : p[c] \in Nat
    /\ q \in [Threads -> DOMAIN p \union {NoColumn}]

LEMMA RowsFacts ==
    ASSUME NEW p, NEW q, NEW u, Rows(p, q, u)
    PROVE  /\ NoColumn \notin u /\ NoColumn \notin DOMAIN p
           /\ \A t \in Threads : q[t] # NoColumn => q[t] \in DOMAIN p
BY BoardAssumption DEF Rows

\* A page just loaded agrees.
LEMMA LoadedAgrees ==
    ASSUME NEW p, NEW q, NEW u, Rows(p, q, u),
           NEW s, Lists(s, DOMAIN p), InOrder(s, p),
           NEW k, k = [t \in Threads |-> IF q[t] \in Range(s) THEN q[t] ELSE First(s)]
    PROVE  Agrees(s, k, p, q, u)
<1>1. Range(s) = DOMAIN p /\ s \in Seq(DOMAIN p)
  BY RangeOfLists
<1>2. First(s) \in DOMAIN p \union {NoColumn}
  BY <1>1 DEF First
<1>3. k \in [Threads -> u \union {NoColumn}]
  BY <1>1, <1>2 DEF Rows
<1>4. CardsAgree(s, k, q)
  BY <1>1, RowsFacts DEF CardsAgree
<1> QED
  BY <1>3, <1>4 DEF Agrees

\* A card moved on the page and on the board.
LEMMA MovedAgrees ==
    ASSUME NEW p, NEW q, NEW u, Rows(p, q, u),
           NEW s, NEW k, Agrees(s, k, p, q, u),
           NEW t \in Threads, NEW c \in DOMAIN p
    PROVE  Agrees(s, [k EXCEPT ![t] = c], p, [q EXCEPT ![t] = c], u)
<1>1. c # NoColumn /\ c \in u
  BY RowsFacts DEF Rows
<1>2. [k EXCEPT ![t] = c] \in [Threads -> u \union {NoColumn}]
  BY <1>1 DEF Agrees
<1>3. CardsAgree(s, [k EXCEPT ![t] = c], [q EXCEPT ![t] = c])
  BY <1>1 DEF Agrees, CardsAgree, Rows
<1> QED
  BY <1>2, <1>3 DEF Agrees

\* A column that comes after all the others.
LEMMA GrownAgrees ==
    ASSUME NEW p, NEW q, NEW u, Rows(p, q, u),
           NEW s, NEW k, Agrees(s, k, p, q, u),
           NEW c \in Columns \ u, NEW n \in Nat, \A x \in DOMAIN p : p[x] < n,
           NEW r, r = [x \in DOMAIN p \union {c} |-> IF x \in DOMAIN p THEN p[x] ELSE n]
    PROVE  Agrees(s \o <<c>>, k, r, q, u \union {c})
<1>1. c \notin DOMAIN p /\ c # NoColumn
  BY BoardAssumption DEF Rows
<1>2. Lists(s, DOMAIN p)
  BY DEF Agrees
<1>3. PICK z : z = s \o <<c>>
  OBVIOUS
<1>4. /\ Lists(z, DOMAIN p \union {c}) /\ Len(z) = Len(s) + 1
      /\ \A i \in 1 .. Len(s) : z[i] = s[i]
      /\ z[Len(s) + 1] = c
  BY <1>1, <1>2, <1>3, ListWithOneMore
<1>5. Len(s) \in Nat /\ \A i \in 1 .. Len(s) : s[i] \in DOMAIN p
  BY <1>2, ListFacts
<1>6. DOMAIN r = DOMAIN p \union {c} /\ r[c] = n /\ \A x \in DOMAIN p : r[x] = p[x]
  BY <1>1
<1>7. InOrder(z, r)
  <2> SUFFICES ASSUME NEW i \in 1 .. Len(z), NEW j \in 1 .. Len(z), i < j
               PROVE  r[z[i]] <= r[z[j]]
    BY DEF InOrder
  <2>1. i \in 1 .. Len(s) /\ z[i] = s[i] /\ s[i] \in DOMAIN p
    BY <1>4, <1>5
  <2>2. CASE j \in 1 .. Len(s)
    <3>1. z[j] = s[j] /\ s[j] \in DOMAIN p /\ p[s[i]] <= p[s[j]]
      BY <1>4, <1>5, <2>1, <2>2 DEF Agrees, InOrder
    <3> QED
      BY <1>6, <2>1, <3>1
  <2>3. CASE j = Len(s) + 1
    <3>1. p[s[i]] < n /\ p[s[i]] \in Nat
      BY <2>1 DEF Rows
    <3> QED
      BY <1>4, <1>6, <2>1, <2>3, <3>1
  <2> QED
    BY <1>4, <1>5, <2>2, <2>3
<1>8. k \in [Threads -> (u \union {c}) \union {NoColumn}]
  BY DEF Agrees
<1>9. CardsAgree(z, k, q)
  <2> SUFFICES ASSUME NEW t \in Threads, q[t] = NoColumn
               PROVE  k[t] = First(z) \/ k[t] \notin Range(z)
    BY DEF CardsAgree, Agrees
  <2>1. Range(z) = DOMAIN p \union {c} /\ Range(s) = DOMAIN p
    BY <1>2, <1>4, RangeOfLists
  <2>2. k[t] # c
    BY <1>1 DEF Agrees
  <2>3. k[t] = First(s) \/ k[t] \notin Range(s)
    BY DEF Agrees, CardsAgree
  <2>4. CASE s = <<>>
    <3>1. DOMAIN p = {}
      <4>1. Len(s) = 0
        BY <2>4
      <4> QED
        BY <1>2, <4>1, ListFacts
    <3> QED
      BY <2>1, <2>2, <3>1
  <2>5. CASE s # <<>>
    <3>1. Len(s) > 0
      BY <1>2, <2>5 DEF Lists
    <3>2. z # <<>> /\ z[1] = s[1]
      BY <1>4, <1>5, <3>1
    <3> QED
      BY <2>1, <2>2, <2>3, <2>5, <3>2 DEF First
  <2> QED
    BY <2>4, <2>5
<1> QED
  BY <1>3, <1>4, <1>6, <1>7, <1>8, <1>9 DEF Agrees

\* A column c taken away: its row, the placements in it, and its cards on
\* the page, which go to the first column of z.
WithoutColumn(p, c) == [x \in DOMAIN p \ {c} |-> p[x]]
WithoutPlaces(q, c) == [t \in Threads |-> IF q[t] = c THEN NoColumn ELSE q[t]]
CardsAway(k, c, z) == [t \in Threads |-> IF k[t] = c THEN First(z) ELSE k[t]]

LEMMA ShrunkAgrees ==
    ASSUME NEW p, NEW q, NEW u, Rows(p, q, u),
           NEW s, NEW k, Agrees(s, k, p, q, u),
           NEW i \in 1 .. Len(s), Len(s) > 1
    PROVE  Agrees(RemoveAt(s, i), CardsAway(k, s[i], RemoveAt(s, i)),
                  WithoutColumn(p, s[i]), WithoutPlaces(q, s[i]), u)
<1>1. PICK z, r, l, o :
         /\ z = RemoveAt(s, i) /\ r = WithoutColumn(p, s[i])
         /\ l = CardsAway(k, s[i], z) /\ o = WithoutPlaces(q, s[i])
  OBVIOUS
<1>2. PICK c : c = s[i]
  OBVIOUS
<1>3. /\ Lists(s, DOMAIN p) /\ s \in Seq(DOMAIN p) /\ Len(s) \in Nat
      /\ Range(s) = DOMAIN p /\ c \in DOMAIN p /\ c # NoColumn
  <2>1. Lists(s, DOMAIN p)
    BY DEF Agrees
  <2>2. Range(s) = DOMAIN p /\ s \in Seq(DOMAIN p) /\ Len(s) \in Nat /\ c \in DOMAIN p
    BY <1>2, <2>1, RangeOfLists, ListFacts
  <2> QED
    BY <2>1, <2>2, RowsFacts
<1>4. Lists(z, DOMAIN p \ {c}) /\ Range(z) = DOMAIN p \ {c}
  BY <1>1, <1>2, <1>3, ListWithoutOne, RangeOfLists
<1>5. /\ Len(z) = Len(s) - 1
      /\ \A j \in 1 .. Len(s) - 1 : (j < i => z[j] = s[j]) /\ (j >= i => z[j] = s[j + 1])
  BY <1>1, <1>3, PlaceTakenOut
<1>6. DOMAIN r = DOMAIN p \ {c} /\ \A x \in DOMAIN p \ {c} : r[x] = p[x]
  BY <1>1, <1>2 DEF WithoutColumn
<1>7. InOrder(z, r)
  <2> SUFFICES ASSUME NEW a \in 1 .. Len(z), NEW b \in 1 .. Len(z), a < b
               PROVE  r[z[a]] <= r[z[b]]
    BY DEF InOrder
  <2>1. \A j \in 1 .. Len(z) : z[j] \in DOMAIN p \ {c}
    BY <1>4, ListFacts
  <2>2. PICK x \in 1 .. Len(s) : z[a] = s[x] /\ (a < i => x = a) /\ (a >= i => x = a + 1)
    <3>1. CASE a < i
      BY <1>3, <1>5, <3>1
    <3>2. CASE a >= i
      <4>1. a + 1 \in 1 .. Len(s) /\ z[a] = s[a + 1] /\ ~(a < i)
        BY <1>3, <1>5, <3>2
      <4> QED
        BY <4>1
    <3> QED
      BY <1>3, <1>5, <3>1, <3>2
  <2>3. PICK y \in 1 .. Len(s) : z[b] = s[y] /\ (b < i => y = b) /\ (b >= i => y = b + 1)
    <3>1. CASE b < i
      BY <1>3, <1>5, <3>1
    <3>2. CASE b >= i
      <4>1. b + 1 \in 1 .. Len(s) /\ z[b] = s[b + 1] /\ ~(b < i)
        BY <1>3, <1>5, <3>2
      <4> QED
        BY <4>1
    <3> QED
      BY <1>3, <1>5, <3>1, <3>2
  <2>4. x < y
    BY <1>3, <1>5, <2>2, <2>3
  <2>5. p[s[x]] <= p[s[y]]
    BY <2>4 DEF Agrees, InOrder
  <2> QED
    BY <1>6, <2>1, <2>2, <2>3, <2>5
<1>8. First(z) \in DOMAIN p \ {c} /\ (i # 1 => First(z) = First(s))
  <2>1. z # <<>> /\ 1 \in 1 .. Len(z)
    BY <1>3, <1>5
  <2>2. s # <<>> /\ (i # 1 => z[1] = s[1])
    BY <1>3, <1>5
  <2>3. z[1] \in DOMAIN p \ {c}
    BY <1>4, <2>1, ListFacts
  <2> QED
    BY <2>1, <2>2, <2>3 DEF First
<1>9. l \in [Threads -> u \union {NoColumn}]
  BY <1>1, <1>8 DEF Agrees, Rows, CardsAway
<1>10. CardsAgree(z, l, o)
  <2> SUFFICES ASSUME NEW t \in Threads
               PROVE  /\ o[t] = NoColumn => l[t] = First(z) \/ l[t] \notin Range(z)
                      /\ o[t] # NoColumn => l[t] = o[t]
    BY DEF CardsAgree
  <2>1. /\ l[t] = IF k[t] = c THEN First(z) ELSE k[t]
        /\ o[t] = IF q[t] = c THEN NoColumn ELSE q[t]
    BY <1>1, <1>2 DEF CardsAway, WithoutPlaces
  <2>2. /\ q[t] = NoColumn => k[t] = First(s) \/ k[t] \notin Range(s)
        /\ q[t] # NoColumn => k[t] = q[t]
    BY DEF Agrees, CardsAgree
  <2>3. First(s) # c => First(s) = First(z)
    <3>1. i = 1 => First(s) = c
      BY <1>2, <1>3 DEF First
    <3> QED
      BY <1>8, <3>1
  <2> QED
    BY <1>3, <1>4, <2>1, <2>2, <2>3
<1>11. Lists(z, DOMAIN r)
  BY <1>4, <1>6
<1> QED
  BY <1>1, <1>7, <1>9, <1>10, <1>11 DEF Agrees

\* The columns all renumbered in the order of the page.
LEMMA OrderedAgrees ==
    ASSUME NEW p, NEW q, NEW u, Rows(p, q, u),
           NEW s, Lists(s, DOMAIN p), \A x \in 1 .. Len(s) : p[s[x]] = x - 1,
           NEW k \in [Threads -> u], \A t \in Threads : q[t] = k[t]
    PROVE  Agrees(s, k, p, q, u)
<1>1. Len(s) \in Nat
  BY ListFacts
<1>2. InOrder(s, p)
  BY <1>1 DEF InOrder
<1>3. CardsAgree(s, k, q)
  BY RowsFacts DEF CardsAgree
<1> QED
  BY <1>2, <1>3 DEF Agrees

\* What is shown when the page agrees.
LEMMA ShownWhenAgreed ==
    ASSUME NEW p, NEW q, NEW u, Rows(p, q, u),
           NEW s, NEW k, Agrees(s, k, p, q, u)
    PROVE  /\ s \in SetToSeqs(DOMAIN p) /\ InOrder(s, p)
           /\ \A t \in Threads :
                 (IF q[t] \in Range(s) THEN q[t] ELSE First(s))
                    = (IF k[t] \in Range(s) THEN k[t] ELSE First(s))
<1>1. Lists(s, DOMAIN p) /\ InOrder(s, p) /\ CardsAgree(s, k, q)
  BY DEF Agrees
<1>2. s \in SetToSeqs(DOMAIN p)
  BY <1>1, ListsAreSeqs DEF Rows
<1>3. Range(s) = DOMAIN p /\ NoColumn \notin DOMAIN p
  BY <1>1, RangeOfLists, RowsFacts
<1> QED
  BY <1>1, <1>2, <1>3 DEF CardsAgree

-----------------------------------------------------------------------------
(***************************************************************************)
(* How far a request of the board can be, and what its handler remembers.  *)
(***************************************************************************)
JobOK(w) ==
    LET op == job[w].op
    IN  /\ job[w].page \in BOOLEAN
        /\ at[w] = "idle" => job[w] = NoRequest
        /\ job[w].page => op \in BoardOps \union {"load"}
        /\ op = "load" => at[w] \in {"sent", "seed", "cards"}
        /\ op \in BoardOps => at[w] \in {"sent", "write", "ok", "failed"}
        /\ at[w] \in {"seed", "cards"} => op = "load"
        /\ at[w] \in {"ok", "failed"} => op \in BoardOps /\ job[w].page
        /\ at[w] = "seed" \/ (at[w] = "write" /\ op = "reorder") => saw[w] \in Nat \ {0}
        /\ at[w] = "write" /\ op = "create" => saw[w] \in Nat

Jobs == \A w \in Workers : JobOK(w)

BoardRows == Rows(position, placed, used) /\ open \in BOOLEAN

(***************************************************************************)
(* What the page shows while it waits for a request: until the write the   *)
(* board is still as the page showed it before, and after it as it shows   *)
(* it now.                                                                 *)
(***************************************************************************)
Matches(s, k) == Agrees(s, k, position, placed, used)

AwaitsLoad(w) ==
    /\ ~open
    /\ at[w] = "cards" => Lists(job[w].listed, Present) /\ InOrder(job[w].listed, position)

AwaitsMove(w) ==
    LET old == job[w].before
    IN  /\ open
        /\ job[w].target \in Threads
        /\ shown = old.shown /\ cards = [old.cards EXCEPT ![job[w].target] = job[w].to]
        /\ at[w] = "ok" => Matches(shown, cards)
        /\ at[w] # "ok" => Matches(old.shown, old.cards)

AwaitsCreate(w) ==
    /\ open
    /\ at[w] = "write" => \A c \in Present : position[c] < saw[w]
    /\ at[w] = "ok" => Matches(shown \o job[w].listed, cards)
    /\ at[w] # "ok" => Matches(shown, cards)

AwaitsDelete(w) ==
    LET old == job[w].before
    IN  /\ open
        /\ \E i \in 1 .. Len(old.shown) :
              /\ Len(old.shown) > 1
              /\ job[w].to = old.shown[i] /\ shown = RemoveAt(old.shown, i)
        /\ cards = [t \in Threads |-> IF old.cards[t] = job[w].to THEN First(shown)
                                                                  ELSE old.cards[t]]
        /\ at[w] = "ok" => Matches(shown, cards)
        /\ at[w] # "ok" => Matches(old.shown, old.cards)

\* A reorder between its updates: columns before the next one are done.
Halfway(w) == at[w] = "write" /\ saw[w] > 1

AwaitsReorder(w) ==
    LET old == job[w].before
    IN  /\ open
        /\ Lists(shown, Present) /\ Len(shown) > 1
        /\ job[w].to = shown /\ cards = old.cards
        /\ at[w] = "write" => /\ saw[w] \in 1 .. Len(shown)
                              /\ \A k \in 1 .. saw[w] - 1 : position[shown[k]] = k - 1
        /\ Halfway(w) => cards \in [Threads -> used] /\ \A t \in Threads : placed[t] = cards[t]
        /\ at[w] = "ok" => Matches(shown, cards)
        /\ at[w] # "ok" /\ ~Halfway(w) => Matches(old.shown, old.cards)

Awaits(w) ==
    /\ job[w].op = "load" => AwaitsLoad(w)
    /\ job[w].op = "move" => AwaitsMove(w)
    /\ job[w].op = "create" => AwaitsCreate(w)
    /\ job[w].op = "delete" => AwaitsDelete(w)
    /\ job[w].op = "reorder" => AwaitsReorder(w)

PageFollows ==
    /\ \A v, w \in Waiting : v = w
    /\ \A w \in Waiting : Awaits(w)
    /\ open /\ Waiting = {} => Matches(shown, cards)

PageInv == mishaps = {} => PageFollows

Following == BoardIInv /\ BoardRows /\ Jobs /\ PageInv

-----------------------------------------------------------------------------
(* What a step of worker w does to the requests, and to what the page      *)
(* waits for.                                                              *)

Others(w) == \A v \in Workers \ {w} : at'[v] = at[v] /\ job'[v] = job[v] /\ saw'[v] = saw[v]

LEMMA FollowingTypes ==
    ASSUME BoardIInv
    PROVE  /\ at \in [Workers -> Stages] /\ DOMAIN job = Workers /\ DOMAIN saw = Workers
           /\ \A w \in Workers : DOMAIN job[w] = DOMAIN NoRequest
BY DEF BoardIInv, IInv, AccessTypeOK, RequestsOK, RequestOK

LEMMA SendIs ==
    ASSUME BoardIInv, NEW w \in Workers, NEW r, Send(w, r)
    PROVE  /\ Others(w)
           /\ at[w] = "idle" /\ at'[w] = "sent" /\ job'[w] = r /\ saw'[w] = saw[w]
BY FollowingTypes DEF Send, Others

LEMMA LearnsIs ==
    ASSUME BoardIInv, NEW w \in Workers, NEW from, NEW to, NEW r, NEW n,
           Learns(w, from, to, r, n)
    PROVE  /\ Others(w) /\ at[w] = from /\ at'[w] = to
           /\ to = "idle" => job'[w] = NoRequest
           /\ to # "idle" => job'[w] = r /\ saw'[w] = n
BY FollowingTypes DEF Learns, Others

LEMMA JobsKept ==
    ASSUME Jobs, NEW w \in Workers, Others(w), JobOK(w)'
    PROVE  Jobs'
<1> SUFFICES ASSUME NEW v \in Workers, v # w
             PROVE  JobOK(v)'
  BY DEF Jobs
<1>1. at'[v] = at[v] /\ job'[v] = job[v] /\ saw'[v] = saw[v]
  BY DEF Others
<1> QED
  BY <1>1 DEF Jobs, JobOK

\* A request has ended, or is none of the page's.
Aside(w) == at'[w] = "idle" \/ ~job'[w].page

LEMMA WaitingIs ==
    ASSUME NEW w \in Workers, Others(w)
    PROVE  /\ Waiting' \ {w} = Waiting \ {w}
           /\ w \in Waiting' <=> ~Aside(w)
           /\ w \in Waiting <=> at[w] # "idle" /\ job[w].page
BY DEF Waiting, Others, Aside

LEMMA AwaitsSame ==
    ASSUME NEW w \in Workers, NEW v \in Workers \ {w}, Others(w),
           UNCHANGED <<boardVars, shown, cards, open>>, Awaits(v)
    PROVE  Awaits(v)'
<1>1. at'[v] = at[v] /\ job'[v] = job[v] /\ saw'[v] = saw[v]
  BY DEF Others
<1>2. position' = position /\ placed' = placed /\ used' = used
  BY DEF boardVars
<1>3. Present' = Present
  BY <1>2 DEF Present
<1>4. job[v].op = "load" => AwaitsLoad(v)'
  BY <1>1, <1>2, <1>3 DEF Awaits, AwaitsLoad
<1>5. job[v].op = "move" => AwaitsMove(v)'
  BY <1>1, <1>2, <1>3 DEF Awaits, AwaitsMove, Matches
<1>6. job[v].op = "create" => AwaitsCreate(v)'
  BY <1>1, <1>2, <1>3 DEF Awaits, AwaitsCreate, Matches
<1>7. job[v].op = "delete" => AwaitsDelete(v)'
  BY <1>1, <1>2, <1>3 DEF Awaits, AwaitsDelete, Matches
<1>8. job[v].op = "reorder" => AwaitsReorder(v)'
  BY <1>1, <1>2, <1>3 DEF Awaits, AwaitsReorder, Matches, Halfway
<1> QED
  BY <1>1, <1>4, <1>5, <1>6, <1>7, <1>8 DEF Awaits

\* A step that is none of the page's and writes nothing.
LEMMA QuietStep ==
    ASSUME PageInv, NEW w \in Workers, Others(w),
           at[w] = "idle" \/ ~job[w].page, Aside(w),
           UNCHANGED <<boardVars, shown, cards, open>>, mishaps \subseteq mishaps'
    PROVE  PageInv'
<1> SUFFICES ASSUME mishaps' = {}
             PROVE  PageFollows'
  BY DEF PageInv
<1>1. PageFollows
  BY DEF PageInv
<1>2. Waiting' = Waiting /\ w \notin Waiting
  <2>1. w \notin Waiting' /\ w \notin Waiting /\ Waiting' \ {w} = Waiting \ {w}
    BY WaitingIs
  <2> QED
    BY <2>1
<1>3. \A v \in Waiting' : Awaits(v)'
  BY <1>1, <1>2, AwaitsSame DEF PageFollows, Waiting
<1>4. open' /\ Waiting' = {} => Matches(shown, cards)'
  BY <1>1, <1>2 DEF PageFollows, Matches, boardVars
<1> QED
  BY <1>1, <1>2, <1>3, <1>4 DEF PageFollows

\* A write of somebody else's.
LEMMA ForeignStep ==
    ASSUME PageInv, NEW w \in Workers, Others(w), ~job[w].page, Aside(w),
           UNCHANGED open, Foreign(w) => mishaps' # {}
    PROVE  PageInv'
<1> SUFFICES ASSUME mishaps' = {}
             PROVE  PageFollows'
  BY DEF PageInv
<1>1. ~open /\ Waiting = {}
  BY DEF Foreign
<1>2. Waiting' = {}
  BY <1>1, WaitingIs
<1> QED
  BY <1>1, <1>2 DEF PageFollows

\* A step of a request of the page's, the only one.
LEMMA OwnStep ==
    ASSUME NEW w \in Workers, Others(w),
           mishaps' = {} => Waiting \subseteq {w},
           mishaps' = {} /\ ~Aside(w) => Awaits(w)',
           mishaps' = {} /\ Aside(w) /\ open' => Matches(shown, cards)'
    PROVE  PageInv'
<1> SUFFICES ASSUME mishaps' = {}
             PROVE  PageFollows'
  BY DEF PageInv
<1>1. Waiting' \subseteq {w} /\ (w \in Waiting' <=> ~Aside(w))
  BY WaitingIs
<1>2. \A v \in Waiting' : Awaits(v)'
  BY <1>1
<1>3. open' /\ Waiting' = {} => Matches(shown, cards)'
  BY <1>1
<1> QED
  BY <1>1, <1>2, <1>3 DEF PageFollows

\* What is known when the page waits for w, and nothing has gone wrong.
LEMMA OnlyOne ==
    ASSUME PageInv, mishaps = {}, NEW w \in Workers, at[w] # "idle", job[w].page
    PROVE  Waiting \subseteq {w} /\ Awaits(w)
BY DEF PageInv, PageFollows, Waiting

-----------------------------------------------------------------------------
(* The steps that start a request.                                         *)

LEMMA RowsSame ==
    ASSUME BoardRows, UNCHANGED boardVars, open' \in BOOLEAN
    PROVE  BoardRows'
BY DEF BoardRows, boardVars

LEMMA AccessKeepsPage ==
    ASSUME Following, AccessNext, UNCHANGED <<boardVars, pageVars>>
    PROVE  BoardRows' /\ Jobs' /\ PageInv'
<1> USE DEF Following
<1>1. PICK w \in Workers :
         \/ AskMember(w) \/ CheckMember(w) \/ WriteMember(w)
         \/ AskAssign(w) \/ CheckAssign(w) \/ CheckAssignee(w)
         \/ WriteAssign(w) \/ WriteUnassign(w) \/ WriteResolve(w) \/ WriteReopen(w)
  BY DEF AccessNext
<1>2. UNCHANGED <<boardVars, shown, cards, open>> /\ mishaps' = mishaps
  BY DEF pageVars
<1>3. BoardRows'
  BY <1>2, RowsSame DEF BoardRows
<1>4. ASSUME NEW r, Send(w, r), r.page = FALSE, r.op \in MemberOps \union AssignOps
      PROVE  Jobs' /\ PageInv'
  <2>1. Others(w) /\ at[w] = "idle" /\ at'[w] = "sent" /\ job'[w] = r
    BY <1>4, SendIs
  <2>2. JobOK(w)'
    BY <1>4, <2>1 DEF JobOK, BoardOps, MemberOps, AssignOps
  <2>3. Aside(w)
    BY <1>4, <2>1 DEF Aside
  <2> QED
    BY <1>2, <2>1, <2>2, <2>3, JobsKept, QuietStep
<1>5. ASSUME NEW from \in Stages \ {"idle"}, NEW to \in {"idle", "target", "write"}, NEW n,
             Learns(w, from, to, job[w], n), job[w].op \in MemberOps \union AssignOps
      PROVE  Jobs' /\ PageInv'
  <2>1. /\ Others(w) /\ at[w] = from /\ at'[w] = to
        /\ to = "idle" => job'[w] = NoRequest
        /\ to # "idle" => job'[w] = job[w]
    BY <1>5, LearnsIs
  <2>2. JobOK(w) /\ job[w].page = FALSE
    BY <1>5 DEF Jobs, JobOK, BoardOps, MemberOps, AssignOps
  <2>3. NoRequest.page = FALSE /\ NoRequest.op = "none"
    BY DEF NoRequest, Request
  <2>4. JobOK(w)'
    BY <1>5, <2>1, <2>2, <2>3 DEF JobOK, BoardOps, MemberOps, AssignOps
  <2>5. Aside(w)
    BY <2>1, <2>2, <2>3 DEF Aside
  <2> QED
    BY <1>2, <2>1, <2>2, <2>4, <2>5, JobsKept, QuietStep
<1>6. CASE AskMember(w)
  <2>1. PICK op, u, t, c : op \in MemberOps /\ Send(w, Request(op, u, t, c))
    BY <1>6 DEF AskMember, MemberOps
  <2>2. PICK r : r = Request(op, u, t, c)
    OBVIOUS
  <2>3. r.page = FALSE /\ r.op = op
    BY <2>2 DEF Request
  <2> QED
    BY <1>4, <1>3, <2>1, <2>2, <2>3
<1>7. CASE AskAssign(w)
  <2>1. PICK op, u, t, c : op \in AssignOps /\ Send(w, Request(op, u, t, c))
    BY <1>7 DEF AskAssign, AssignOps
  <2>2. PICK r : r = Request(op, u, t, c)
    OBVIOUS
  <2>3. r.page = FALSE /\ r.op = op
    BY <2>2 DEF Request
  <2> QED
    BY <1>4, <1>3, <2>1, <2>2, <2>3
<1>8. CASE ~(AskMember(w) \/ AskAssign(w))
  <2>1. PICK from \in Stages \ {"idle"}, to \in {"idle", "target", "write"} : \E n :
           Learns(w, from, to, job[w], n) /\ job[w].op \in MemberOps \union AssignOps
    <3>1. CASE CheckMember(w)
      BY <3>1 DEF CheckMember, Goes, Stages
    <3>2. CASE WriteMember(w)
      BY <3>2 DEF WriteMember, Goes, Stages
    <3>3. CASE CheckAssign(w)
      BY <3>3 DEF CheckAssign, Stages
    <3>4. CASE CheckAssignee(w)
      <4>1. job[w].op = "assign"
        BY <3>4, LearnsIs DEF CheckAssignee, Goes, BoardIInv, IInv, RequestsOK, RequestOK
      <4> QED
        BY <3>4, <4>1 DEF CheckAssignee, Goes, Stages, AssignOps
    <3>5. CASE WriteAssign(w) \/ WriteUnassign(w) \/ WriteResolve(w) \/ WriteReopen(w)
      BY <3>5 DEF WriteAssign, WriteUnassign, WriteResolve, WriteReopen, Goes, Stages, AssignOps
    <3> QED
      BY <1>1, <1>8, <3>1, <3>2, <3>3, <3>4, <3>5
  <2> QED
    BY <1>5, <1>3, <2>1
<1> QED
  BY <1>1, <1>6, <1>7, <1>8

LEMMA AskKeepsPage ==
    ASSUME Following, NEW w \in Workers, AskBoard(w)
    PROVE  BoardRows' /\ Jobs' /\ PageInv'
<1> USE DEF Following
<1>1. PICK r : Send(w, r) /\ r.page = FALSE /\ r.op \in BoardOps \union {"load"}
  <2>1. PICK op, u, t, c :
           op \in BoardOps \union {"load"} /\ Send(w, Request(op, u, t, c))
    BY DEF AskBoard, BoardOps
  <2>2. PICK r : r = Request(op, u, t, c)
    OBVIOUS
  <2>3. r.page = FALSE /\ r.op = op
    BY <2>2 DEF Request
  <2> QED
    BY <2>1, <2>2, <2>3
<1>2. UNCHANGED <<boardVars, shown, cards, open>> /\ mishaps' = mishaps
  BY DEF AskBoard, pageVars
<1>3. Others(w) /\ at[w] = "idle" /\ at'[w] = "sent" /\ job'[w] = r
  BY <1>1, SendIs
<1>4. JobOK(w)'
  BY <1>1, <1>3 DEF JobOK, BoardOps
<1>5. Aside(w)
  BY <1>1, <1>3 DEF Aside
<1> QED
  BY <1>2, <1>3, <1>4, <1>5, JobsKept, QuietStep, RowsSame DEF BoardRows

LEMMA PageAsksIs ==
    ASSUME Following, NEW w \in Workers, NEW q, DOMAIN q = DOMAIN NoRequest,
           q.op \in BoardOps \union {"load"}, PageAsks(w, q)
    PROVE  /\ BoardRows' /\ Jobs' /\ Others(w) /\ ~Aside(w)
           /\ position' = position /\ placed' = placed /\ used' = used /\ open' = open
           /\ at[w] = "idle" /\ at'[w] = "sent"
           /\ job'[w].op = q.op /\ job'[w].target = q.target /\ job'[w].to = q.to
           /\ job'[w].before.shown = shown /\ job'[w].before.cards = cards
           /\ mishaps' = {} => mishaps = {} /\ Waiting = {}
<1> USE DEF Following
<1>1. PICK r : r = [q EXCEPT !.page = TRUE, !.before = [shown |-> shown, cards |-> cards]]
  OBVIOUS
<1>2. Send(w, r) /\ UNCHANGED <<boardVars, open>>
  BY <1>1 DEF PageAsks
<1>3. /\ r.page = TRUE /\ r.op = q.op /\ r.target = q.target /\ r.to = q.to
      /\ r.before = [shown |-> shown, cards |-> cards]
  BY <1>1 DEF NoRequest, Request
<1>4. Others(w) /\ at[w] = "idle" /\ at'[w] = "sent" /\ job'[w] = r
  BY <1>2, SendIs
<1>5. JobOK(w)'
  BY <1>3, <1>4 DEF JobOK, BoardOps
<1>6. ~Aside(w)
  BY <1>3, <1>4 DEF Aside
<1>7. mishaps' = {} => mishaps = {} /\ Waiting = {}
  BY DEF PageAsks, Mishap
<1>8. BoardRows' /\ Jobs'
  BY <1>2, <1>4, <1>5, JobsKept, RowsSame DEF BoardRows
<1> QED
  BY <1>2, <1>3, <1>4, <1>6, <1>7, <1>8 DEF boardVars

LEMMA PageLoadKeeps ==
    ASSUME Following, NEW w \in Workers, PageLoad(w)
    PROVE  BoardRows' /\ Jobs' /\ PageInv'
<1>1. PICK q : q = Request("load", Creator, Nobody, "none") /\ PageAsks(w, q)
  BY DEF PageLoad
<1>2. DOMAIN q = DOMAIN NoRequest /\ q.op = "load" /\ q.op \in BoardOps \union {"load"}
  BY <1>1 DEF Request, NoRequest, BoardOps
<1>3. /\ BoardRows' /\ Jobs' /\ Others(w) /\ ~Aside(w)
      /\ at'[w] = "sent" /\ job'[w].op = "load" /\ open' = open
      /\ mishaps' = {} => Waiting = {}
  BY <1>1, <1>2, PageAsksIs
<1>4. AwaitsLoad(w)'
  BY <1>3 DEF AwaitsLoad, PageLoad
<1>5. Awaits(w)'
  BY <1>3, <1>4 DEF Awaits
<1> QED
  BY <1>3, <1>5, OwnStep

LEMMA PageMoveKeeps ==
    ASSUME Following, NEW w \in Workers, PageMove(w)
    PROVE  BoardRows' /\ Jobs' /\ PageInv'
<1>1. PICK t \in Threads, c \in Range(shown) \ {NoColumn} :
         /\ open /\ cards' = [cards EXCEPT ![t] = c] /\ shown' = shown
         /\ PageAsks(w, Request("move", Creator, t, c))
  BY DEF PageMove
<1>2. PICK q : q = Request("move", Creator, t, c)
  OBVIOUS
<1>3. /\ DOMAIN q = DOMAIN NoRequest /\ q.op = "move" /\ q.op \in BoardOps \union {"load"}
      /\ q.target = t /\ q.to = c
  BY <1>2 DEF Request, NoRequest, BoardOps
<1>4. /\ BoardRows' /\ Jobs' /\ Others(w) /\ ~Aside(w)
      /\ position' = position /\ placed' = placed /\ used' = used /\ open' = open
      /\ at'[w] = "sent" /\ job'[w].op = "move" /\ job'[w].target = t /\ job'[w].to = c
      /\ job'[w].before.shown = shown /\ job'[w].before.cards = cards
      /\ mishaps' = {} => mishaps = {} /\ Waiting = {}
  BY <1>1, <1>2, <1>3, PageAsksIs
<1>5. ASSUME mishaps' = {}
      PROVE  Awaits(w)'
  <2>1. Matches(shown, cards)
    BY <1>1, <1>4, <1>5 DEF Following, PageInv, PageFollows
  <2>2. AwaitsMove(w)'
    BY <1>1, <1>4, <2>1 DEF AwaitsMove, Matches
  <2> QED
    BY <1>4, <2>2 DEF Awaits
<1> QED
  BY <1>4, <1>5, OwnStep

LEMMA PageCreateKeeps ==
    ASSUME Following, NEW w \in Workers, PageCreate(w)
    PROVE  BoardRows' /\ Jobs' /\ PageInv'
<1>1. PICK q : q = Request("create", Creator, Nobody, "none") /\ PageAsks(w, q)
  BY DEF PageCreate
<1>2. DOMAIN q = DOMAIN NoRequest /\ q.op = "create" /\ q.op \in BoardOps \union {"load"}
  BY <1>1 DEF Request, NoRequest, BoardOps
<1>3. /\ BoardRows' /\ Jobs' /\ Others(w) /\ ~Aside(w)
      /\ position' = position /\ placed' = placed /\ used' = used /\ open' = open
      /\ at'[w] = "sent" /\ job'[w].op = "create"
      /\ mishaps' = {} => mishaps = {} /\ Waiting = {}
  BY <1>1, <1>2, PageAsksIs
<1>4. open /\ shown' = shown /\ cards' = cards
  BY DEF PageCreate
<1>5. ASSUME mishaps' = {}
      PROVE  Awaits(w)'
  <2>1. Matches(shown, cards)
    BY <1>3, <1>4, <1>5 DEF Following, PageInv, PageFollows
  <2>2. AwaitsCreate(w)'
    BY <1>3, <1>4, <2>1 DEF AwaitsCreate, Matches
  <2> QED
    BY <1>3, <2>2 DEF Awaits
<1> QED
  BY <1>3, <1>5, OwnStep

LEMMA PageDeleteKeeps ==
    ASSUME Following, NEW w \in Workers, PageDelete(w)
    PROVE  BoardRows' /\ Jobs' /\ PageInv'
<1>1. PICK i \in 1 .. Len(shown) :
         /\ open /\ Len(shown) > 1
         /\ shown' = RemoveAt(shown, i)
         /\ cards' = [t \in Threads |-> IF cards[t] = shown[i] THEN First(RemoveAt(shown, i))
                                        ELSE cards[t]]
         /\ PageAsks(w, Request("delete", Creator, Nobody, shown[i]))
  BY DEF PageDelete
<1>2. PICK q, c : c = shown[i] /\ q = Request("delete", Creator, Nobody, c)
  OBVIOUS
<1>3. /\ DOMAIN q = DOMAIN NoRequest /\ q.op = "delete" /\ q.op \in BoardOps \union {"load"}
      /\ q.to = c
  BY <1>2 DEF Request, NoRequest, BoardOps
<1>4. /\ BoardRows' /\ Jobs' /\ Others(w) /\ ~Aside(w)
      /\ position' = position /\ placed' = placed /\ used' = used /\ open' = open
      /\ at'[w] = "sent" /\ job'[w].op = "delete" /\ job'[w].to = c
      /\ job'[w].before.shown = shown /\ job'[w].before.cards = cards
      /\ mishaps' = {} => mishaps = {} /\ Waiting = {}
  BY <1>1, <1>2, <1>3, PageAsksIs
<1>5. ASSUME mishaps' = {}
      PROVE  Awaits(w)'
  <2>1. Matches(shown, cards)
    BY <1>1, <1>4, <1>5 DEF Following, PageInv, PageFollows
  <2>2. cards' = [t \in Threads |-> IF job'[w].before.cards[t] = job'[w].to THEN First(shown')
                                    ELSE job'[w].before.cards[t]]
    BY <1>1, <1>2, <1>4
  <2>3. \E k \in 1 .. Len(job'[w].before.shown) :
           /\ Len(job'[w].before.shown) > 1
           /\ job'[w].to = job'[w].before.shown[k] /\ shown' = RemoveAt(job'[w].before.shown, k)
    BY <1>1, <1>2, <1>4
  <2>4. Matches(job[w].before.shown, job[w].before.cards)'
    BY <1>4, <2>1 DEF Matches
  <2>5. AwaitsDelete(w)'
    BY <1>1, <1>4, <2>2, <2>3, <2>4 DEF AwaitsDelete
  <2> QED
    BY <1>4, <2>5 DEF Awaits
<1> QED
  BY <1>4, <1>5, OwnStep

LEMMA PageReorderKeeps ==
    ASSUME Following, NEW w \in Workers, PageReorder(w)
    PROVE  BoardRows' /\ Jobs' /\ PageInv'
<1>1. PICK i \in 1 .. Len(shown), j \in 1 .. Len(shown) :
         /\ open /\ i # j /\ cards' = cards
         /\ shown' = InsertAt(RemoveAt(shown, i), j, shown[i])
         /\ PageAsks(w, Request("reorder", Creator, Nobody, shown'))
  BY DEF PageReorder
<1>2. PICK q, s : s = shown' /\ q = Request("reorder", Creator, Nobody, s)
  OBVIOUS
<1>3. /\ DOMAIN q = DOMAIN NoRequest /\ q.op = "reorder" /\ q.op \in BoardOps \union {"load"}
      /\ q.to = s
  BY <1>2 DEF Request, NoRequest, BoardOps
<1>4. /\ BoardRows' /\ Jobs' /\ Others(w) /\ ~Aside(w)
      /\ position' = position /\ placed' = placed /\ used' = used /\ open' = open
      /\ at'[w] = "sent" /\ job'[w].op = "reorder" /\ job'[w].to = s
      /\ job'[w].before.shown = shown /\ job'[w].before.cards = cards
      /\ mishaps' = {} => mishaps = {} /\ Waiting = {}
  BY <1>1, <1>2, <1>3, PageAsksIs
<1>5. ASSUME mishaps' = {}
      PROVE  Awaits(w)'
  <2>1. Matches(shown, cards)
    BY <1>1, <1>4, <1>5 DEF Following, PageInv, PageFollows
  <2>2. Lists(shown, Present)
    BY <2>1 DEF Matches, Agrees, Present
  <2>3. Lists(s, Present) /\ Len(s) = Len(shown) /\ Len(shown) \in Nat
    BY <1>1, <1>2, <2>2, PlaceMoved, ListFacts
  <2>4. Len(s) > 1
    BY <1>1, <2>3
  <2>5. Lists(shown', Present') /\ Len(shown') > 1 /\ job'[w].to = shown'
    BY <1>2, <1>4, <2>3, <2>4 DEF Present
  <2>6. Matches(job[w].before.shown, job[w].before.cards)'
    BY <1>4, <2>1 DEF Matches
  <2>7. AwaitsReorder(w)'
    BY <1>1, <1>4, <2>5, <2>6 DEF AwaitsReorder, Halfway
  <2> QED
    BY <1>4, <2>7 DEF Awaits
<1> QED
  BY <1>4, <1>5, OwnStep

-----------------------------------------------------------------------------
(* The checks and the listings.                                            *)

LEMMA CheckedIs ==
    ASSUME Following, NEW w \in Workers, NEW op \in BoardOps, NEW granted, NEW n,
           Checked(w, op, granted, n)
    PROVE  /\ BoardRows' /\ Others(w) /\ job[w].op = op /\ at[w] = "sent"
           /\ UNCHANGED <<boardVars, shown, cards, open>> /\ mishaps' = mishaps
           /\ \/ at'[w] = "idle" /\ ~job[w].page /\ job'[w] = NoRequest
              \/ at'[w] = "failed" /\ job[w].page /\ job'[w] = job[w]
              \/ at'[w] = "write" /\ granted /\ job'[w] = job[w] /\ saw'[w] = n
<1> DEFINE to == IF granted THEN "write" ELSE IF job[w].page THEN "failed" ELSE "idle"
<1>1. Learns(w, "sent", to, job[w], n) /\ job[w].op = op
  BY DEF Checked, Ended
<1>2. UNCHANGED <<boardVars, shown, cards, open>> /\ mishaps' = mishaps
  BY DEF Checked, pageVars
<1>3. /\ Others(w) /\ at[w] = "sent" /\ at'[w] = to
      /\ to = "idle" => job'[w] = NoRequest
      /\ to # "idle" => job'[w] = job[w] /\ saw'[w] = n
  BY <1>1, LearnsIs DEF Following
<1>4. BoardRows'
  BY <1>2, RowsSame DEF Following, BoardRows
<1> QED
  BY <1>1, <1>2, <1>3, <1>4

LEMMA NoRequestAside == NoRequest.page = FALSE /\ NoRequest.op = "none"
BY DEF NoRequest, Request

\* A check by hand of anybody but the page is a quiet step.
LEMMA CheckKeeps ==
    ASSUME Following, NEW w \in Workers, Others(w), at[w] = "sent", job[w].op \in BoardOps,
           UNCHANGED <<boardVars, shown, cards, open>>, mishaps' = mishaps,
           \/ at'[w] = "idle" /\ ~job[w].page /\ job'[w] = NoRequest
           \/ at'[w] = "failed" /\ job[w].page /\ job'[w] = job[w]
           \/ at'[w] = "write" /\ job'[w] = job[w],
           at'[w] = "write" /\ job[w].op = "create" =>
              saw'[w] \in Nat /\ \A c \in Present : position[c] < saw'[w],
           at'[w] = "write" /\ job[w].op = "reorder" => saw'[w] = 1
    PROVE  Jobs' /\ PageInv'
<1>1. JobOK(w)
  BY DEF Following, Jobs
<1>2. JobOK(w)'
  <2>1. CASE at'[w] = "idle"
    BY <1>1, <2>1, NoRequestAside DEF JobOK, BoardOps
  <2>2. CASE at'[w] = "failed"
    BY <1>1, <2>2 DEF JobOK, BoardOps
  <2>3. CASE at'[w] = "write"
    BY <1>1, <2>3 DEF JobOK, BoardOps
  <2> QED
    BY <2>1, <2>2, <2>3
<1>3. Jobs'
  BY <1>2, JobsKept DEF Following
<1>4. CASE ~job[w].page
  <2>1. Aside(w)
    BY <1>4, NoRequestAside DEF Aside
  <2> QED
    BY <1>3, <1>4, <2>1, QuietStep DEF Following
<1>5. CASE job[w].page
  <2>1. at'[w] \in {"failed", "write"} /\ job'[w] = job[w] /\ ~Aside(w)
    BY <1>5 DEF Aside
  <2>2. ASSUME mishaps' = {}
        PROVE  Waiting \subseteq {w} /\ Awaits(w)
    BY <1>5, <2>2, OnlyOne DEF Following
  <2>3. ASSUME mishaps' = {}
        PROVE  Awaits(w)'
    <3>1. position' = position /\ placed' = placed /\ used' = used /\ Present' = Present
      BY DEF boardVars, Present
    <3>2. job[w].op # "load"
      BY DEF BoardOps
    <3>3. job[w].op = "move" => AwaitsMove(w)'
      BY <2>1, <2>2, <2>3, <3>1 DEF Awaits, AwaitsMove, Matches
    <3>4. job[w].op = "create" => AwaitsCreate(w)'
      BY <2>1, <2>2, <2>3, <3>1 DEF Awaits, AwaitsCreate, Matches
    <3>5. job[w].op = "delete" => AwaitsDelete(w)'
      BY <2>1, <2>2, <2>3, <3>1 DEF Awaits, AwaitsDelete, Matches
    <3>6. ASSUME job[w].op = "reorder"
          PROVE  AwaitsReorder(w)'
      <4>1. AwaitsReorder(w) /\ ~Halfway(w)
        BY <2>2, <2>3, <3>6 DEF Awaits, Halfway
      <4>2. Len(shown) \in Nat /\ Len(shown) > 1
        BY <4>1, ListFacts DEF AwaitsReorder
      <4>3. at'[w] = "write" => saw'[w] \in 1 .. Len(shown) /\ ~Halfway(w)'
                                /\ 1 .. saw'[w] - 1 = {}
        BY <3>6, <4>2 DEF Halfway
      <4>4. ~Halfway(w)'
        BY <4>3 DEF Halfway
      <4> QED
        BY <2>1, <3>1, <4>1, <4>3, <4>4 DEF AwaitsReorder, Matches
    <3> QED
      BY <2>1, <3>2, <3>3, <3>4, <3>5, <3>6 DEF Awaits
  <2> QED
    BY <1>3, <2>1, <2>2, <2>3, OwnStep
<1> QED
  BY <1>3, <1>4, <1>5

\* The next position is after all the others.
LEMMA NextPosition ==
    ASSUME BoardRows,
           NEW n, n = IF Present = {} THEN 0 ELSE Max({position[c] : c \in Present}) + 1
    PROVE  n \in Nat /\ \A c \in Present : position[c] < n
<1> DEFINE S == {position[c] : c \in Present}
<1>1. IsFiniteSet(Present) /\ \A c \in Present : position[c] \in Nat
  BY DEF BoardRows, Rows, Present
<1>2. S \in SUBSET Nat
  BY <1>1
<1>3. IsFiniteSet(S)
  <2> DEFINE f == [c \in Present |-> position[c]]
  <2>1. f \in Surjection(Present, S)
    BY DEF Surjection
  <2> QED
    BY <1>1, <2>1, FS_Surjection
<1>4. CASE Present = {}
  BY <1>4
<1>5. CASE Present # {}
  <2>1. S # {} /\ \A c \in Present : position[c] \in S
    BY <1>5
  <2>2. Max(S) \in S /\ \A k \in S : k <= Max(S)
    BY <1>2, <1>3, <2>1, GreatestThereIs
  <2>3. PICK m : m = Max(S)
    OBVIOUS
  <2> HIDE DEF S
  <2>4. m \in Nat /\ \A c \in Present : position[c] <= m
    BY <1>2, <2>1, <2>2, <2>3
  <2>5. n = m + 1
    BY <1>5, <2>3 DEF S
  <2> QED
    BY <1>1, <2>4, <2>5
<1> QED
  BY <1>4, <1>5

LEMMA ChecksKeepPage ==
    ASSUME Following, NEW w \in Workers,
           CheckMove(w) \/ CheckCreate(w) \/ CheckDelete(w) \/ CheckReorder(w)
    PROVE  BoardRows' /\ Jobs' /\ PageInv'
<1>1. CASE CheckMove(w)
  <2>1. PICK granted : Checked(w, "move", granted, 0) /\ "move" \in BoardOps
    BY <1>1 DEF CheckMove, BoardOps
  <2> QED
    BY <2>1, CheckedIs, CheckKeeps
<1>2. CASE CheckDelete(w)
  <2>1. PICK granted : Checked(w, "delete", granted, 0) /\ "delete" \in BoardOps
    BY <1>2 DEF CheckDelete, BoardOps
  <2> QED
    BY <2>1, CheckedIs, CheckKeeps
<1>3. CASE CheckReorder(w)
  <2>1. PICK granted : Checked(w, "reorder", granted, 1) /\ "reorder" \in BoardOps
    BY <1>3 DEF CheckReorder, BoardOps
  <2> QED
    BY <2>1, CheckedIs, CheckKeeps
<1>4. CASE CheckCreate(w)
  <2>1. PICK granted, n :
           /\ Checked(w, "create", granted, n) /\ "create" \in BoardOps
           /\ n = IF Present = {} THEN 0 ELSE Max({position[c] : c \in Present}) + 1
    BY <1>4 DEF CheckCreate, BoardOps
  <2>2. n \in Nat /\ \A c \in Present : position[c] < n
    BY <2>1, NextPosition DEF Following
  <2> QED
    BY <2>1, <2>2, CheckedIs, CheckKeeps
<1> QED
  BY <1>1, <1>2, <1>3, <1>4

\* What a handler lists.
LEMMA ListedIs ==
    ASSUME BoardRows, NEW s \in Listings
    PROVE  Lists(s, Present) /\ InOrder(s, position)
<1>1. s \in SetToSeqs(Present) /\ InOrder(s, position)
  BY DEF Listings, InOrder
<1> QED
  BY <1>1, ListsAreSeqs DEF BoardRows, Rows, Present

LEMMA ListingKeeps ==
    ASSUME Following, NEW w \in Workers, NEW s \in Listings, NEW from \in {"sent", "seed"},
           NEW to \in {"idle", "seed", "cards"}, NEW n \in Nat \ {0}, job[w].op = "load",
           Learns(w, from, to, [job[w] EXCEPT !.listed = s], n),
           UNCHANGED <<boardVars, pageVars>>
    PROVE  BoardRows' /\ Jobs' /\ PageInv'
<1>1. PICK r : r = [job[w] EXCEPT !.listed = s]
  OBVIOUS
<1>2. DOMAIN job[w] = DOMAIN NoRequest
  BY FollowingTypes DEF Following
<1>3. r.page = job[w].page /\ r.op = "load" /\ r.listed = s
  BY <1>1, <1>2 DEF NoRequest, Request
<1>4. /\ Others(w) /\ at[w] = from /\ at'[w] = to
      /\ to = "idle" => job'[w] = NoRequest
      /\ to # "idle" => job'[w] = r /\ saw'[w] = n
  BY <1>1, LearnsIs DEF Following
<1>5. JobOK(w)
  BY DEF Following, Jobs
<1>6. JobOK(w)'
  BY <1>3, <1>4, <1>5, NoRequestAside DEF JobOK, BoardOps
<1>7. UNCHANGED <<boardVars, shown, cards, open>> /\ mishaps' = mishaps
  BY DEF pageVars
<1>8. BoardRows' /\ Jobs'
  BY <1>4, <1>6, <1>7, JobsKept, RowsSame DEF Following, BoardRows
<1>9. CASE ~job[w].page
  <2>1. Aside(w)
    BY <1>3, <1>4, <1>9, NoRequestAside DEF Aside
  <2> QED
    BY <1>4, <1>7, <1>8, <1>9, <2>1, QuietStep DEF Following
<1>10. CASE job[w].page
  <2>1. ASSUME mishaps' = {}
        PROVE  Waiting \subseteq {w} /\ ~open
    BY <1>4, <1>7, <1>10, <2>1, OnlyOne DEF Following, Awaits, AwaitsLoad
  <2>2. ASSUME mishaps' = {}, ~Aside(w)
        PROVE  Awaits(w)'
    <3>1. job'[w] = r /\ to # "idle"
      BY <1>4, <2>2 DEF Aside
    <3>2. Lists(s, Present) /\ InOrder(s, position)
      BY ListedIs DEF Following
    <3>3. position' = position /\ Present' = Present
      BY <1>7 DEF boardVars, Present
    <3>4. AwaitsLoad(w)'
      BY <1>3, <1>7, <2>1, <2>2, <3>1, <3>2, <3>3 DEF AwaitsLoad
    <3> QED
      BY <1>3, <3>1, <3>4 DEF Awaits
  <2> QED
    BY <1>4, <1>7, <1>8, <2>1, <2>2, OwnStep
<1> QED
  BY <1>9, <1>10

LEMMA ListingsKeepPage ==
    ASSUME Following, NEW w \in Workers, CheckLoad(w) \/ ListSeeded(w)
    PROVE  BoardRows' /\ Jobs' /\ PageInv'
<1>1. CASE CheckLoad(w)
  <2>1. PICK s \in Listings :
           Learns(w, "sent", IF job[w].by \notin Members THEN "idle"
                             ELSE IF Present = {} THEN "seed" ELSE "cards",
                  [job[w] EXCEPT !.listed = s], 1)
    BY <1>1 DEF CheckLoad
  <2>2. UNCHANGED <<boardVars, pageVars>> /\ job[w].op = "load"
    BY <1>1 DEF CheckLoad
  <2> QED
    BY <2>1, <2>2, ListingKeeps
<1>2. CASE ListSeeded(w)
  <2>1. PICK s \in Listings : Learns(w, "seed", "cards", [job[w] EXCEPT !.listed = s], saw[w])
    BY <1>2 DEF ListSeeded
  <2>2. UNCHANGED <<boardVars, pageVars>>
    BY <1>2 DEF ListSeeded, boardVars
  <2>3. at[w] = "seed"
    BY <2>1 DEF Learns
  <2>4. job[w].op = "load" /\ saw[w] \in Nat \ {0}
    BY <2>3 DEF Following, Jobs, JobOK
  <2> QED
    BY <2>1, <2>2, <2>4, ListingKeeps
<1> QED
  BY <1>1, <1>2

LEMMA LoadKeepsPage ==
    ASSUME Following, NEW w \in Workers, LoadCards(w)
    PROVE  BoardRows' /\ Jobs' /\ PageInv'
<1>1. Others(w) /\ at[w] = "cards" /\ at'[w] = "idle" /\ job'[w] = NoRequest
  BY LearnsIs DEF LoadCards, Goes, Following
<1>2. JobOK(w)'
  BY <1>1, NoRequestAside DEF JobOK, BoardOps
<1>3. Aside(w) /\ UNCHANGED boardVars /\ mishaps' = mishaps
  BY <1>1 DEF LoadCards, Aside
<1>4. open' \in BOOLEAN
  BY DEF LoadCards, Following, BoardRows
<1>5. BoardRows' /\ Jobs'
  BY <1>1, <1>2, <1>3, <1>4, JobsKept, RowsSame DEF Following
<1>6. CASE ~job[w].page
  BY <1>1, <1>3, <1>5, <1>6, QuietStep DEF LoadCards, Following
<1>7. CASE job[w].page
  <2>1. ASSUME mishaps' = {}
        PROVE  /\ Waiting \subseteq {w}
               /\ Lists(job[w].listed, Present) /\ InOrder(job[w].listed, position)
    <3>1. job[w].op = "load"
      BY <1>1 DEF Following, Jobs, JobOK
    <3> QED
      BY <1>1, <1>3, <1>7, <2>1, <3>1, OnlyOne DEF Following, Awaits, AwaitsLoad
  <2>2. ASSUME mishaps' = {}
        PROVE  Matches(shown, cards)'
    <3>1. shown' = job[w].listed
      BY <1>7 DEF LoadCards
    <3>2. cards' = [t \in Threads |-> IF placed[t] \in Range(job[w].listed) THEN placed[t]
                                      ELSE First(job[w].listed)]
      BY <1>7 DEF LoadCards, ColumnOf
    <3>3. PICK s, k : s = shown' /\ k = cards'
      OBVIOUS
    <3>4. Agrees(s, k, position, placed, used)
      BY <2>1, <2>2, <3>1, <3>2, <3>3, LoadedAgrees DEF Following, BoardRows, Present
    <3> QED
      BY <1>3, <3>3, <3>4 DEF Matches, boardVars
  <2> QED
    BY <1>1, <1>3, <1>5, <2>1, <2>2, OwnStep
<1> QED
  BY <1>6, <1>7

-----------------------------------------------------------------------------
(* The writes.                                                             *)

LEMMA RowsGrow ==
    ASSUME NEW p, NEW q, NEW u, Rows(p, q, u), NEW c \in Columns, NEW n \in Nat
    PROVE  Rows([x \in DOMAIN p \union {c} |-> IF x \in DOMAIN p THEN p[x] ELSE n], q,
                u \union {c})
<1>1. IsFiniteSet(DOMAIN p \union {c})
  BY FS_AddElement DEF Rows
<1> QED
  BY <1>1 DEF Rows

LEMMA SeedKeepsPage ==
    ASSUME Following, NEW w \in Workers, SeedColumn(w)
    PROVE  BoardRows' /\ Jobs' /\ PageInv'
<1>1. PICK i, d : i = saw[w] /\ d = Defaults[i]
  OBVIOUS
<1>2. /\ Learns(w, "seed", "seed", job[w], i + 1) /\ i <= Len(Defaults)
      /\ position' = WithColumn(d, i - 1) /\ used' = used \union {d}
      /\ placed' = placed /\ open' = open
      /\ mishaps' = IF Foreign(w) THEN mishaps \union {"foreign"} ELSE mishaps
  BY <1>1 DEF SeedColumn, Mishap
<1>3. Others(w) /\ at[w] = "seed" /\ at'[w] = "seed" /\ job'[w] = job[w] /\ saw'[w] = i + 1
  BY <1>2, LearnsIs DEF Following
<1>4. JobOK(w) /\ job[w].op = "load" /\ i \in Nat \ {0}
  BY <1>1, <1>3 DEF Following, Jobs, JobOK
<1>5. Jobs'
  <2>1. JobOK(w)'
    BY <1>3, <1>4 DEF JobOK, BoardOps
  <2> QED
    BY <1>3, <2>1, JobsKept DEF Following
<1>6. BoardRows'
  <2>1. d \in Columns /\ i - 1 \in Nat
    BY <1>1, <1>2, <1>4, BoardAssumption
  <2>2. PICK n : n = i - 1
    OBVIOUS
  <2>3. Rows([x \in DOMAIN position \union {d} |->
                 IF x \in DOMAIN position THEN position[x] ELSE n], placed, used \union {d})
    BY <2>1, <2>2, RowsGrow DEF Following, BoardRows
  <2> QED
    BY <1>2, <2>2, <2>3 DEF Following, BoardRows, WithColumn, Present
<1>7. CASE ~job[w].page
  BY <1>2, <1>3, <1>5, <1>6, <1>7, ForeignStep DEF Following, Aside
<1>8. CASE job[w].page
  <2>1. ASSUME mishaps' = {}
        PROVE  Waiting \subseteq {w} /\ ~open
    <3>1. mishaps = {}
      BY <1>2, <2>1
    <3> QED
      BY <1>3, <1>4, <1>8, <3>1, OnlyOne DEF Following, Awaits, AwaitsLoad
  <2>2. ASSUME mishaps' = {}
        PROVE  Awaits(w)'
    <3>1. AwaitsLoad(w)'
      BY <1>2, <1>3, <2>1, <2>2 DEF AwaitsLoad
    <3> QED
      BY <1>3, <1>4, <3>1 DEF Awaits
  <2>3. ~Aside(w)
    BY <1>3, <1>8 DEF Aside
  <2> QED
    BY <1>3, <1>5, <1>6, <2>1, <2>2, <2>3, OwnStep
<1> QED
  BY <1>7, <1>8

\* What a write that ends the request does to it.
LEMMA WrittenIs ==
    ASSUME Following, NEW w \in Workers, NEW r, r.op = job[w].op, r.page = job[w].page,
           job[w].op \in BoardOps, NEW n, NEW answer \in {"ok", "failed"},
           Learns(w, "write", Ended(w, answer), r, n)
    PROVE  /\ Jobs' /\ Others(w) /\ at[w] = "write"
           /\ ~job[w].page => Aside(w)
           /\ job[w].page => at'[w] = answer /\ job'[w] = r /\ ~Aside(w)
<1>1. /\ Others(w) /\ at[w] = "write" /\ at'[w] = Ended(w, answer)
      /\ at'[w] = "idle" => job'[w] = NoRequest
      /\ at'[w] # "idle" => job'[w] = r
  BY LearnsIs DEF Following
<1>2. Ended(w, answer) = IF job[w].page THEN answer ELSE "idle"
  BY DEF Ended
<1>3. JobOK(w)
  BY DEF Following, Jobs
<1>4. JobOK(w)'
  BY <1>1, <1>2, <1>3, NoRequestAside DEF JobOK, BoardOps
<1> QED
  BY <1>1, <1>2, <1>4, JobsKept DEF Following, Aside

LEMMA WriteMoveKeeps ==
    ASSUME Following, NEW w \in Workers, WriteMove(w)
    PROVE  BoardRows' /\ Jobs' /\ PageInv'
<1>1. PICK c, t, n : c = job[w].to /\ t = job[w].target /\ n = saw[w]
  OBVIOUS
<1>2. PICK answer \in {"ok", "failed"} :
         /\ Learns(w, "write", Ended(w, answer), job[w], n)
         /\ answer = "ok" => c \in Present /\ placed' = [placed EXCEPT ![t] = c]
         /\ answer = "failed" => placed' = placed
  BY <1>1 DEF WriteMove, Goes
<1>3. /\ job[w].op = "move" /\ job[w].op \in BoardOps
      /\ position' = position /\ used' = used
      /\ shown' = shown /\ cards' = cards /\ open' = open
      /\ mishaps' = IF Foreign(w) THEN mishaps \union {"foreign"} ELSE mishaps
  BY DEF WriteMove, Mishap, BoardOps
<1>4. /\ Jobs' /\ Others(w) /\ at[w] = "write"
      /\ ~job[w].page => Aside(w)
      /\ job[w].page => at'[w] = answer /\ job'[w] = job[w] /\ ~Aside(w)
  BY <1>2, <1>3, WrittenIs
<1>5. BoardRows'
  <2>1. placed' \in [Threads -> DOMAIN position \union {NoColumn}]
    BY <1>2 DEF Following, BoardRows, Rows, Present
  <2> QED
    BY <1>3, <2>1 DEF Following, BoardRows, Rows
<1>6. CASE ~job[w].page
  BY <1>3, <1>4, <1>5, <1>6, ForeignStep DEF Following
<1>7. CASE job[w].page
  <2>1. ASSUME mishaps' = {}
        PROVE  Waiting \subseteq {w} /\ AwaitsMove(w)
    <3>1. mishaps = {}
      BY <1>3, <2>1
    <3> QED
      BY <1>3, <1>4, <1>7, <3>1, OnlyOne DEF Following, Awaits
  <2>2. ASSUME mishaps' = {}
        PROVE  Awaits(w)'
    <3>1. PICK s, k : s = job[w].before.shown /\ k = job[w].before.cards
      OBVIOUS
    <3>2. /\ open /\ t \in Threads /\ shown = s /\ cards = [k EXCEPT ![t] = c]
          /\ Agrees(s, k, position, placed, used)
      BY <1>1, <1>2, <1>4, <2>1, <2>2, <3>1 DEF AwaitsMove, Matches
    <3>3. CASE answer = "ok"
      <4>1. Agrees(s, [k EXCEPT ![t] = c], position, [placed EXCEPT ![t] = c], used)
        BY <1>2, <3>2, <3>3, MovedAgrees DEF Following, BoardRows, Present
      <4>2. Matches(shown, cards)'
        BY <1>2, <1>3, <3>2, <3>3, <4>1 DEF Matches
      <4>3. AwaitsMove(w)'
        BY <1>1, <1>2, <1>3, <1>4, <1>7, <3>1, <3>2, <3>3, <4>2 DEF AwaitsMove
      <4> QED
        BY <1>3, <1>4, <1>7, <4>3 DEF Awaits
    <3>4. CASE answer = "failed"
      <4>1. AwaitsMove(w)'
        BY <1>1, <1>2, <1>3, <1>4, <1>7, <3>1, <3>2, <3>4 DEF AwaitsMove, Matches
      <4> QED
        BY <1>3, <1>4, <1>7, <4>1 DEF Awaits
    <3> QED
      BY <3>3, <3>4
  <2> QED
    BY <1>4, <1>5, <1>7, <2>1, <2>2, OwnStep
<1> QED
  BY <1>6, <1>7

LEMMA WriteCreateKeeps ==
    ASSUME Following, NEW w \in Workers, WriteCreate(w)
    PROVE  BoardRows' /\ Jobs' /\ PageInv'
<1>1. PICK n : n = saw[w]
  OBVIOUS
<1>2. PICK c \in Columns \ used :
         /\ Learns(w, "write", Ended(w, "ok"), [job[w] EXCEPT !.listed = <<c>>], n)
         /\ position' = WithColumn(c, n) /\ used' = used \union {c}
         /\ placed' = placed /\ shown' = shown /\ cards' = cards /\ open' = open
         /\ mishaps' = IF Foreign(w) THEN mishaps \union {"foreign"} ELSE mishaps
  BY <1>1 DEF WriteCreate, Mishap
<1>3. PICK r : r = [job[w] EXCEPT !.listed = <<c>>]
  OBVIOUS
<1>4. job[w].op = "create" /\ job[w].op \in BoardOps
  BY DEF WriteCreate, BoardOps
<1>5. r.op = job[w].op /\ r.page = job[w].page /\ r.listed = <<c>>
  <2>1. DOMAIN job[w] = DOMAIN NoRequest
    BY FollowingTypes DEF Following
  <2> QED
    BY <1>3, <2>1 DEF NoRequest, Request
<1>6. /\ Jobs' /\ Others(w) /\ at[w] = "write"
      /\ ~job[w].page => Aside(w)
      /\ job[w].page => at'[w] = "ok" /\ job'[w] = r /\ ~Aside(w)
  BY <1>2, <1>3, <1>4, <1>5, WrittenIs
<1>7. n \in Nat
  BY <1>1, <1>4, <1>6 DEF Following, Jobs, JobOK
<1>8. BoardRows'
  BY <1>2, <1>7, RowsGrow DEF Following, BoardRows, WithColumn, Present
<1>9. CASE ~job[w].page
  BY <1>2, <1>6, <1>8, <1>9, ForeignStep DEF Following
<1>10. CASE job[w].page
  <2>1. ASSUME mishaps' = {}
        PROVE  Waiting \subseteq {w} /\ AwaitsCreate(w)
    <3>1. mishaps = {}
      BY <1>2, <2>1
    <3> QED
      BY <1>4, <1>6, <1>10, <3>1, OnlyOne DEF Following, Awaits
  <2>2. ASSUME mishaps' = {}
        PROVE  Awaits(w)'
    <3>1. /\ open /\ Agrees(shown, cards, position, placed, used)
          /\ \A x \in DOMAIN position : position[x] < n
      BY <1>1, <1>6, <2>1, <2>2 DEF AwaitsCreate, Matches, Present
    <3>2. Agrees(shown \o <<c>>, cards, position', placed, used \union {c})
      BY <1>2, <1>7, <3>1, GrownAgrees DEF Following, BoardRows, WithColumn, Present
    <3>3. Matches(shown \o job[w].listed, cards)'
      BY <1>2, <1>5, <1>6, <1>10, <3>2 DEF Matches
    <3>4. AwaitsCreate(w)'
      BY <1>2, <1>6, <1>10, <3>1, <3>3 DEF AwaitsCreate
    <3> QED
      BY <1>4, <1>5, <1>6, <1>10, <3>4 DEF Awaits
  <2> QED
    BY <1>6, <1>8, <1>10, <2>1, <2>2, OwnStep
<1> QED
  BY <1>9, <1>10

LEMMA WriteDeleteKeeps ==
    ASSUME Following, NEW w \in Workers, WriteDelete(w)
    PROVE  BoardRows' /\ Jobs' /\ PageInv'
<1>1. PICK c, n : c = job[w].to /\ n = saw[w]
  OBVIOUS
<1>2. /\ Learns(w, "write", Ended(w, "ok"), job[w], n)
      /\ job[w].op = "delete" /\ job[w].op \in BoardOps
      /\ position' = WithoutColumn(position, c) /\ placed' = WithoutPlaces(placed, c)
      /\ used' = used /\ shown' = shown /\ cards' = cards /\ open' = open
      /\ mishaps' = IF Foreign(w) THEN mishaps \union {"foreign"} ELSE mishaps
  BY <1>1 DEF WriteDelete, Goes, Mishap, BoardOps, Restrict, Present, WithoutColumn,
     WithoutPlaces
<1>3. /\ Jobs' /\ Others(w) /\ at[w] = "write"
      /\ ~job[w].page => Aside(w)
      /\ job[w].page => at'[w] = "ok" /\ job'[w] = job[w] /\ ~Aside(w)
  BY <1>2, WrittenIs
<1>4. BoardRows'
  <2>1. Rows(position, placed, used)
    BY DEF Following, BoardRows
  <2>2. /\ DOMAIN position' = DOMAIN position \ {c}
        /\ \A x \in DOMAIN position' : position'[x] = position[x]
    BY <1>2 DEF WithoutColumn
  <2>3. IsFiniteSet(DOMAIN position')
    BY <2>1, <2>2, FS_RemoveElement DEF Rows
  <2>4. placed' \in [Threads -> DOMAIN position' \union {NoColumn}]
    BY <1>2, <2>1, <2>2 DEF Rows, WithoutPlaces
  <2>5. DOMAIN position' \subseteq used' /\ used' \subseteq Columns
    BY <1>2, <2>1, <2>2 DEF Rows
  <2>6. \A x \in DOMAIN position' : position'[x] \in Nat
    BY <2>1, <2>2 DEF Rows
  <2>7. open' \in BOOLEAN
    BY <1>2 DEF Following, BoardRows
  <2> QED
    BY <2>3, <2>4, <2>5, <2>6, <2>7 DEF BoardRows, Rows
<1>5. CASE ~job[w].page
  BY <1>2, <1>3, <1>4, <1>5, ForeignStep DEF Following
<1>6. CASE job[w].page
  <2>1. ASSUME mishaps' = {}
        PROVE  Waiting \subseteq {w} /\ AwaitsDelete(w)
    <3>1. mishaps = {}
      BY <1>2, <2>1
    <3> QED
      BY <1>2, <1>3, <1>6, <3>1, OnlyOne DEF Following, Awaits
  <2>2. ASSUME mishaps' = {}
        PROVE  Awaits(w)'
    <3>1. PICK s, k, z, l : /\ s = job[w].before.shown /\ k = job[w].before.cards
                            /\ z = shown /\ l = cards
      OBVIOUS
    <3>2. open /\ Agrees(s, k, position, placed, used)
      BY <1>3, <2>1, <2>2, <3>1 DEF AwaitsDelete, Matches
    <3>3. PICK i \in 1 .. Len(s) : Len(s) > 1 /\ c = s[i] /\ z = RemoveAt(s, i)
      BY <1>1, <2>1, <2>2, <3>1 DEF AwaitsDelete
    <3>4. l = CardsAway(k, c, z)
      BY <1>1, <2>1, <2>2, <3>1 DEF AwaitsDelete, CardsAway
    <3>5. Agrees(z, l, position', placed', used)
      BY <1>2, <3>2, <3>3, <3>4, ShrunkAgrees DEF Following, BoardRows
    <3>6. Matches(shown, cards)'
      BY <1>2, <3>1, <3>5 DEF Matches
    <3>7. AwaitsDelete(w)'
      BY <1>2, <1>3, <1>6, <2>1, <2>2, <3>6 DEF AwaitsDelete
    <3> QED
      BY <1>2, <1>3, <1>6, <3>7 DEF Awaits
  <2> QED
    BY <1>3, <1>4, <1>6, <2>1, <2>2, OwnStep
<1> QED
  BY <1>5, <1>6

LEMMA WriteReorderKeeps ==
    ASSUME Following, NEW w \in Workers, WriteReorder(w)
    PROVE  BoardRows' /\ Jobs' /\ PageInv'
<1>1. PICK order, i : order = job[w].to /\ i = saw[w]
  OBVIOUS
<1>2. /\ Learns(w, "write", IF i = Len(order) THEN Ended(w, "ok") ELSE "write", job[w], i + 1)
      /\ job[w].op = "reorder" /\ job[w].op \in BoardOps
      /\ position' = [c \in DOMAIN position |-> IF c = order[i] THEN i - 1 ELSE position[c]]
      /\ placed' = placed /\ used' = used
      /\ shown' = shown /\ cards' = cards /\ open' = open
  BY <1>1 DEF WriteReorder, BoardOps, Present
<1>3. /\ mishaps \subseteq mishaps' /\ (Foreign(w) => mishaps' # {})
      /\ mishaps' = {} => \A t \in Threads : placed[t] # NoColumn
  BY DEF WriteReorder
<1>4. JobOK(w)
  BY DEF Following, Jobs
<1>5. /\ Others(w) /\ at[w] = "write" /\ i \in Nat \ {0}
      /\ i # Len(order) => at'[w] = "write" /\ job'[w] = job[w] /\ saw'[w] = i + 1
      /\ i = Len(order) /\ job[w].page => at'[w] = "ok" /\ job'[w] = job[w]
      /\ i = Len(order) /\ ~job[w].page => at'[w] = "idle" /\ job'[w] = NoRequest
  <2>1. at[w] = "write"
    BY <1>2 DEF Learns
  <2> QED
    BY <1>1, <1>2, <1>4, <2>1, LearnsIs DEF Following, Ended, JobOK
<1>6. Jobs'
  <2>1. JobOK(w)'
    <3>1. CASE i # Len(order)
      BY <1>2, <1>4, <1>5, <3>1 DEF JobOK, BoardOps
    <3>2. CASE i = Len(order) /\ job[w].page
      BY <1>2, <1>4, <1>5, <3>2 DEF JobOK, BoardOps
    <3>3. CASE i = Len(order) /\ ~job[w].page
      BY <1>5, <3>3, NoRequestAside DEF JobOK, BoardOps
    <3> QED
      BY <3>1, <3>2, <3>3
  <2> QED
    BY <1>5, <2>1, JobsKept DEF Following
<1>7. DOMAIN position' = DOMAIN position
  BY <1>2
<1>8. BoardRows'
  <2>1. Rows(position, placed, used)
    BY DEF Following, BoardRows
  <2>2. \A c \in DOMAIN position : position'[c] \in Nat
    BY <1>2, <1>5, <2>1 DEF Rows
  <2> QED
    BY <1>2, <1>7, <2>1, <2>2 DEF Following, BoardRows, Rows
<1>9. CASE ~job[w].page
  <2>1. Aside(w)
    BY <1>5, <1>9 DEF Aside
  <2> QED
    BY <1>2, <1>3, <1>5, <1>6, <1>8, <1>9, <2>1, ForeignStep DEF Following
<1>10. CASE job[w].page
  <2>1. ASSUME mishaps' = {}
        PROVE  Waiting \subseteq {w} /\ AwaitsReorder(w)
    <3>1. mishaps = {}
      BY <1>3, <2>1
    <3> QED
      BY <1>2, <1>5, <1>10, <3>1, OnlyOne DEF Following, Awaits
  <2>2. ASSUME mishaps' = {}
        PROVE  Awaits(w)'
    <3>1. PICK s, n : s = shown /\ n = Len(s)
      OBVIOUS
    <3>2. /\ open /\ order = s /\ Lists(s, DOMAIN position) /\ n > 1
          /\ i \in 1 .. n /\ \A k \in 1 .. i - 1 : position[s[k]] = k - 1
          /\ cards = job[w].before.cards
      BY <1>1, <1>5, <2>1, <2>2, <3>1 DEF AwaitsReorder, Present
    <3>3. /\ n \in Nat /\ \A k \in 1 .. n : s[k] \in DOMAIN position
          /\ \A j, k \in 1 .. n : s[j] = s[k] => j = k
      BY <3>1, <3>2, ListFacts
    <3>4. cards \in [Threads -> used] /\ \A t \in Threads : placed[t] = cards[t]
      <4>1. CASE Halfway(w)
        BY <2>1, <2>2, <4>1 DEF AwaitsReorder
      <4>2. CASE ~Halfway(w)
        <5>1. Agrees(job[w].before.shown, cards, position, placed, used)
          BY <1>5, <2>1, <2>2, <3>2, <4>2 DEF AwaitsReorder, Matches
        <5>2. \A t \in Threads : placed[t] = cards[t]
          BY <1>3, <2>2, <5>1 DEF Agrees, CardsAgree
        <5>3. \A t \in Threads : placed[t] \in used
          BY <1>3, <2>2 DEF Following, BoardRows, Rows
        <5>4. cards \in [Threads -> used \union {NoColumn}]
          BY <5>1 DEF Agrees
        <5> QED
          BY <5>2, <5>3, <5>4
      <4> QED
        BY <4>1, <4>2
    <3>5. \A k \in 1 .. i : position'[s[k]] = k - 1
      <4> SUFFICES ASSUME NEW k \in 1 .. i
                   PROVE  position'[s[k]] = k - 1
        OBVIOUS
      <4>1. k \in 1 .. n /\ s[k] \in DOMAIN position
        BY <3>2, <3>3
      <4>2. position'[s[k]] = IF s[k] = s[i] THEN i - 1 ELSE position[s[k]]
        BY <1>2, <3>2, <4>1
      <4>3. CASE k = i
        BY <4>2, <4>3
      <4>4. CASE k # i
        <5>1. s[k] # s[i] /\ k \in 1 .. i - 1
          BY <3>2, <3>3, <4>1, <4>4
        <5> QED
          BY <3>2, <4>2, <5>1
      <4> QED
        BY <4>3, <4>4
    <3>6. Lists(s, DOMAIN position') /\ Present' = DOMAIN position'
      BY <1>7, <3>2 DEF Present
    <3>7. CASE i = n
      <4>1. at'[w] = "ok" /\ job'[w] = job[w]
        BY <1>5, <1>10, <3>1, <3>2, <3>7
      <4>2. Agrees(s, cards, position', placed', used')
        <5>1. PICK p, k : p = position' /\ k = cards
          OBVIOUS
        <5>2. Rows(p, placed, used)
          BY <1>2, <1>8, <5>1 DEF BoardRows
        <5>3. Lists(s, DOMAIN p) /\ \A x \in 1 .. Len(s) : p[s[x]] = x - 1
          BY <3>1, <3>5, <3>6, <3>7, <5>1
        <5>4. Agrees(s, k, p, placed, used)
          BY <3>4, <5>1, <5>2, <5>3, OrderedAgrees
        <5> QED
          BY <1>2, <5>1, <5>4
      <4>3. Matches(shown, cards)'
        BY <1>2, <3>1, <4>2 DEF Matches
      <4>4. AwaitsReorder(w)'
        BY <1>1, <1>2, <3>1, <3>2, <3>6, <4>1, <4>3 DEF AwaitsReorder, Halfway
      <4> QED
        BY <1>2, <4>1, <4>4 DEF Awaits
    <3>8. CASE i # n
      <4>1. at'[w] = "write" /\ job'[w] = job[w] /\ saw'[w] = i + 1
        BY <1>5, <3>1, <3>2, <3>8
      <4>2. i + 1 \in 1 .. n /\ i + 1 > 1 /\ 1 .. (i + 1) - 1 = 1 .. i
        BY <1>5, <3>2, <3>3, <3>8
      <4>3. Halfway(w)'
        BY <4>1, <4>2 DEF Halfway
      <4>4. /\ saw'[w] \in 1 .. Len(shown')
            /\ \A k \in 1 .. saw'[w] - 1 : position'[shown'[k]] = k - 1
        BY <1>2, <3>1, <3>5, <4>1, <4>2
      <4>5. AwaitsReorder(w)'
        BY <1>1, <1>2, <3>1, <3>2, <3>4, <3>6, <4>1, <4>3, <4>4 DEF AwaitsReorder
      <4> QED
        BY <1>2, <4>1, <4>5 DEF Awaits
    <3> QED
      BY <3>7, <3>8
  <2>3. ~Aside(w)
    BY <1>5, <1>10 DEF Aside
  <2> QED
    BY <1>5, <1>6, <1>8, <2>1, <2>2, <2>3, OwnStep
<1> QED
  BY <1>9, <1>10

-----------------------------------------------------------------------------
(* Failures, and the answer at the page.                                   *)

LEMMA BreakKeepsPage ==
    ASSUME Following, NEW w \in Workers, Break(w)
    PROVE  BoardRows' /\ Jobs' /\ PageInv'
<1>1. JobOK(w)
  BY DEF Following, Jobs
<1>2. PICK from \in {"sent", "write", "seed"}, to \in {"idle", "failed"} :
         /\ Goes(w, from, to)
         /\ to = "failed" => job[w].page /\ job[w].op \in BoardOps
         /\ to = "idle" => job[w].op = "load" \/ ~job[w].page
  <2>1. CASE Goes(w, "sent", Ended(w, IF job[w].op = "load" THEN "idle" ELSE "failed"))
    BY <2>1 DEF Break, Ended
  <2>2. CASE Goes(w, "write", Ended(w, "failed"))
    <3>1. at[w] = "write"
      BY <2>2 DEF Goes, Learns
    <3> QED
      BY <1>1, <2>2, <3>1 DEF Break, Ended, JobOK
  <2>3. CASE Goes(w, "seed", "idle")
    <3>1. at[w] = "seed"
      BY <2>3 DEF Goes, Learns
    <3> QED
      BY <1>1, <2>3, <3>1 DEF JobOK
  <2> QED
    BY <2>1, <2>2, <2>3 DEF Break
<1>3. /\ Others(w) /\ at[w] = from /\ at'[w] = to
      /\ to = "idle" => job'[w] = NoRequest
      /\ to # "idle" => job'[w] = job[w]
  BY <1>2, LearnsIs DEF Goes, Following
<1>4. /\ UNCHANGED <<boardVars, shown, cards, open>> /\ mishaps \subseteq mishaps'
      /\ mishaps' = {} => ~(at[w] = "write" /\ job[w].op = "reorder" /\ saw[w] > 1)
  BY DEF Break, Mishap
<1>5. JobOK(w)'
  BY <1>2, <1>3, <1>1, NoRequestAside DEF JobOK, BoardOps
<1>6. BoardRows' /\ Jobs'
  BY <1>3, <1>4, <1>5, JobsKept, RowsSame DEF Following, BoardRows
<1>7. CASE ~job[w].page
  <2>1. Aside(w)
    BY <1>2, <1>3, <1>7, NoRequestAside DEF Aside
  <2> QED
    BY <1>3, <1>4, <1>6, <1>7, <2>1, QuietStep DEF Following
<1>8. CASE job[w].page
  <2>1. ASSUME mishaps' = {}
        PROVE  Waiting \subseteq {w} /\ Awaits(w)
    <3>1. mishaps = {}
      BY <1>4, <2>1
    <3> QED
      BY <1>2, <1>3, <1>8, <3>1, OnlyOne DEF Following
  <2>2. ASSUME mishaps' = {}, ~Aside(w)
        PROVE  Awaits(w)'
    <3>1. /\ at'[w] = "failed" /\ job'[w] = job[w] /\ job[w].op \in BoardOps
          /\ at[w] \in {"sent", "write"}
      BY <1>2, <1>3, <1>1, <2>2 DEF Aside, JobOK, BoardOps
    <3>2. position' = position /\ placed' = placed /\ used' = used /\ Present' = Present
      BY <1>4 DEF boardVars, Present
    <3>3. job[w].op = "move" => AwaitsMove(w)'
      BY <1>4, <2>1, <2>2, <3>1, <3>2 DEF Awaits, AwaitsMove, Matches
    <3>4. job[w].op = "create" => AwaitsCreate(w)'
      BY <1>4, <2>1, <2>2, <3>1, <3>2 DEF Awaits, AwaitsCreate, Matches
    <3>5. job[w].op = "delete" => AwaitsDelete(w)'
      BY <1>4, <2>1, <2>2, <3>1, <3>2 DEF Awaits, AwaitsDelete, Matches
    <3>6. job[w].op = "reorder" => AwaitsReorder(w)'
      BY <1>4, <2>1, <2>2, <3>1, <3>2 DEF Awaits, AwaitsReorder, Matches, Halfway
    <3> QED
      BY <3>1, <3>3, <3>4, <3>5, <3>6 DEF Awaits, BoardOps
  <2>3. ASSUME mishaps' = {}, Aside(w), open'
        PROVE  Matches(shown, cards)'
    <3>1. to = "idle"
      BY <1>2, <1>3, <1>8, <2>3 DEF Aside
    <3>2. job[w].op = "load"
      BY <1>2, <1>3, <1>1, <1>8, <3>1 DEF JobOK
    <3>3. ~open
      BY <2>1, <2>3, <3>2 DEF Awaits, AwaitsLoad
    <3> QED
      BY <1>4, <2>3, <3>3
  <2> QED
    BY <1>3, <1>6, <2>1, <2>2, <2>3, OwnStep
<1> QED
  BY <1>7, <1>8

LEMMA AnswersKeepPage ==
    ASSUME Following, NEW w \in Workers, LoseAnswer(w) \/ Succeed(w) \/ Revert(w)
    PROVE  BoardRows' /\ Jobs' /\ PageInv'
<1>1. PICK from \in {"ok", "failed"}, to \in {"idle", "failed"} :
         Goes(w, from, to) /\ (from = "failed" => to = "idle")
  BY DEF LoseAnswer, Succeed, Revert
<1>2. /\ Others(w) /\ at[w] = from /\ at'[w] = to
      /\ to = "idle" => job'[w] = NoRequest
      /\ to # "idle" => job'[w] = job[w]
  BY <1>1, LearnsIs DEF Goes, Following
<1>3. UNCHANGED <<boardVars, open>> /\ mishaps \subseteq mishaps'
  BY DEF LoseAnswer, Succeed, Revert, Mishap
<1>4. JobOK(w) /\ job[w].op \in BoardOps /\ job[w].page
  BY <1>2 DEF Following, Jobs, JobOK
<1>5. JobOK(w)'
  BY <1>1, <1>2, <1>4, NoRequestAside DEF JobOK, BoardOps
<1>6. BoardRows' /\ Jobs'
  BY <1>2, <1>3, <1>5, JobsKept, RowsSame DEF Following, BoardRows
<1>7. CASE LoseAnswer(w)
  <2>1. mishaps' # {}
    BY <1>7 DEF LoseAnswer, Mishap
  <2> QED
    BY <1>6, <2>1 DEF PageInv
<1>8. CASE ~LoseAnswer(w)
  <2>1. to = "idle" /\ Aside(w) /\ mishaps' = mishaps
    BY <1>1, <1>2, <1>8 DEF Succeed, Revert, Goes, Learns, Aside
  <2>2. ASSUME mishaps' = {}
        PROVE  Waiting \subseteq {w} /\ Awaits(w)
    BY <1>2, <1>4, <2>1, <2>2, OnlyOne DEF Following
  <2>3. ASSUME mishaps' = {}
        PROVE  Agrees(shown', cards', position, placed, used)
    <3>1. CASE Succeed(w)
      <4>1. at[w] = "ok" /\ cards' = cards
        BY <3>1 DEF Succeed, Goes, Learns
      <4>2. CASE job[w].op = "create"
        BY <2>2, <2>3, <3>1, <4>1, <4>2 DEF Succeed, Awaits, AwaitsCreate, Matches
      <4>3. CASE job[w].op # "create"
        <5>1. shown' = shown
          BY <3>1, <4>3 DEF Succeed
        <5>2. job[w].op \in {"move", "delete", "reorder"}
          BY <1>4, <4>3 DEF BoardOps
        <5>3. Matches(shown, cards)
          BY <2>2, <2>3, <4>1, <5>2 DEF Awaits, AwaitsMove, AwaitsDelete, AwaitsReorder
        <5> QED
          BY <4>1, <5>1, <5>3 DEF Matches
      <4> QED
        BY <4>2, <4>3
    <3>2. CASE Revert(w)
      <4>1. at[w] = "failed" /\ ~Halfway(w)
        BY <3>2 DEF Revert, Goes, Learns, Halfway
      <4>2. CASE job[w].op = "create"
        BY <2>2, <2>3, <3>2, <4>1, <4>2 DEF Revert, Awaits, AwaitsCreate, Matches
      <4>3. CASE job[w].op = "delete"
        BY <2>2, <2>3, <3>2, <4>1, <4>3 DEF Revert, Awaits, AwaitsDelete, Matches
      <4>4. CASE job[w].op = "reorder"
        BY <2>2, <2>3, <3>2, <4>1, <4>4 DEF Revert, Awaits, AwaitsReorder, Matches
      <4>5. CASE job[w].op = "move"
        <5>1. PICK k, t, c : k = job[w].before.cards /\ t = job[w].target /\ c = job[w].to
          OBVIOUS
        <5>2. /\ shown = job[w].before.shown /\ cards = [k EXCEPT ![t] = c]
              /\ t \in Threads /\ Agrees(shown, k, position, placed, used)
          BY <2>2, <2>3, <4>1, <4>5, <5>1 DEF Awaits, AwaitsMove, Matches
        <5>3. shown' = shown /\ cards' = [cards EXCEPT ![t] = k[t]]
          BY <3>2, <4>5, <5>1 DEF Revert
        <5>4. cards' = k
          BY <5>2, <5>3 DEF Agrees
        <5> QED
          BY <5>2, <5>3, <5>4
      <4> QED
        BY <1>4, <4>2, <4>3, <4>4, <4>5 DEF BoardOps
    <3> QED
      BY <1>8, <3>1, <3>2
  <2>4. mishaps' = {} => Matches(shown, cards)'
    BY <1>3, <2>3 DEF Matches, boardVars
  <2> QED
    BY <1>2, <1>6, <2>1, <2>2, <2>4, OwnStep
<1> QED
  BY <1>7, <1>8

-----------------------------------------------------------------------------
LEMMA InitFollowing == BoardInit => Following
<1> SUFFICES ASSUME BoardInit
             PROVE  Following
  OBVIOUS
<1>1. BoardIInv
  BY BoardInitGuarded
<1>2. DOMAIN position = {} /\ IsFiniteSet({})
  BY FS_EmptySet DEF BoardInit
<1>3. BoardRows
  BY <1>2 DEF BoardInit, BoardRows, Rows
<1>4. \A w \in Workers : at[w] = "idle" /\ job[w] = NoRequest
  BY DEF BoardInit, AccessInit
<1>5. Jobs
  BY <1>4, NoRequestAside DEF Jobs, JobOK, BoardOps
<1>6. PageInv
  BY <1>4 DEF PageInv, PageFollows, Waiting, BoardInit
<1> QED
  BY <1>1, <1>3, <1>5, <1>6 DEF Following

LEMMA FollowingStep == Following /\ [Next]_vars => Following'
<1> SUFFICES ASSUME Following, [Next]_vars
             PROVE  BoardRows' /\ Jobs' /\ PageInv'
  BY BoardStep DEF Following
<1>1. CASE UNCHANGED vars
  <2>1. UNCHANGED <<boardVars, pageVars, at, job, saw>>
    BY <1>1 DEF vars, accessVars, requestVars
  <2>2. UNCHANGED <<position, placed, used, shown, cards, open, mishaps, at, job, saw>>
    BY <2>1 DEF boardVars, pageVars
  <2>3. BoardRows'
    BY <2>2 DEF Following, BoardRows
  <2>4. Jobs'
    BY <2>2 DEF Following, Jobs, JobOK
  <2>5. PageInv'
    BY <2>2 DEF Following, PageInv, PageFollows, Waiting, Matches, Awaits, AwaitsLoad,
       AwaitsMove, AwaitsCreate, AwaitsDelete, AwaitsReorder, Halfway, Present
  <2> QED
    BY <2>3, <2>4, <2>5
<1>2. CASE AccessNext /\ UNCHANGED <<boardVars, pageVars>>
  BY <1>2, AccessKeepsPage
<1>3. CASE BoardNext
  <2>1. PICK w \in Workers :
         \/ AskBoard(w)
         \/ PageLoad(w) \/ PageMove(w) \/ PageCreate(w) \/ PageDelete(w) \/ PageReorder(w)
         \/ CheckMove(w) \/ CheckCreate(w) \/ CheckDelete(w) \/ CheckReorder(w) \/ CheckLoad(w)
         \/ SeedColumn(w) \/ ListSeeded(w) \/ LoadCards(w)
         \/ WriteMove(w) \/ WriteCreate(w) \/ WriteDelete(w) \/ WriteReorder(w)
         \/ Break(w) \/ LoseAnswer(w) \/ Succeed(w) \/ Revert(w)
    BY <1>3 DEF BoardNext
  <2>2. CASE AskBoard(w)
    BY <2>2, AskKeepsPage
  <2>3. CASE PageLoad(w) \/ PageMove(w) \/ PageCreate(w) \/ PageDelete(w) \/ PageReorder(w)
    BY <2>3, PageLoadKeeps, PageMoveKeeps, PageCreateKeeps, PageDeleteKeeps, PageReorderKeeps
  <2>4. CASE CheckMove(w) \/ CheckCreate(w) \/ CheckDelete(w) \/ CheckReorder(w)
    BY <2>4, ChecksKeepPage
  <2>5. CASE CheckLoad(w) \/ ListSeeded(w) \/ LoadCards(w)
    BY <2>5, ListingsKeepPage, LoadKeepsPage
  <2>6. CASE SeedColumn(w) \/ WriteMove(w) \/ WriteCreate(w) \/ WriteDelete(w) \/ WriteReorder(w)
    BY <2>6, SeedKeepsPage, WriteMoveKeeps, WriteCreateKeeps, WriteDeleteKeeps,
       WriteReorderKeeps
  <2>7. CASE Break(w) \/ LoseAnswer(w) \/ Succeed(w) \/ Revert(w)
    BY <2>7, BreakKeepsPage, AnswersKeepPage
  <2> QED
    BY <2>1, <2>2, <2>3, <2>4, <2>5, <2>6, <2>7
<1> QED
  BY <1>1, <1>2, <1>3 DEF Next

LEMMA FollowingAlways == Spec => []Following
<1> QED
  BY InitFollowing, FollowingStep, PTL DEF Spec

\* A page with no request under way shows what a reload would, unless
\* another hand wrote, requests overlapped, an answer was lost, a reorder
\* broke off, or moved the cards that have no placement.
THEOREM PageShowsBoard == Spec => []PageAgrees
<1>1. Following => PageAgrees
  <2> SUFFICES ASSUME Following, open, Waiting = {}, mishaps = {}
               PROVE  /\ shown \in Listings
                      /\ \A t \in Threads :
                            ColumnOf(t, shown)
                               = IF cards[t] \in Range(shown) THEN cards[t] ELSE First(shown)
    BY DEF PageAgrees
  <2>1. Agrees(shown, cards, position, placed, used)
    BY DEF Following, PageInv, PageFollows, Matches
  <2>2. /\ shown \in SetToSeqs(DOMAIN position) /\ InOrder(shown, position)
        /\ \A t \in Threads :
              (IF placed[t] \in Range(shown) THEN placed[t] ELSE First(shown))
                 = (IF cards[t] \in Range(shown) THEN cards[t] ELSE First(shown))
    BY <2>1, ShownWhenAgreed DEF Following, BoardRows
  <2>3. shown \in Listings
    BY <2>2 DEF Listings, InOrder, Present
  <2> QED
    BY <2>2, <2>3 DEF ColumnOf
<1> QED
  BY <1>1, FollowingAlways, PTL

-----------------------------------------------------------------------------
(***************************************************************************)
(* The inbox page.                                                         *)
(***************************************************************************)

(***************************************************************************)
(* What the variables of the page hold.                                    *)
(***************************************************************************)
Kinds == Placing \cup Flagging
Fields == {"archived", "starred", "muted"}
Calling ==
    [kind : Kinds, thread : Conversations, field : Fields, value : BOOLEAN,
     step : {"asked", "ok", "refused", "lost"}, from : Nat]
Opening ==
    [thread : Conversations, archived : BOOLEAN, starred : BOOLEAN, muted : BOOLEAN,
     pending : {"none", "archive", "delete"}, was : BOOLEAN, counting : BOOLEAN,
     lingers : BOOLEAN, opened : Nat]

CallsOK == calls \in [Slots -> Calling \cup {Idle}]
ViewOK == view \in Opening \cup {Closed}
ServerOK ==
    /\ flags \in [Conversations -> [archived : BOOLEAN, starred : BOOLEAN, muted : BOOLEAN]]
    /\ gone \subseteq Conversations
ListOK ==
    /\ scope \in Scopes /\ listed \subseteq Conversations /\ dismissed \subseteq Conversations
    /\ swipe \in [thread : Conversations \cup {NoThread}, used : BOOLEAN]
    /\ unmute \in (Conversations \cup {NoThread}) \X BOOLEAN
Decks ==
    [open : BOOLEAN, loading : BOOLEAN, loads : Nat, cards : Seq(Conversations),
     starred : SUBSET Conversations,
     flying : Seq(Conversations \X {"archive", "keep", "star"}),
     undo : Conversations \cup {NoThread}]
DeckOK ==
    /\ deck \in Decks
    /\ dealt \subseteq Conversations /\ decided \subseteq Conversations
WishesOK ==
    /\ want = [t \in Conversations |-> want[t]]
    /\ odd = [t \in Conversations |-> odd[t]]
    /\ deeds \in Nat /\ failures \in Nat /\ arrivals \in Nat
InboxTyped == CallsOK /\ ViewOK /\ ServerOK /\ ListOK /\ DeckOK /\ WishesOK

\* Every opening of the toolbar has a number of its own, and what a request
\* of the toolbar may change on it is about its thread.
Numbered ==
    /\ view # Closed => view.opened \in 1 .. deeds
    /\ \A c \in Slots : calls[c] # Idle =>
        /\ calls[c].from <= deeds
        /\ calls[c].kind \in {"flag", "toolbar", "toolbarUndo", "delete"} /\ StillOpen(c) =>
             calls[c].thread = view.thread
        /\ calls[c].kind \in Flagging => calls[c].field \in Flags
        /\ calls[c].kind \in Placing \ {"deck"} => calls[c].field = "archived"
        /\ calls[c].kind = "deck" => calls[c].field \in {"archived", "starred"}
        /\ calls[c].kind = "deck" => calls[c].step = "asked"

\* The card that flies is the one on top, until the deck is touched.
TopFlies ==
    ~hasty =>
        /\ dealt \ Range(deck.cards) \subseteq decided
        /\ deck.flying # <<>> =>
            /\ Len(deck.flying) = 1 /\ deck.cards # <<>>
            /\ deck.flying[1][1] = deck.cards[1]

Unflagged == {"flag failed", "flag crossed", "flag elsewhere"}

\* One request about a flag at a time, of the toolbar that is open, which
\* shows what it asked for.
Shows(t, f) ==
    /\ \A c, d \in FlagOf(t, f) : c = d
    /\ view # Closed /\ view.thread = t =>
        /\ FlagOf(t, f) = {} => view[f] = flags[t][f]
        /\ \A c \in FlagOf(t, f) :
             /\ view.opened = calls[c].from
             /\ view[f] = calls[c].value
             /\ calls[c].step = "ok" => flags[t][f] = calls[c].value
             /\ IF calls[c].kind = "flag"
                  THEN calls[c].step \in {"asked", "refused"} => flags[t][f] = ~calls[c].value
                  ELSE calls[c].step \in {"asked", "ok"}
FlagFollows ==
    /\ \A t \in Conversations : \A f \in Flags :
        t \notin gone /\ odd[t] \cap Unflagged = {} => Shows(t, f)
    /\ \A c \in Slots :
        calls[c].kind = "deck" /\ calls[c].field = "starred" =>
            "flag elsewhere" \in odd[calls[c].thread]

\* Requests that move a thread: all but the stars of the deck.
Filing(t) == {c \in About(t, Placing) : calls[c].field = "archived"}

Wished(t, value) ==
    /\ value => want[t] \in {"out", "still out"}
    /\ ~value => want[t] = "in"
Kept(t) == want[t] # "nothing" /\ CameTrue(t)

\* How the last wish about a thread is being carried out.
Follows(t) ==
    /\ \A c, d \in Filing(t) : c = d
    /\ t \in Doomed => Filing(t) = {}
    /\ t \in gone => want[t] = "deleted"
    /\ t \notin gone /\ t \in Doomed => want[t] = "deleted"
    /\ t \notin gone => \A c \in Filing(t) :
         /\ calls[c].step = "asked" =>
              IF calls[c].kind \in Deleting THEN want[t] = "deleted"
                                            ELSE Wished(t, calls[c].value)
         /\ calls[c].step = "ok" => Kept(t)
         /\ calls[c].step = "refused" => calls[c].kind \in TakenBack /\ "refused" \in odd[t]
         /\ calls[c].step # "lost"
    /\ t \notin Doomed /\ Filing(t) = {} =>
         /\ t \in dismissed => Kept(t)
         /\ CameTrue(t) \/ "refused" \in odd[t]
WishFollows == \A t \in Conversations : odd[t] \cap Excuses = {} => Follows(t)

-----------------------------------------------------------------------------
(* Which actions touch what.                                               *)

LEMMA CallsTouched ==
    ASSUME [InboxNext]_inboxVars, calls' # calls
    PROVE  \/ (\E c \in Slots : Serve(c)) \/ (\E c \in Slots : Forbid(c))
           \/ (\E c \in Slots, answer \in {"refused", "lost"} : Fail(c, answer))
           \/ (\E c \in Slots : SwipeDone(c)) \/ (\E c \in Slots : UndoSwipeDone(c))
           \/ (\E c \in Slots : ArchiveDone(c)) \/ (\E c \in Slots : UndoArchiveDone(c))
           \/ (\E c \in Slots : DeleteDone(c)) \/ (\E c \in Slots : ToggleDone(c))
           \/ (\E c \in Slots : UndoMuteDone(c)) \/ (\E c \in Slots : UndoSwipe(c))
           \/ (\E c \in Slots, t \in Conversations : Swipe(c, t))
           \/ (\E S \in SUBSET Conversations : BulkArchive(S))
           \/ (\E S \in SUBSET Conversations : BulkDelete(S)) \/ BulkDone
           \/ (\E c \in Slots : Archive(c)) \/ (\E c \in Slots : UndoArchive(c))
           \/ (\E c \in Slots : CommitDelete(c)) \/ (\E c \in Slots : UndoMute(c))
           \/ (\E c \in Slots, f \in Flags : Toggle(c, f)) \/ (\E c \in Slots : Land(c))
           \/ (\E c \in Slots : UndoDeck(c))
  BY DEF InboxNext, Answers, ListDeeds, ToolbarDeeds, DeckDeeds, inboxVars, server, list,
     history, Navigate, SwipeToastGone, Refresh, OpenThread, Delete, UndoDelete, CommitArchive,
     CloseToast, LateDismiss, UnmuteToastGone, OpenDeck, LoadDeck, LoadFails, CloseDeck, Reply,
     Commit, Arrive, Dealt

LEMMA ViewTouched ==
    ASSUME [InboxNext]_inboxVars, view' # view
    PROVE  \/ (\E c \in Slots : ArchiveDone(c)) \/ (\E c \in Slots : UndoArchiveDone(c))
           \/ (\E c \in Slots : DeleteDone(c)) \/ (\E c \in Slots : ToggleDone(c))
           \/ (\E s \in Scopes : Navigate(s)) \/ (\E t \in Conversations : OpenThread(t))
           \/ Delete \/ UndoDelete \/ CommitArchive \/ CloseToast \/ LateDismiss
           \/ (\E c \in Slots : Archive(c)) \/ (\E c \in Slots : UndoArchive(c))
           \/ (\E c \in Slots : CommitDelete(c)) \/ (\E c \in Slots : UndoMute(c))
           \/ (\E c \in Slots, f \in Flags : Toggle(c, f)) \/ Reply
  BY DEF InboxNext, Answers, ListDeeds, ToolbarDeeds, DeckDeeds, inboxVars, server, list,
     history, Serve, Forbid, Fail, SwipeDone, UndoSwipeDone, UndoMuteDone, UndoSwipe, Swipe,
     BulkArchive, BulkDelete, BulkDone, SwipeToastGone, Refresh, UnmuteToastGone, OpenDeck,
     LoadDeck, LoadFails, CloseDeck, Commit, Land, UndoDeck, Arrive, Dealt, BulkAsk

LEMMA ServerTouched ==
    ASSUME [InboxNext]_inboxVars, server' # server
    PROVE  \/ (\E c \in Slots : Serve(c)) \/ (\E t \in Conversations : Arrive(t))
  BY DEF InboxNext, Answers, ListDeeds, ToolbarDeeds, DeckDeeds, inboxVars, server, list,
     history, Forbid, Fail, SwipeDone, UndoSwipeDone, ArchiveDone, UndoArchiveDone, DeleteDone,
     ToggleDone, UndoMuteDone, Navigate, UndoSwipe, Swipe, BulkArchive, BulkDelete, BulkDone,
     SwipeToastGone, Refresh, OpenThread, Delete, UndoDelete, CommitArchive, CloseToast,
     LateDismiss, UnmuteToastGone, Archive, UndoArchive, CommitDelete, UndoMute, Toggle,
     OpenDeck, LoadDeck, LoadFails, CloseDeck, Reply, Commit, Land, UndoDeck, Dealt, BulkAsk

LEMMA ListTouched ==
    ASSUME [InboxNext]_inboxVars, list' # list
    PROVE  \/ (\E c \in Slots : SwipeDone(c)) \/ (\E c \in Slots : UndoSwipeDone(c))
           \/ (\E c \in Slots : ArchiveDone(c)) \/ (\E c \in Slots : UndoArchiveDone(c))
           \/ (\E c \in Slots : DeleteDone(c)) \/ (\E c \in Slots : ToggleDone(c))
           \/ (\E s \in Scopes : Navigate(s)) \/ (\E c \in Slots : UndoSwipe(c))
           \/ (\E c \in Slots, t \in Conversations : Swipe(c, t))
           \/ (\E S \in SUBSET Conversations : BulkArchive(S))
           \/ (\E S \in SUBSET Conversations : BulkDelete(S)) \/ SwipeToastGone \/ Refresh
           \/ Delete \/ UndoDelete \/ CommitArchive \/ UnmuteToastGone
           \/ (\E c \in Slots : Archive(c)) \/ (\E c \in Slots : UndoMute(c)) \/ Reply
  BY DEF InboxNext, Answers, ListDeeds, ToolbarDeeds, DeckDeeds, inboxVars, server, list,
     history, Serve, Forbid, Fail, UndoMuteDone, BulkDone, OpenThread, CloseToast, LateDismiss,
     UndoArchive, CommitDelete, Toggle, OpenDeck, LoadDeck, LoadFails, CloseDeck, Commit, Land,
     UndoDeck, Arrive, Dealt

LEMMA DeckTouched ==
    ASSUME [InboxNext]_inboxVars, <<deck, dealt, decided, hasty>>' # <<deck, dealt, decided, hasty>>
    PROVE  \/ OpenDeck \/ LoadDeck \/ LoadFails \/ CloseDeck \/ Reply
           \/ (\E action \in {"archive", "keep", "star"} : Commit(action))
           \/ (\E c \in Slots : Land(c)) \/ (\E c \in Slots : UndoDeck(c))
  BY DEF InboxNext, Answers, ListDeeds, ToolbarDeeds, DeckDeeds, inboxVars, server, list,
     history, Serve, Forbid, Fail, SwipeDone, UndoSwipeDone, ArchiveDone, UndoArchiveDone,
     DeleteDone, ToggleDone, UndoMuteDone, Navigate, UndoSwipe, Swipe, BulkArchive, BulkDelete,
     BulkDone, SwipeToastGone, Refresh, OpenThread, Delete, UndoDelete, CommitArchive,
     CloseToast, LateDismiss, UnmuteToastGone, Archive, UndoArchive, CommitDelete, UndoMute,
     Toggle, Arrive, BulkAsk

-----------------------------------------------------------------------------
(* The types.                                                              *)

LEMMA CallOK ==
    ASSUME InboxTyped, NEW k \in Kinds, NEW t \in Conversations, NEW f \in Fields, NEW v \in BOOLEAN
    PROVE  Call(k, t, f, v) \in Calling
  BY DEF InboxTyped, ViewOK, Opening, Closed, Call, Opened, Calling

LEMMA ToolbarOK ==
    ASSUME InboxTyped, NEW t \in Conversations
    PROVE  Toolbar(t) \in Opening
  BY DEF InboxTyped, ServerOK, WishesOK, Toolbar, Opening

LEMMA ToastOK ==
    ASSUME InboxTyped
    PROVE  /\ swipe.thread # NoThread => swipe.thread \in Conversations
           /\ unmute[1] # NoThread => unmute[1] \in Conversations
           /\ unmute[1] \in Conversations \cup {NoThread} /\ unmute[2] \in BOOLEAN
  BY DEF InboxTyped, ListOK

LEMMA ToolbarShown ==
    ASSUME InboxTyped, view # Closed
    PROVE  /\ view \in Opening /\ view.thread \in Conversations
           /\ \A f \in Flags : view[f] \in BOOLEAN
           /\ Settled \in Opening
  BY DEF InboxTyped, ViewOK, Opening, Flags, Settled

LEMMA CallMade ==
    ASSUME InboxTyped, NEW c \in Slots, calls[c] # Idle
    PROVE  calls[c] \in Calling /\ calls[c].thread \in Conversations /\ calls[c].kind # "none"
  BY DEF InboxTyped, CallsOK, Calling, Kinds, Placing, Flagging

LEMMA IdleKind ==
    ASSUME NEW c \in Slots, calls[c] = Idle
    PROVE  calls[c].kind = "none"
  BY DEF Idle

LEMMA CardOK ==
    ASSUME InboxTyped
    PROVE  /\ deck.cards # <<>> => Head(deck.cards) \in Conversations
           /\ deck.flying # <<>> =>
                /\ Head(deck.flying) \in Conversations \X {"archive", "keep", "star"}
                /\ Head(deck.flying)[1] \in Conversations
           /\ deck.undo # NoThread => deck.undo \in Conversations
  BY DEF InboxTyped, DeckOK, Decks

LEMMA AskOK ==
    ASSUME InboxTyped, NEW c \in Slots, NEW r \in Calling, Ask(c, r)
    PROVE  CallsOK'
  BY DEF InboxTyped, CallsOK, Ask

LEMMA BulkOK ==
    ASSUME InboxTyped, NEW S \in SUBSET Conversations, NEW kind \in Bulk, NEW wish,
           BulkAsk(S, kind, wish)
    PROVE  CallsOK'
<1> DEFINE X(slot, c) == CHOOSE t \in S : slot[t] = c
<1>1. PICK slot \in Injection(S, {c \in Slots : calls[c] = Idle}) :
        calls' = [c \in Slots |-> IF \E t \in S : slot[t] = c
                                   THEN Call(kind, X(slot, c), "archived", TRUE) ELSE calls[c]]
  BY DEF BulkAsk
<1>2. ASSUME NEW c \in Slots, \E t \in S : slot[t] = c
      PROVE  X(slot, c) \in S
  BY <1>2
<1> HIDE DEF X
<1>3. ASSUME NEW c \in Slots, \E t \in S : slot[t] = c
      PROVE  Call(kind, X(slot, c), "archived", TRUE) \in Calling
  BY <1>2, <1>3, CallOK DEF Bulk, Kinds, Placing, Fields
<1> QED
  BY <1>1, <1>3 DEF InboxTyped, CallsOK

LEMMA HandOK ==
    ASSUME NEW hand \in Hands
    PROVE  hand \in Seq(Conversations) /\ Range(hand) \subseteq Conversations
<1> DEFINE S == {t \in Range(DeckOrder) : Belongs(t, "mailbox")}
<1>1. S \subseteq Conversations
  BY DeckAssumption DEF Range
<1>2. Cardinality(S) \in Nat
  BY <1>1, DeckAssumption, FS_Subset, FS_CardinalityType
<1>3. hand \in [1 .. Cardinality(S) -> S]
  BY DEF Hands, SetToSeqs
<1> HIDE DEF S
<1>4. hand \in Seq(S) /\ DOMAIN hand = 1 .. Cardinality(S)
  BY <1>2, <1>3
<1> QED
  BY <1>1, <1>3, <1>4 DEF Range

LEMMA InitInboxTyped == InboxInit => InboxTyped
<1> SUFFICES ASSUME InboxInit PROVE InboxTyped
  OBVIOUS
<1> USE DEF InboxInit
<1>1. CallsOK /\ ViewOK
  BY DEF CallsOK, ViewOK
<1>2. ServerOK
  BY DEF ServerOK, Plain
<1>3. ListOK
  BY DEF ListOK, NoToast, Scopes
<1>4. DeckOK
  <2>1. <<>> \in Seq(Conversations) /\ <<>> \in Seq(Conversations \X {"archive", "keep", "star"})
    OBVIOUS
  <2> QED
    BY <2>1 DEF DeckOK, Decks
<1>5. WishesOK
  BY DEF WishesOK
<1> QED
  BY <1>1, <1>2, <1>3, <1>4, <1>5 DEF InboxTyped

LEMMA CallsStep ==
    InboxTyped /\ [InboxNext]_inboxVars => CallsOK'
<1> SUFFICES ASSUME InboxTyped, [InboxNext]_inboxVars
             PROVE  CallsOK'
  OBVIOUS
<1> USE DEF InboxTyped
<1>1. CASE UNCHANGED calls
  BY <1>1 DEF InboxTyped, CallsOK
<1>2. ASSUME NEW c \in Slots, Serve(c)
      PROVE  CallsOK'
  BY <1>2, CallOK, ToastOK, ToolbarShown, CardOK DEF Serve, CallsOK, Calling, Kinds, Placing,
     Flagging, Fields, Deleting, ViewOK, Opening, Closed
<1>3. ASSUME NEW c \in Slots, Forbid(c)
      PROVE  CallsOK'
  BY <1>3, CallOK, ToastOK, ToolbarShown, CardOK DEF Forbid, CallsOK, Calling, Kinds, Placing,
     Flagging, Fields, Deleting, ViewOK, Opening, Closed
<1>4. ASSUME NEW c \in Slots, NEW answer \in {"refused", "lost"}, Fail(c, answer)
      PROVE  CallsOK'
  BY <1>4, CallOK, ToastOK, ToolbarShown, CardOK DEF Fail, CallsOK, Calling, Kinds, Placing,
     Flagging, Fields, Deleting, ViewOK, Opening, Closed
<1>5. ASSUME NEW c \in Slots, SwipeDone(c)
      PROVE  CallsOK'
  BY <1>5, CallOK, ToastOK, ToolbarShown, CardOK DEF SwipeDone, Answered, Done, CallsOK,
     Calling, Kinds, Placing, Flagging, Fields, Deleting, ViewOK, Opening, Closed
<1>6. ASSUME NEW c \in Slots, UndoSwipeDone(c)
      PROVE  CallsOK'
  BY <1>6, CallOK, ToastOK, ToolbarShown, CardOK DEF UndoSwipeDone, Done, CallsOK, Calling,
     Kinds, Placing, Flagging, Fields, Deleting, ViewOK, Opening, Closed
<1>7. ASSUME NEW c \in Slots, ArchiveDone(c)
      PROVE  CallsOK'
  BY <1>7, CallOK, ToastOK, ToolbarShown, CardOK DEF ArchiveDone, Done, Gives, Settled,
     StillOpen, CallsOK, Calling, Kinds, Placing, Flagging, Fields, Deleting, ViewOK, Opening,
     Closed
<1>8. ASSUME NEW c \in Slots, UndoArchiveDone(c)
      PROVE  CallsOK'
  BY <1>8, CallOK, ToastOK, ToolbarShown, CardOK DEF UndoArchiveDone, Done, Gives, Settled,
     StillOpen, CallsOK, Calling, Kinds, Placing, Flagging, Fields, Deleting, ViewOK, Opening,
     Closed
<1>9. ASSUME NEW c \in Slots, DeleteDone(c)
      PROVE  CallsOK'
  BY <1>9, CallOK, ToastOK, ToolbarShown, CardOK DEF DeleteDone, Done, Gives, Settled, GoTo,
     Abandon, Doomed, Listing, StillOpen, CallsOK, Calling, Kinds, Placing, Flagging, Fields,
     Deleting, ViewOK, Opening, Closed
<1>10. ASSUME NEW c \in Slots, ToggleDone(c)
      PROVE  CallsOK'
  BY <1>10, CallOK, ToastOK, ToolbarShown, CardOK DEF ToggleDone, Done, Gives, Abandon, Doomed,
     StillOpen, CallsOK, Calling, Kinds, Placing, Flagging, Fields, Deleting, ViewOK, Opening,
     Closed
<1>11. ASSUME NEW c \in Slots, UndoMuteDone(c)
      PROVE  CallsOK'
  BY <1>11, CallOK, ToastOK, ToolbarShown, CardOK DEF UndoMuteDone, Done, CallsOK, Calling,
     Kinds, Placing, Flagging, Fields, Deleting, ViewOK, Opening, Closed
<1>12. ASSUME NEW c \in Slots, UndoSwipe(c)
      PROVE  CallsOK'
  BY <1>12, CallOK, ToastOK, ToolbarShown, CardOK DEF UndoSwipe, Place, Ask, CallsOK, Calling,
     Kinds, Placing, Flagging, Fields, Deleting, ViewOK, Opening, Closed
<1>13. ASSUME NEW c \in Slots, NEW t \in Conversations, Swipe(c, t)
      PROVE  CallsOK'
  BY <1>13, CallOK, ToastOK, ToolbarShown, CardOK DEF Swipe, Place, Ask, Visible, CallsOK,
     Calling, Kinds, Placing, Flagging, Fields, Deleting, ViewOK, Opening, Closed
<1>14. ASSUME NEW S \in SUBSET Conversations, BulkArchive(S)
      PROVE  CallsOK'
  BY <1>14, BulkOK DEF BulkArchive, Bulk
<1>15. ASSUME NEW S \in SUBSET Conversations, BulkDelete(S)
      PROVE  CallsOK'
  BY <1>15, BulkOK DEF BulkDelete, Bulk
<1>16. CASE BulkDone
  BY <1>16, CallOK, ToastOK, ToolbarShown, CardOK DEF BulkDone, Under, Bulk, CallsOK, Calling,
     Kinds, Placing, Flagging, Fields, Deleting, ViewOK, Opening, Closed
<1>17. ASSUME NEW c \in Slots, Archive(c)
      PROVE  CallsOK'
  BY <1>17, CallOK, ToastOK, ToolbarShown, CardOK DEF Archive, CanAct, Place, Ask, CallsOK,
     Calling, Kinds, Placing, Flagging, Fields, Deleting, ViewOK, Opening, Closed
<1>18. ASSUME NEW c \in Slots, UndoArchive(c)
      PROVE  CallsOK'
  BY <1>18, CallOK, ToastOK, ToolbarShown, CardOK DEF UndoArchive, CanSettle, Place, Ask,
     CallsOK, Calling, Kinds, Placing, Flagging, Fields, Deleting, ViewOK, Opening, Closed
<1>19. ASSUME NEW c \in Slots, CommitDelete(c)
      PROVE  CallsOK'
  BY <1>19, CallOK, ToastOK, ToolbarShown, CardOK DEF CommitDelete, CanSettle, Ask, CallsOK,
     Calling, Kinds, Placing, Flagging, Fields, Deleting, ViewOK, Opening, Closed
<1>20. ASSUME NEW c \in Slots, UndoMute(c)
      PROVE  CallsOK'
  <2>0. (~unmute[2]) \in BOOLEAN
    OBVIOUS
  <2>1. unmute[1] \in Conversations /\ (~unmute[2]) \in BOOLEAN
    BY <1>20, <2>0, ToastOK DEF UndoMute
  <2>2. Call("flagUndo", unmute[1], "muted", ~unmute[2]) \in Calling
    BY <2>1, CallOK DEF Kinds, Flagging, Fields
  <2> QED
    BY <1>20, <2>2, AskOK DEF UndoMute
<1>21. ASSUME NEW c \in Slots, NEW f \in Flags, Toggle(c, f)
      PROVE  CallsOK'
  <2>0. (~view[f]) \in BOOLEAN
    OBVIOUS
  <2>1. view.thread \in Conversations /\ (~view[f]) \in BOOLEAN
    BY <1>21, <2>0, ToolbarShown DEF Toggle, CanAct
  <2>2. Call("flag", view.thread, f, ~view[f]) \in Calling
    BY <2>1, CallOK DEF Kinds, Flagging, Fields, Flags
  <2> QED
    BY <1>21, <2>2, AskOK DEF Toggle
<1>22. ASSUME NEW c \in Slots, Land(c)
      PROVE  CallsOK'
  <2> DEFINE t == Head(deck.flying)[1]
  <2>0. t \in Conversations
    BY <1>22, CardOK DEF Land
  <2> HIDE DEF t
  <2>1. Call("deck", t, "archived", TRUE) \in Calling
    BY <2>0, CallOK DEF Kinds, Placing, Fields
  <2>2. [Call("deck", t, "starred", t \notin deck.starred) EXCEPT !.from = 0] \in Calling
    <3>1. Call("deck", t, "starred", t \notin deck.starred) \in Calling
      BY <2>0, CallOK DEF Kinds, Placing, Fields
    <3> QED
      BY <3>1 DEF Calling
  <2>3. \/ Ask(c, Call("deck", t, "archived", TRUE))
        \/ Ask(c, [Call("deck", t, "starred", t \notin deck.starred) EXCEPT !.from = 0])
        \/ UNCHANGED calls
    BY <1>22 DEF Land, Place, t
  <2> QED
    BY <2>1, <2>2, <2>3, AskOK DEF CallsOK
<1>23. ASSUME NEW c \in Slots, UndoDeck(c)
      PROVE  CallsOK'
  BY <1>23, CallOK, ToastOK, ToolbarShown, CardOK DEF UndoDeck, Place, Ask, CallsOK, Calling,
     Kinds, Placing, Flagging, Fields, Deleting, ViewOK, Opening, Closed
<1> QED
  BY <1>1, <1>2, <1>3, <1>4, <1>5, <1>6, <1>7, <1>8, <1>9, <1>10, <1>11, <1>12, <1>13, <1>14,
     <1>15, <1>16, <1>17, <1>18, <1>19, <1>20, <1>21, <1>22, <1>23, CallsTouched

LEMMA ViewStep ==
    InboxTyped /\ [InboxNext]_inboxVars => ViewOK'
<1> SUFFICES ASSUME InboxTyped, [InboxNext]_inboxVars
             PROVE  ViewOK'
  OBVIOUS
<1> USE DEF InboxTyped
<1>1. CASE UNCHANGED view
  BY <1>1 DEF InboxTyped, ViewOK
<1>2. ASSUME NEW c \in Slots, ArchiveDone(c)
      PROVE  ViewOK'
  BY <1>2, ToolbarOK, ToolbarShown DEF ArchiveDone, Done, Gives, Settled, StillOpen, ViewOK,
     Opening, CallsOK, Calling, Kinds, Fields
<1>3. ASSUME NEW c \in Slots, UndoArchiveDone(c)
      PROVE  ViewOK'
  <2>1. CASE StillOpen(c) /\ Gives(c, "ok")
    <3>1. Settled \in Opening /\ calls[c].value \in BOOLEAN
      BY <1>3, <2>1, ToolbarShown DEF StillOpen, UndoArchiveDone, CallsOK, Calling, Idle
    <3>2. view' = [Settled EXCEPT !.archived = calls[c].value]
      BY <1>3, <2>1 DEF UndoArchiveDone, Gives
    <3> QED
      BY <3>1, <3>2 DEF ViewOK, Opening
  <2>2. CASE ~(StillOpen(c) /\ Gives(c, "ok"))
    <3>1. view' = view \/ (view' = Settled /\ view # Closed)
      BY <1>3, <2>2 DEF UndoArchiveDone, StillOpen
    <3> QED
      BY <3>1, ToolbarShown DEF ViewOK
  <2> QED
    BY <2>1, <2>2
<1>4. ASSUME NEW c \in Slots, DeleteDone(c)
      PROVE  ViewOK'
  <2>1. \/ view' \in {view, Closed}
        \/ view # Closed /\ view' \in {[view EXCEPT !.lingers = TRUE], [Settled EXCEPT !.lingers = TRUE]}
    BY <1>4 DEF DeleteDone, StillOpen, GoTo
  <2> QED
    BY <2>1, ToolbarShown DEF ViewOK, Opening
<1>5. ASSUME NEW c \in Slots, ToggleDone(c)
      PROVE  ViewOK'
  <2>1. CASE view' \in {view, Closed}
    BY <2>1 DEF ViewOK
  <2>2. CASE view' \notin {view, Closed}
    <3>1. view # Closed /\ view' = [view EXCEPT ![calls[c].field] = ~calls[c].value]
      BY <1>5, <2>2 DEF ToggleDone, StillOpen
    <3>2. (~calls[c].value) \in BOOLEAN
      OBVIOUS
    <3>3. calls[c].field \in Fields
      BY <1>5, CallMade, IdleKind DEF ToggleDone, Calling
    <3> QED
      BY <3>1, <3>2, <3>3, ToolbarShown DEF ViewOK, Opening, Fields
  <2> QED
    BY <2>1, <2>2
<1>6. ASSUME NEW s \in Scopes, Navigate(s)
      PROVE  ViewOK'
  BY <1>6, ToolbarOK, ToolbarShown DEF Navigate, Deed, GoTo, Abandon, Doomed, Listing, ViewOK,
     Opening, CallsOK, Calling, Kinds, Fields
<1>7. ASSUME NEW t \in Conversations, OpenThread(t)
      PROVE  ViewOK'
  BY <1>7, ToolbarOK, ToolbarShown DEF OpenThread, Deed, Mark, Late, ViewOK, Opening, CallsOK,
     Calling, Kinds, Fields
<1>8. CASE Delete
  BY <1>8, ToolbarOK, ToolbarShown DEF Delete, CanAct, Deed, Wish, Mark, Crossing, ViewOK,
     Opening, CallsOK, Calling, Kinds, Fields
<1>9. CASE UndoDelete
  BY <1>9, ToolbarOK, ToolbarShown DEF UndoDelete, Deed, CanSettle, Settled, Wish, ViewOK,
     Opening, CallsOK, Calling, Kinds, Fields
<1>10. CASE CommitArchive
  BY <1>10, ToolbarOK, ToolbarShown DEF CommitArchive, CanSettle, Settled, GoTo, Listing,
     ViewOK, Opening, CallsOK, Calling, Kinds, Fields
<1>11. CASE CloseToast
  BY <1>11, ToolbarOK, ToolbarShown DEF CloseToast, Deed, Settled, Abandon, Doomed, ViewOK,
     Opening, CallsOK, Calling, Kinds, Fields
<1>12. CASE LateDismiss
  BY <1>12, ToolbarOK, ToolbarShown DEF LateDismiss, Settled, Abandon, Doomed, ViewOK, Opening,
     CallsOK, Calling, Kinds, Fields
<1>13. ASSUME NEW c \in Slots, Archive(c)
      PROVE  ViewOK'
  BY <1>13, ToolbarOK, ToolbarShown DEF Archive, CanAct, Deed, Place, Ask, Wish, Mark,
     Crossing, ViewOK, Opening, CallsOK, Calling, Kinds, Fields
<1>14. ASSUME NEW c \in Slots, UndoArchive(c)
      PROVE  ViewOK'
  BY <1>14, ToolbarOK, ToolbarShown DEF UndoArchive, Deed, CanSettle, Place, Ask, Wish, Mark,
     Crossing, ViewOK, Opening, CallsOK, Calling, Kinds, Fields
<1>15. ASSUME NEW c \in Slots, CommitDelete(c)
      PROVE  ViewOK'
  BY <1>15, ToolbarOK, ToolbarShown DEF CommitDelete, CanSettle, Ask, ViewOK, Opening, CallsOK,
     Calling, Kinds, Fields
<1>16. ASSUME NEW c \in Slots, UndoMute(c)
      PROVE  ViewOK'
  BY <1>16, ToolbarOK, ToolbarShown DEF UndoMute, Deed, Ask, MarkFlag, Mark, ViewOK, Opening,
     CallsOK, Calling, Kinds, Fields
<1>17. ASSUME NEW c \in Slots, NEW f \in Flags, Toggle(c, f)
      PROVE  ViewOK'
  <2>1. view # Closed /\ view' = [view EXCEPT ![f] = ~view[f]]
    BY <1>17 DEF Toggle, CanAct
  <2>2. (~view[f]) \in BOOLEAN
    OBVIOUS
  <2> QED
    BY <2>1, <2>2, ToolbarShown DEF ViewOK, Opening, Flags
<1>18. CASE Reply
  <2>1. Head(deck.cards) \in Conversations
    BY <1>18, CardOK DEF Reply, OnTop
  <2>2. view' \in {Closed, Toolbar(Head(deck.cards))}
    BY <1>18 DEF Reply, GoTo
  <2> QED
    BY <2>1, <2>2, ToolbarOK DEF ViewOK
<1> QED
  BY <1>1, <1>2, <1>3, <1>4, <1>5, <1>6, <1>7, <1>8, <1>9, <1>10, <1>11, <1>12, <1>13, <1>14,
     <1>15, <1>16, <1>17, <1>18, ViewTouched

LEMMA ServerStep ==
    InboxTyped /\ [InboxNext]_inboxVars => ServerOK'
<1> SUFFICES ASSUME InboxTyped, [InboxNext]_inboxVars
             PROVE  ServerOK'
  OBVIOUS
<1> USE DEF InboxTyped
<1>1. CASE UNCHANGED server
  BY <1>1 DEF InboxTyped, ServerOK, server
<1>2. ASSUME NEW c \in Slots, Serve(c)
      PROVE  ServerOK'
  BY <1>2 DEF Serve, ServerOK, CallsOK, Calling, Fields
<1>3. ASSUME NEW t \in Conversations, Arrive(t)
      PROVE  ServerOK'
  BY <1>3 DEF Arrive, Mark, ServerOK, CallsOK, Calling, Fields
<1> QED
  BY <1>1, <1>2, <1>3, ServerTouched

LEMMA ListStep ==
    InboxTyped /\ [InboxNext]_inboxVars => ListOK'
<1> SUFFICES ASSUME InboxTyped, [InboxNext]_inboxVars
             PROVE  ListOK'
  OBVIOUS
<1> USE DEF InboxTyped
<1>1. CASE UNCHANGED list
  BY <1>1 DEF InboxTyped, ListOK, list
<1>2. ASSUME NEW c \in Slots, SwipeDone(c)
      PROVE  ListOK'
  <2>1. calls[c].thread \in Conversations
    BY <1>2, CallMade, IdleKind DEF SwipeDone, Answered
  <2>2. swipe' \in {swipe, [thread |-> calls[c].thread, used |-> FALSE]}
    BY <1>2 DEF SwipeDone
  <2>3. UNCHANGED <<scope, listed, unmute>> /\ dismissed' \subseteq dismissed
    BY <1>2 DEF SwipeDone
  <2>4. swipe' \in [thread : Conversations \cup {NoThread}, used : BOOLEAN]
    <3>1. swipe \in [thread : Conversations \cup {NoThread}, used : BOOLEAN]
      BY DEF ListOK
    <3>2. [thread |-> calls[c].thread, used |-> FALSE]
              \in [thread : Conversations \cup {NoThread}, used : BOOLEAN]
      BY <2>1
    <3> QED
      BY <2>2, <3>1, <3>2
  <2> QED
    BY <2>3, <2>4 DEF ListOK
<1>3. ASSUME NEW c \in Slots, UndoSwipeDone(c)
      PROVE  ListOK'
  BY <1>3 DEF UndoSwipeDone, Done, ListOK, list, ViewOK, Opening, CallsOK, Calling, Scopes,
     NoToast
<1>4. ASSUME NEW c \in Slots, ArchiveDone(c)
      PROVE  ListOK'
  BY <1>4 DEF ArchiveDone, Done, Gives, Settled, StillOpen, ListOK, list, ViewOK, Opening,
     CallsOK, Calling, Scopes, NoToast
<1>5. ASSUME NEW c \in Slots, UndoArchiveDone(c)
      PROVE  ListOK'
  BY <1>5 DEF UndoArchiveDone, Done, Gives, Settled, StillOpen, ListOK, list, ViewOK, Opening,
     CallsOK, Calling, Scopes, NoToast
<1>6. ASSUME NEW c \in Slots, DeleteDone(c)
      PROVE  ListOK'
  BY <1>6 DEF DeleteDone, Done, Gives, Settled, GoTo, Abandon, Doomed, Listing, StillOpen,
     ListOK, list, ViewOK, Opening, CallsOK, Calling, Scopes, NoToast
<1>7. ASSUME NEW c \in Slots, ToggleDone(c)
      PROVE  ListOK'
  <2>1. calls[c].thread \in Conversations /\ calls[c].value \in BOOLEAN
    BY <1>7, CallMade, IdleKind DEF ToggleDone, Calling
  <2>2. UNCHANGED <<scope, listed, dismissed, swipe>>
    BY <1>7 DEF ToggleDone
  <2>3. unmute' \in {unmute, <<calls[c].thread, calls[c].value>>}
    BY <1>7 DEF ToggleDone
  <2> QED
    BY <2>1, <2>2, <2>3 DEF ListOK
<1>8. ASSUME NEW s \in Scopes, Navigate(s)
      PROVE  ListOK'
  <2>1. /\ scope' = s /\ swipe' \in {swipe, NoToast} /\ unmute' = unmute
        /\ listed' \in {listed, Listing(s)} /\ dismissed' \in {dismissed, {}}
    BY <1>8 DEF Navigate, GoTo
  <2>2. swipe' \in [thread : Conversations \cup {NoThread}, used : BOOLEAN]
    <3>1. swipe \in [thread : Conversations \cup {NoThread}, used : BOOLEAN]
      BY DEF ListOK
    <3>2. NoToast \in [thread : Conversations \cup {NoThread}, used : BOOLEAN]
      BY DEF NoToast
    <3> QED
      BY <2>1, <3>1, <3>2
  <2>3. listed' \subseteq Conversations /\ dismissed' \subseteq Conversations
    BY <2>1 DEF ListOK, Listing
  <2> QED
    BY <2>1, <2>2, <2>3 DEF ListOK
<1>9. ASSUME NEW c \in Slots, UndoSwipe(c)
      PROVE  ListOK'
  BY <1>9 DEF UndoSwipe, Deed, Place, Ask, Wish, Mark, Crossing, ListOK, list, ViewOK, Opening,
     CallsOK, Calling, Scopes, NoToast
<1>10. ASSUME NEW c \in Slots, NEW t \in Conversations, Swipe(c, t)
      PROVE  ListOK'
  BY <1>10 DEF Swipe, Deed, Visible, Place, Ask, Wish, Mark, Crossing, ListOK, list, ViewOK,
     Opening, CallsOK, Calling, Scopes, NoToast
<1>11. ASSUME NEW S \in SUBSET Conversations, BulkArchive(S)
      PROVE  ListOK'
  BY <1>11 DEF BulkArchive, BulkAsk, Visible, ListOK, list, ViewOK, Opening, CallsOK, Calling,
     Scopes, NoToast
<1>12. ASSUME NEW S \in SUBSET Conversations, BulkDelete(S)
      PROVE  ListOK'
  BY <1>12 DEF BulkDelete, BulkAsk, Visible, ListOK, list, ViewOK, Opening, CallsOK, Calling,
     Scopes, NoToast
<1>13. CASE SwipeToastGone
  BY <1>13 DEF SwipeToastGone, ListOK, list, ViewOK, Opening, CallsOK, Calling, Scopes, NoToast
<1>14. CASE Refresh
  BY <1>14 DEF Refresh, Listing, ListOK, list, ViewOK, Opening, CallsOK, Calling, Scopes,
     NoToast
<1>15. CASE Delete
  BY <1>15 DEF Delete, CanAct, Deed, Wish, Mark, Crossing, ListOK, list, ViewOK, Opening,
     CallsOK, Calling, Scopes, NoToast
<1>16. CASE UndoDelete
  BY <1>16 DEF UndoDelete, Deed, CanSettle, Settled, Wish, ListOK, list, ViewOK, Opening,
     CallsOK, Calling, Scopes, NoToast
<1>17. CASE CommitArchive
  BY <1>17 DEF CommitArchive, CanSettle, Settled, GoTo, Listing, ListOK, list, ViewOK, Opening,
     CallsOK, Calling, Scopes, NoToast
<1>18. CASE UnmuteToastGone
  BY <1>18 DEF UnmuteToastGone, ListOK, list, ViewOK, Opening, CallsOK, Calling, Scopes, NoToast
<1>19. ASSUME NEW c \in Slots, Archive(c)
      PROVE  ListOK'
  BY <1>19 DEF Archive, CanAct, Deed, Place, Ask, Wish, Mark, Crossing, ListOK, list, ViewOK,
     Opening, CallsOK, Calling, Scopes, NoToast
<1>20. ASSUME NEW c \in Slots, UndoMute(c)
      PROVE  ListOK'
  BY <1>20 DEF UndoMute, Deed, Ask, MarkFlag, Mark, ListOK, list, ViewOK, Opening, CallsOK,
     Calling, Scopes, NoToast
<1>21. CASE Reply
  BY <1>21 DEF Reply, Deed, OnTop, GoTo, Late, Doomed, Listing, ListOK, list, ViewOK, Opening,
     CallsOK, Calling, Scopes, NoToast
<1> QED
  BY <1>1, <1>2, <1>3, <1>4, <1>5, <1>6, <1>7, <1>8, <1>9, <1>10, <1>11, <1>12, <1>13, <1>14,
     <1>15, <1>16, <1>17, <1>18, <1>19, <1>20, <1>21, ListTouched

LEMMA DeckStep ==
    InboxTyped /\ [InboxNext]_inboxVars => DeckOK'
<1> SUFFICES ASSUME InboxTyped, [InboxNext]_inboxVars
             PROVE  DeckOK'
  OBVIOUS
<1> USE DEF InboxTyped, DeckOK
<1>1. CASE UNCHANGED <<deck, dealt, decided, hasty>>
  BY <1>1 DEF InboxTyped, DeckOK
<1>2. CASE OpenDeck
  <2>0. deck.loads + 1 \in Nat
    BY DEF Decks
  <2>1. /\ deck' = [deck EXCEPT !.open = TRUE, !.loading = TRUE, !.loads = deck.loads + 1,
                              !.undo = NoThread]
        /\ UNCHANGED <<dealt, decided>>
    BY <1>2 DEF OpenDeck
  <2> QED
    BY <2>0, <2>1 DEF DeckOK, Decks
<1>3. CASE LoadDeck
  <2>1. PICK hand : Dealt(hand) /\ hand \in Seq(Conversations) /\ Range(hand) \subseteq Conversations
    BY <1>3, HandOK DEF LoadDeck
  <2>2. {t \in Conversations : flags[t].starred} \in SUBSET Conversations
    OBVIOUS
  <2> DEFINE S == {t \in Conversations : flags[t].starred}
  <2> HIDE DEF S
  <2>3. deck.loads - 1 \in Nat
    BY <2>1 DEF Dealt, Decks
  <2>4. /\ deck' = [deck EXCEPT !.loading = FALSE, !.loads = deck.loads - 1, !.cards = hand, !.starred = S]
        /\ dealt' = Range(hand) /\ decided' = {}
    BY <2>1 DEF Dealt, S
  <2>5. S \in SUBSET Conversations
    BY <2>2 DEF S
  <2> QED
    BY <2>1, <2>3, <2>4, <2>5 DEF DeckOK, Decks
<1>4. CASE LoadFails
  <2>1. PICK hand : Dealt(hand) /\ hand \in Seq(Conversations) /\ Range(hand) \subseteq Conversations
    <3>1. <<>> \in Seq(Conversations) /\ Range(<<>>) = {}
      BY DEF Range
    <3> QED
      BY <1>4, <3>1 DEF LoadFails
  <2>2. {t \in Conversations : flags[t].starred} \in SUBSET Conversations
    OBVIOUS
  <2> DEFINE S == {t \in Conversations : flags[t].starred}
  <2> HIDE DEF S
  <2>3. deck.loads - 1 \in Nat
    BY <2>1 DEF Dealt, Decks
  <2>4. /\ deck' = [deck EXCEPT !.loading = FALSE, !.loads = deck.loads - 1, !.cards = hand, !.starred = S]
        /\ dealt' = Range(hand) /\ decided' = {}
    BY <2>1 DEF Dealt, S
  <2>5. S \in SUBSET Conversations
    BY <2>2 DEF S
  <2> QED
    BY <2>1, <2>3, <2>4, <2>5 DEF DeckOK, Decks
<1>5. CASE CloseDeck
  BY <1>5 DEF CloseDeck, Deed, DeckOK, Decks
<1>6. CASE Reply
  BY <1>6 DEF Reply, Deed, OnTop, GoTo, Late, Doomed, Listing, DeckOK, Decks
<1>7. ASSUME NEW action \in {"archive", "keep", "star"}, Commit(action)
      PROVE  DeckOK'
  <2> DEFINE F == Append(deck.flying, <<Head(deck.cards), action>>)
  <2>1. F \in Seq(Conversations \X {"archive", "keep", "star"})
    BY <1>7, CardOK DEF Commit, OnTop, Decks
  <2>2. deck' = [deck EXCEPT !.flying = F] /\ UNCHANGED <<dealt, decided>>
    BY <1>7 DEF Commit
  <2> HIDE DEF F
  <2> QED
    BY <2>1, <2>2 DEF DeckOK, Decks
<1>8. ASSUME NEW c \in Slots, Land(c)
      PROVE  DeckOK'
  <2>0. /\ deck.flying \in Seq(Conversations \X {"archive", "keep", "star"}) /\ deck.flying # <<>>
        /\ deck.cards \in Seq(Conversations)
    BY <1>8 DEF Land, Decks
  <2>1. /\ Head(deck.flying)[1] \in Conversations
        /\ Tail(deck.flying) \in Seq(Conversations \X {"archive", "keep", "star"})
        /\ deck.cards # <<>> => Tail(deck.cards) \in Seq(Conversations)
    BY <2>0, CardOK
  <2>2. Advance(deck) \in Decks
    BY <2>1 DEF Advance, Decks
  <2>3. /\ deck' \in {Advance(deck), [Advance(deck) EXCEPT !.undo = Head(deck.flying)[1]]}
        /\ decided' = decided \cup {Head(deck.flying)[1]} /\ dealt' = dealt
    BY <1>8 DEF Land
  <2>4. [Advance(deck) EXCEPT !.undo = Head(deck.flying)[1]] \in Decks
    BY <2>1, <2>2 DEF Decks
  <2> QED
    BY <2>1, <2>2, <2>3, <2>4
<1>9. ASSUME NEW c \in Slots, UndoDeck(c)
      PROVE  DeckOK'
  <2> DEFINE K == <<deck.undo>> \o deck.cards
  <2>1. K \in Seq(Conversations)
    BY <1>9, CardOK DEF UndoDeck, Decks
  <2>2. deck' = [deck EXCEPT !.cards = K, !.undo = NoThread] /\ dealt' = dealt /\ decided' \subseteq decided
    BY <1>9 DEF UndoDeck
  <2> HIDE DEF K
  <2> QED
    BY <2>1, <2>2 DEF DeckOK, Decks
<1> QED
  BY <1>1, <1>2, <1>3, <1>4, <1>5, <1>6, <1>7, <1>8, <1>9, DeckTouched

(***************************************************************************)
(* What is remembered of a thread's troubles is never forgotten.           *)
(***************************************************************************)
Remembers == WishesOK' /\ deeds <= deeds' /\ \A t \in Conversations : odd[t] \subseteq odd'[t]

LEMMA OddGrows ==
    ASSUME odd = [t \in Conversations |-> odd[t]],
           odd' = odd \/ \E t, why : odd' = [odd EXCEPT ![t] = odd[t] \cup why]
    PROVE  /\ odd' = [t \in Conversations |-> odd'[t]]
           /\ \A t \in Conversations : odd[t] \subseteq odd'[t]
  OBVIOUS

LEMMA WantMoves ==
    ASSUME want = [t \in Conversations |-> want[t]],
           want' = want \/ \E t, wish : want' = [want EXCEPT ![t] = wish]
    PROVE  want' = [t \in Conversations |-> want'[t]]
  OBVIOUS

LEMMA WishesStep ==
    InboxTyped /\ [InboxNext]_inboxVars => Remembers
<1> SUFFICES ASSUME InboxTyped, [InboxNext]_inboxVars
             PROVE  Remembers
  OBVIOUS
<1> USE DEF InboxTyped, WishesOK
<1>1. CASE UNCHANGED inboxVars
  BY <1>1 DEF inboxVars, history, Remembers
<1>2. ASSUME NEW c \in Slots, Serve(c)
      PROVE  Remembers
  BY <1>2 DEF Serve, history, Remembers
<1>3. ASSUME NEW c \in Slots, Forbid(c)
      PROVE  Remembers
  BY <1>3 DEF Forbid, history, Remembers
<1>4. ASSUME NEW c \in Slots, NEW answer \in {"refused", "lost"}, Fail(c, answer)
      PROVE  Remembers
  <2>1. odd' = odd \/ \E u, why : odd' = [odd EXCEPT ![u] = odd[u] \cup why]
    BY <1>4 DEF Fail, MarkFlag, Mark
  <2>2. want' = want \/ \E u, wish : want' = [want EXCEPT ![u] = wish]
    BY <1>4 DEF Fail, Place, Wish
  <2>3. deeds' \in {deeds, deeds + 1} /\ failures' \in {failures, failures + 1} /\ arrivals' \in {arrivals, arrivals + 1}
    BY <1>4 DEF Fail, Deed, CanAct, history
  <2> QED
    BY <2>1, <2>2, <2>3, OddGrows, WantMoves DEF Remembers
<1>5. ASSUME NEW c \in Slots, SwipeDone(c)
      PROVE  Remembers
  BY <1>5 DEF SwipeDone, Answered, Done, history, Remembers
<1>6. ASSUME NEW c \in Slots, UndoSwipeDone(c)
      PROVE  Remembers
  BY <1>6 DEF UndoSwipeDone, Done, history, Remembers
<1>7. ASSUME NEW c \in Slots, ArchiveDone(c)
      PROVE  Remembers
  BY <1>7 DEF ArchiveDone, Done, Gives, StillOpen, history, Remembers
<1>8. ASSUME NEW c \in Slots, UndoArchiveDone(c)
      PROVE  Remembers
  BY <1>8 DEF UndoArchiveDone, Done, Gives, StillOpen, history, Remembers
<1>9. ASSUME NEW c \in Slots, DeleteDone(c)
      PROVE  Remembers
  BY <1>9 DEF DeleteDone, Abandon, Remembers, Gives
<1>10. ASSUME NEW c \in Slots, ToggleDone(c)
      PROVE  Remembers
  BY <1>10 DEF ToggleDone, Abandon, Remembers, Gives, StillOpen
<1>11. ASSUME NEW c \in Slots, UndoMuteDone(c)
      PROVE  Remembers
  BY <1>11 DEF UndoMuteDone, Done, history, Remembers
<1>12. ASSUME NEW s \in Scopes, Navigate(s)
      PROVE  Remembers
  BY <1>12 DEF Navigate, Deed, GoTo, Abandon, Doomed, Listing, history, Remembers
<1>13. ASSUME NEW c \in Slots, UndoSwipe(c)
      PROVE  Remembers
  <2>1. odd' = odd \/ \E u, why : odd' = [odd EXCEPT ![u] = odd[u] \cup why]
    BY <1>13 DEF UndoSwipe, MarkFlag, Mark
  <2>2. want' = want \/ \E u, wish : want' = [want EXCEPT ![u] = wish]
    BY <1>13 DEF UndoSwipe, Place, Wish
  <2>3. deeds' \in {deeds, deeds + 1} /\ failures' \in {failures, failures + 1} /\ arrivals' \in {arrivals, arrivals + 1}
    BY <1>13 DEF UndoSwipe, Deed, CanAct, history
  <2> QED
    BY <2>1, <2>2, <2>3, OddGrows, WantMoves DEF Remembers
<1>14. ASSUME NEW c \in Slots, NEW t \in Conversations, Swipe(c, t)
      PROVE  Remembers
  <2>1. odd' = odd \/ \E u, why : odd' = [odd EXCEPT ![u] = odd[u] \cup why]
    BY <1>14 DEF Swipe, MarkFlag, Mark
  <2>2. want' = want \/ \E u, wish : want' = [want EXCEPT ![u] = wish]
    BY <1>14 DEF Swipe, Place, Wish
  <2>3. deeds' \in {deeds, deeds + 1} /\ failures' \in {failures, failures + 1} /\ arrivals' \in {arrivals, arrivals + 1}
    BY <1>14 DEF Swipe, Deed, CanAct, history
  <2> QED
    BY <2>1, <2>2, <2>3, OddGrows, WantMoves DEF Remembers
<1>15. ASSUME NEW S \in SUBSET Conversations, BulkArchive(S)
      PROVE  Remembers
  BY <1>15 DEF BulkArchive, BulkAsk, Deed, Remembers
<1>16. ASSUME NEW S \in SUBSET Conversations, BulkDelete(S)
      PROVE  Remembers
  BY <1>16 DEF BulkDelete, BulkAsk, Deed, Remembers
<1>17. CASE BulkDone
  BY <1>17 DEF BulkDone, Under, Bulk, history, Remembers
<1>18. CASE SwipeToastGone
  BY <1>18 DEF SwipeToastGone, history, Remembers
<1>19. CASE Refresh
  BY <1>19 DEF Refresh, Listing, history, Remembers
<1>20. ASSUME NEW t \in Conversations, OpenThread(t)
      PROVE  Remembers
  <2>1. odd' = odd \/ \E u, why : odd' = [odd EXCEPT ![u] = odd[u] \cup why]
    BY <1>20 DEF OpenThread, MarkFlag, Mark
  <2>2. want' = want \/ \E u, wish : want' = [want EXCEPT ![u] = wish]
    BY <1>20 DEF OpenThread, Place, Wish
  <2>3. deeds' \in {deeds, deeds + 1} /\ failures' \in {failures, failures + 1} /\ arrivals' \in {arrivals, arrivals + 1}
    BY <1>20 DEF OpenThread, Deed, CanAct, history
  <2> QED
    BY <2>1, <2>2, <2>3, OddGrows, WantMoves DEF Remembers
<1>21. CASE Delete
  <2>1. odd' = odd \/ \E u, why : odd' = [odd EXCEPT ![u] = odd[u] \cup why]
    BY <1>21 DEF Delete, MarkFlag, Mark
  <2>2. want' = want \/ \E u, wish : want' = [want EXCEPT ![u] = wish]
    BY <1>21 DEF Delete, Place, Wish
  <2>3. deeds' \in {deeds, deeds + 1} /\ failures' \in {failures, failures + 1} /\ arrivals' \in {arrivals, arrivals + 1}
    BY <1>21 DEF Delete, Deed, CanAct, history
  <2> QED
    BY <2>1, <2>2, <2>3, OddGrows, WantMoves DEF Remembers
<1>22. CASE UndoDelete
  <2>1. odd' = odd \/ \E u, why : odd' = [odd EXCEPT ![u] = odd[u] \cup why]
    BY <1>22 DEF UndoDelete, MarkFlag, Mark
  <2>2. want' = want \/ \E u, wish : want' = [want EXCEPT ![u] = wish]
    BY <1>22 DEF UndoDelete, Place, Wish
  <2>3. deeds' \in {deeds, deeds + 1} /\ failures' \in {failures, failures + 1} /\ arrivals' \in {arrivals, arrivals + 1}
    BY <1>22 DEF UndoDelete, Deed, CanAct, history
  <2> QED
    BY <2>1, <2>2, <2>3, OddGrows, WantMoves DEF Remembers
<1>23. CASE CommitArchive
  BY <1>23 DEF CommitArchive, CanSettle, GoTo, Listing, history, Remembers
<1>24. CASE CloseToast
  BY <1>24 DEF CloseToast, Deed, Abandon, Doomed, history, Remembers
<1>25. CASE LateDismiss
  BY <1>25 DEF LateDismiss, Abandon, Doomed, history, Remembers
<1>26. CASE UnmuteToastGone
  BY <1>26 DEF UnmuteToastGone, history, Remembers
<1>27. ASSUME NEW c \in Slots, Archive(c)
      PROVE  Remembers
  <2>1. odd' = odd \/ \E u, why : odd' = [odd EXCEPT ![u] = odd[u] \cup why]
    BY <1>27 DEF Archive, MarkFlag, Mark
  <2>2. want' = want \/ \E u, wish : want' = [want EXCEPT ![u] = wish]
    BY <1>27 DEF Archive, Place, Wish
  <2>3. deeds' \in {deeds, deeds + 1} /\ failures' \in {failures, failures + 1} /\ arrivals' \in {arrivals, arrivals + 1}
    BY <1>27 DEF Archive, Deed, CanAct, history
  <2> QED
    BY <2>1, <2>2, <2>3, OddGrows, WantMoves DEF Remembers
<1>28. ASSUME NEW c \in Slots, UndoArchive(c)
      PROVE  Remembers
  <2>1. odd' = odd \/ \E u, why : odd' = [odd EXCEPT ![u] = odd[u] \cup why]
    BY <1>28 DEF UndoArchive, MarkFlag, Mark
  <2>2. want' = want \/ \E u, wish : want' = [want EXCEPT ![u] = wish]
    BY <1>28 DEF UndoArchive, Place, Wish
  <2>3. deeds' \in {deeds, deeds + 1} /\ failures' \in {failures, failures + 1} /\ arrivals' \in {arrivals, arrivals + 1}
    BY <1>28 DEF UndoArchive, Deed, CanAct, history
  <2> QED
    BY <2>1, <2>2, <2>3, OddGrows, WantMoves DEF Remembers
<1>29. ASSUME NEW c \in Slots, CommitDelete(c)
      PROVE  Remembers
  BY <1>29 DEF CommitDelete, CanSettle, Ask, history, Remembers
<1>30. ASSUME NEW c \in Slots, UndoMute(c)
      PROVE  Remembers
  <2>1. odd' = odd \/ \E u, why : odd' = [odd EXCEPT ![u] = odd[u] \cup why]
    BY <1>30 DEF UndoMute, MarkFlag, Mark
  <2>2. want' = want \/ \E u, wish : want' = [want EXCEPT ![u] = wish]
    BY <1>30 DEF UndoMute, Place, Wish
  <2>3. deeds' \in {deeds, deeds + 1} /\ failures' \in {failures, failures + 1} /\ arrivals' \in {arrivals, arrivals + 1}
    BY <1>30 DEF UndoMute, Deed, CanAct, history
  <2> QED
    BY <2>1, <2>2, <2>3, OddGrows, WantMoves DEF Remembers
<1>31. ASSUME NEW c \in Slots, NEW f \in Flags, Toggle(c, f)
      PROVE  Remembers
  <2>1. odd' = odd \/ \E u, why : odd' = [odd EXCEPT ![u] = odd[u] \cup why]
    BY <1>31 DEF Toggle, MarkFlag, Mark
  <2>2. want' = want \/ \E u, wish : want' = [want EXCEPT ![u] = wish]
    BY <1>31 DEF Toggle, Place, Wish
  <2>3. deeds' \in {deeds, deeds + 1} /\ failures' \in {failures, failures + 1} /\ arrivals' \in {arrivals, arrivals + 1}
    BY <1>31 DEF Toggle, Deed, CanAct, history
  <2> QED
    BY <2>1, <2>2, <2>3, OddGrows, WantMoves DEF Remembers
<1>32. CASE OpenDeck
  BY <1>32 DEF OpenDeck, Deed, Touched, history, Remembers
<1>33. CASE LoadDeck
  BY <1>33 DEF LoadDeck, Dealt, history, Remembers
<1>34. CASE LoadFails
  BY <1>34 DEF LoadFails, Dealt, history, Remembers
<1>35. CASE CloseDeck
  BY <1>35 DEF CloseDeck, Deed, history, Remembers
<1>36. CASE Reply
  BY <1>36 DEF Reply, Deed, Remembers
<1>37. ASSUME NEW action \in {"archive", "keep", "star"}, Commit(action)
      PROVE  Remembers
  BY <1>37 DEF Commit, Deed, OnTop, Touched, history, Remembers
<1>38. ASSUME NEW c \in Slots, Land(c)
      PROVE  Remembers
  <2>1. odd' = odd \/ \E u, why : odd' = [odd EXCEPT ![u] = odd[u] \cup why]
    BY <1>38 DEF Land, MarkFlag, Mark
  <2>2. want' = want \/ \E u, wish : want' = [want EXCEPT ![u] = wish]
    BY <1>38 DEF Land, Place, Wish
  <2>3. deeds' \in {deeds, deeds + 1} /\ failures' \in {failures, failures + 1} /\ arrivals' \in {arrivals, arrivals + 1}
    BY <1>38 DEF Land, Deed, CanAct, history
  <2> QED
    BY <2>1, <2>2, <2>3, OddGrows, WantMoves DEF Remembers
<1>39. ASSUME NEW c \in Slots, UndoDeck(c)
      PROVE  Remembers
  <2>1. odd' = odd \/ \E u, why : odd' = [odd EXCEPT ![u] = odd[u] \cup why]
    BY <1>39 DEF UndoDeck, MarkFlag, Mark
  <2>2. want' = want \/ \E u, wish : want' = [want EXCEPT ![u] = wish]
    BY <1>39 DEF UndoDeck, Place, Wish
  <2>3. deeds' \in {deeds, deeds + 1} /\ failures' \in {failures, failures + 1} /\ arrivals' \in {arrivals, arrivals + 1}
    BY <1>39 DEF UndoDeck, Deed, CanAct, history
  <2> QED
    BY <2>1, <2>2, <2>3, OddGrows, WantMoves DEF Remembers
<1>40. ASSUME NEW t \in Conversations, Arrive(t)
      PROVE  Remembers
  <2>1. odd' = odd \/ \E u, why : odd' = [odd EXCEPT ![u] = odd[u] \cup why]
    BY <1>40 DEF Arrive, MarkFlag, Mark
  <2>2. want' = want \/ \E u, wish : want' = [want EXCEPT ![u] = wish]
    BY <1>40 DEF Arrive, Place, Wish
  <2>3. deeds' \in {deeds, deeds + 1} /\ failures' \in {failures, failures + 1} /\ arrivals' \in {arrivals, arrivals + 1}
    BY <1>40 DEF Arrive, Deed, CanAct, history
  <2> QED
    BY <2>1, <2>2, <2>3, OddGrows, WantMoves DEF Remembers
<1> QED
  BY <1>1, <1>2, <1>3, <1>4, <1>5, <1>6, <1>7, <1>8, <1>9, <1>10, <1>11, <1>12, <1>13, <1>14,
     <1>15, <1>16, <1>17, <1>18, <1>19, <1>20, <1>21, <1>22, <1>23, <1>24, <1>25, <1>26, <1>27,
     <1>28, <1>29, <1>30, <1>31, <1>32, <1>33, <1>34, <1>35, <1>36, <1>37, <1>38, <1>39,
     <1>40 DEF InboxNext, Answers, ListDeeds, ToolbarDeeds, DeckDeeds

LEMMA InboxTypedStep == InboxTyped /\ [InboxNext]_inboxVars => InboxTyped'
  BY CallsStep, ViewStep, ServerStep, ListStep, DeckStep, WishesStep DEF InboxTyped, Remembers

LEMMA InitNumbered == InboxInit => Numbered /\ TopFlies /\ FlagFollows /\ WishFollows
<1> SUFFICES ASSUME InboxInit PROVE Numbered /\ TopFlies /\ FlagFollows /\ WishFollows
  OBVIOUS
<1> USE DEF InboxInit
<1>1. Numbered
  BY DEF Numbered
<1>2. TopFlies
  BY DEF TopFlies, Range
<1>3. FlagFollows
  BY DEF FlagFollows, Shows, FlagOf, About, Under, Flagging, Idle
<1>4. WishFollows
  BY DEF WishFollows, Follows, Filing, About, Under, Placing, Idle, Doomed, CameTrue, Excuses
<1> QED
  BY <1>1, <1>2, <1>3, <1>4

LEMMA NumberedStep ==
    InboxTyped /\ Numbered /\ [InboxNext]_inboxVars => Numbered'
<1> SUFFICES ASSUME InboxTyped, Numbered, [InboxNext]_inboxVars
             PROVE  Numbered'
  OBVIOUS
<1> USE DEF Numbered, StillOpen
<1>1. CASE UNCHANGED inboxVars
  BY <1>1 DEF inboxVars, history, list, server
<1>2. ASSUME NEW c \in Slots, Serve(c)
      PROVE  Numbered'
  BY <1>2, ToolbarShown, CallMade DEF Serve, Deed, Place, Ask, CanAct, CanSettle, Settled,
     Done, Answered, Call, Opened, server, list, history, InboxTyped, CallsOK, ViewOK,
     WishesOK, Calling, Opening, Kinds, Placing, Flagging, Idle, Closed, Flags
<1>3. ASSUME NEW c \in Slots, Forbid(c)
      PROVE  Numbered'
  BY <1>3, ToolbarShown, CallMade DEF Forbid, Deed, Place, Ask, CanAct, CanSettle, Settled,
     Done, Answered, Call, Opened, server, list, history, InboxTyped, CallsOK, ViewOK,
     WishesOK, Calling, Opening, Kinds, Placing, Flagging, Idle, Closed, Flags
<1>4. ASSUME NEW c \in Slots, NEW answer \in {"refused", "lost"}, Fail(c, answer)
      PROVE  Numbered'
  BY <1>4, ToolbarShown, CallMade DEF Fail, Deed, Place, Ask, CanAct, CanSettle, Settled, Done,
     Answered, Call, Opened, server, list, history, InboxTyped, CallsOK, ViewOK, WishesOK,
     Calling, Opening, Kinds, Placing, Flagging, Idle, Closed, Flags
<1>5. ASSUME NEW c \in Slots, SwipeDone(c)
      PROVE  Numbered'
  BY <1>5, ToolbarShown, CallMade DEF SwipeDone, Deed, Place, Ask, CanAct, CanSettle, Settled,
     Done, Answered, Call, Opened, server, list, history, InboxTyped, CallsOK, ViewOK,
     WishesOK, Calling, Opening, Kinds, Placing, Flagging, Idle, Closed, Flags
<1>6. ASSUME NEW c \in Slots, UndoSwipeDone(c)
      PROVE  Numbered'
  BY <1>6, ToolbarShown, CallMade DEF UndoSwipeDone, Deed, Place, Ask, CanAct, CanSettle,
     Settled, Done, Answered, Call, Opened, server, list, history, InboxTyped, CallsOK, ViewOK,
     WishesOK, Calling, Opening, Kinds, Placing, Flagging, Idle, Closed, Flags
<1>7. ASSUME NEW c \in Slots, ArchiveDone(c)
      PROVE  Numbered'
  <2>1. /\ UNCHANGED deeds /\ Done(c)
        /\ view' = view \/ (view # Closed /\ view' = [Settled EXCEPT !.archived = ~calls[c].value])
    BY <1>7 DEF ArchiveDone, history
  <2>2. view' # Closed => view # Closed /\ view'.opened = view.opened /\ view'.thread = view.thread
    BY <2>1, ToolbarShown DEF Settled, Opening, Closed
  <2> QED
    BY <2>1, <2>2, CallMade DEF Done, InboxTyped, CallsOK, ViewOK, WishesOK, Calling, Opening,
       Kinds, Placing, Flagging, Idle, Closed
<1>8. ASSUME NEW c \in Slots, UndoArchiveDone(c)
      PROVE  Numbered'
  BY <1>8, ToolbarShown, CallMade DEF UndoArchiveDone, Deed, Place, Ask, CanAct, CanSettle,
     Settled, Done, Answered, Call, Opened, server, list, history, InboxTyped, CallsOK, ViewOK,
     WishesOK, Calling, Opening, Kinds, Placing, Flagging, Idle, Closed, Flags
<1>9. ASSUME NEW c \in Slots, DeleteDone(c)
      PROVE  Numbered'
  <2>1. /\ UNCHANGED deeds /\ Done(c)
        /\ \/ view' \in {view, Closed}
           \/ view # Closed /\ view' \in {[view EXCEPT !.lingers = TRUE], [Settled EXCEPT !.lingers = TRUE]}
    BY <1>9 DEF DeleteDone, GoTo
  <2>2. view' # Closed => view # Closed /\ view'.opened = view.opened /\ view'.thread = view.thread
    BY <2>1, ToolbarShown DEF Settled, Opening, Closed
  <2> QED
    BY <2>1, <2>2, CallMade DEF Done, InboxTyped, CallsOK, ViewOK, WishesOK, Calling, Opening,
       Kinds, Placing, Flagging, Idle, Closed
<1>10. ASSUME NEW c \in Slots, ToggleDone(c)
      PROVE  Numbered'
  BY <1>10, ToolbarShown, CallMade DEF ToggleDone, Done, Gives, Call, Opened, server, list,
     history, InboxTyped, CallsOK, ViewOK, WishesOK, Calling, Opening, Kinds, Placing,
     Flagging, Idle, Closed, Flags
<1>11. ASSUME NEW c \in Slots, UndoMuteDone(c)
      PROVE  Numbered'
  BY <1>11, ToolbarShown, CallMade DEF UndoMuteDone, Deed, Place, Ask, CanAct, CanSettle,
     Settled, Done, Answered, Call, Opened, server, list, history, InboxTyped, CallsOK, ViewOK,
     WishesOK, Calling, Opening, Kinds, Placing, Flagging, Idle, Closed, Flags
<1>12. ASSUME NEW s \in Scopes, Navigate(s)
      PROVE  Numbered'
  BY <1>12, ToolbarShown, CallMade DEF Navigate, Deed, GoTo, Call, Opened, server, list,
     history, InboxTyped, CallsOK, ViewOK, WishesOK, Calling, Opening, Kinds, Placing,
     Flagging, Idle, Closed, Flags
<1>13. ASSUME NEW c \in Slots, UndoSwipe(c)
      PROVE  Numbered'
  <2>1. /\ UNCHANGED view /\ deeds' = deeds + 1 /\ calls[c] = Idle
        /\ \E u \in Conversations, v \in BOOLEAN :
             calls' = [calls EXCEPT ![c] = Call("swipeUndo", u, "archived", v)]
    BY <1>13, ToastOK DEF UndoSwipe, Deed, Place, Ask, Visible, InboxTyped, ListOK
  <2> QED
    BY <2>1, ToolbarShown, CallMade DEF Call, Opened, InboxTyped, CallsOK, ViewOK, WishesOK,
       Calling, Opening, Kinds, Placing, Flagging, Idle, Closed
<1>14. ASSUME NEW c \in Slots, NEW t \in Conversations, Swipe(c, t)
      PROVE  Numbered'
  <2>1. /\ UNCHANGED view /\ deeds' = deeds + 1 /\ calls[c] = Idle
        /\ \E u \in Conversations, v \in BOOLEAN :
             calls' = [calls EXCEPT ![c] = Call("swipe", u, "archived", v)]
    BY <1>14, ToastOK DEF Swipe, Deed, Place, Ask, Visible, InboxTyped, ListOK
  <2> QED
    BY <2>1, ToolbarShown, CallMade DEF Call, Opened, InboxTyped, CallsOK, ViewOK, WishesOK,
       Calling, Opening, Kinds, Placing, Flagging, Idle, Closed
<1>15. ASSUME NEW S \in SUBSET Conversations, BulkArchive(S)
      PROVE  Numbered'
  BY <1>15, ToolbarShown, CallMade DEF BulkArchive, BulkAsk, Deed, Bulk, Call, Opened, server,
     list, history, InboxTyped, CallsOK, ViewOK, WishesOK, Calling, Opening, Kinds, Placing,
     Flagging, Idle, Closed, Flags
<1>16. ASSUME NEW S \in SUBSET Conversations, BulkDelete(S)
      PROVE  Numbered'
  BY <1>16, ToolbarShown, CallMade DEF BulkDelete, BulkAsk, Deed, Bulk, Call, Opened, server,
     list, history, InboxTyped, CallsOK, ViewOK, WishesOK, Calling, Opening, Kinds, Placing,
     Flagging, Idle, Closed, Flags
<1>17. CASE BulkDone
  BY <1>17, ToolbarShown, CallMade DEF BulkDone, Deed, Place, Ask, CanAct, CanSettle, Settled,
     Done, Answered, Call, Opened, server, list, history, InboxTyped, CallsOK, ViewOK,
     WishesOK, Calling, Opening, Kinds, Placing, Flagging, Idle, Closed, Flags
<1>18. CASE SwipeToastGone
  BY <1>18, ToolbarShown, CallMade DEF SwipeToastGone, Deed, Place, Ask, CanAct, CanSettle,
     Settled, Done, Answered, Call, Opened, server, list, history, InboxTyped, CallsOK, ViewOK,
     WishesOK, Calling, Opening, Kinds, Placing, Flagging, Idle, Closed, Flags
<1>19. CASE Refresh
  BY <1>19, ToolbarShown, CallMade DEF Refresh, Deed, Place, Ask, CanAct, CanSettle, Settled,
     Done, Answered, Call, Opened, server, list, history, InboxTyped, CallsOK, ViewOK,
     WishesOK, Calling, Opening, Kinds, Placing, Flagging, Idle, Closed, Flags
<1>20. ASSUME NEW t \in Conversations, OpenThread(t)
      PROVE  Numbered'
  BY <1>20, ToolbarShown, CallMade DEF OpenThread, Deed, Toolbar, Call, Opened, server, list,
     history, InboxTyped, CallsOK, ViewOK, WishesOK, Calling, Opening, Kinds, Placing,
     Flagging, Idle, Closed, Flags
<1>21. CASE Delete
  BY <1>21, ToolbarShown, CallMade DEF Delete, Deed, Place, Ask, CanAct, CanSettle, Settled,
     Done, Answered, Call, Opened, server, list, history, InboxTyped, CallsOK, ViewOK,
     WishesOK, Calling, Opening, Kinds, Placing, Flagging, Idle, Closed, Flags
<1>22. CASE UndoDelete
  BY <1>22, ToolbarShown, CallMade DEF UndoDelete, Deed, Place, Ask, CanAct, CanSettle,
     Settled, Done, Answered, Call, Opened, server, list, history, InboxTyped, CallsOK, ViewOK,
     WishesOK, Calling, Opening, Kinds, Placing, Flagging, Idle, Closed, Flags
<1>23. CASE CommitArchive
  <2>1. /\ UNCHANGED <<calls, deeds>> /\ view # Closed
        /\ view' \in {Closed, [Settled EXCEPT !.lingers = TRUE]}
    BY <1>23 DEF CommitArchive, CanSettle, GoTo, history
  <2>2. view' # Closed => view # Closed /\ view'.opened = view.opened /\ view'.thread = view.thread
    BY <2>1, ToolbarShown DEF Settled, Opening, Closed
  <2> QED
    BY <2>1, <2>2, CallMade DEF InboxTyped, CallsOK, ViewOK, WishesOK, Calling, Opening, Kinds,
       Placing, Flagging, Idle, Closed
<1>24. CASE CloseToast
  BY <1>24, ToolbarShown, CallMade DEF CloseToast, Deed, Place, Ask, CanAct, CanSettle,
     Settled, Done, Answered, Call, Opened, server, list, history, InboxTyped, CallsOK, ViewOK,
     WishesOK, Calling, Opening, Kinds, Placing, Flagging, Idle, Closed, Flags
<1>25. CASE LateDismiss
  BY <1>25, ToolbarShown, CallMade DEF LateDismiss, Deed, Place, Ask, CanAct, CanSettle,
     Settled, Done, Answered, Call, Opened, server, list, history, InboxTyped, CallsOK, ViewOK,
     WishesOK, Calling, Opening, Kinds, Placing, Flagging, Idle, Closed, Flags
<1>26. CASE UnmuteToastGone
  BY <1>26, ToolbarShown, CallMade DEF UnmuteToastGone, Deed, Place, Ask, CanAct, CanSettle,
     Settled, Done, Answered, Call, Opened, server, list, history, InboxTyped, CallsOK, ViewOK,
     WishesOK, Calling, Opening, Kinds, Placing, Flagging, Idle, Closed, Flags
<1>27. ASSUME NEW c \in Slots, Archive(c)
      PROVE  Numbered'
  BY <1>27, ToolbarShown, CallMade DEF Archive, Deed, Place, Ask, CanAct, CanSettle, Settled,
     Done, Answered, Call, Opened, server, list, history, InboxTyped, CallsOK, ViewOK,
     WishesOK, Calling, Opening, Kinds, Placing, Flagging, Idle, Closed, Flags
<1>28. ASSUME NEW c \in Slots, UndoArchive(c)
      PROVE  Numbered'
  BY <1>28, ToolbarShown, CallMade DEF UndoArchive, Deed, Place, Ask, CanAct, CanSettle,
     Settled, Done, Answered, Call, Opened, server, list, history, InboxTyped, CallsOK, ViewOK,
     WishesOK, Calling, Opening, Kinds, Placing, Flagging, Idle, Closed, Flags
<1>29. ASSUME NEW c \in Slots, CommitDelete(c)
      PROVE  Numbered'
  BY <1>29, ToolbarShown, CallMade DEF CommitDelete, Deed, Place, Ask, CanAct, CanSettle,
     Settled, Done, Answered, Call, Opened, server, list, history, InboxTyped, CallsOK, ViewOK,
     WishesOK, Calling, Opening, Kinds, Placing, Flagging, Idle, Closed, Flags
<1>30. ASSUME NEW c \in Slots, UndoMute(c)
      PROVE  Numbered'
  BY <1>30, ToolbarShown, CallMade DEF UndoMute, Deed, Place, Ask, CanAct, CanSettle, Settled,
     Done, Answered, Call, Opened, server, list, history, InboxTyped, CallsOK, ViewOK,
     WishesOK, Calling, Opening, Kinds, Placing, Flagging, Idle, Closed, Flags
<1>31. ASSUME NEW c \in Slots, NEW f \in Flags, Toggle(c, f)
      PROVE  Numbered'
  BY <1>31, ToolbarShown, CallMade DEF Toggle, Deed, Place, Ask, CanAct, CanSettle, Settled,
     Done, Answered, Call, Opened, server, list, history, InboxTyped, CallsOK, ViewOK,
     WishesOK, Calling, Opening, Kinds, Placing, Flagging, Idle, Closed, Flags
<1>32. CASE OpenDeck
  BY <1>32, ToolbarShown, CallMade DEF OpenDeck, Deed, Place, Ask, CanAct, CanSettle, Settled,
     Done, Answered, Call, Opened, server, list, history, InboxTyped, CallsOK, ViewOK,
     WishesOK, Calling, Opening, Kinds, Placing, Flagging, Idle, Closed, Flags
<1>33. CASE LoadDeck
  BY <1>33, ToolbarShown, CallMade DEF LoadDeck, Dealt, Call, Opened, server, list, history,
     InboxTyped, CallsOK, ViewOK, WishesOK, Calling, Opening, Kinds, Placing, Flagging, Idle,
     Closed, Flags
<1>34. CASE LoadFails
  BY <1>34, ToolbarShown, CallMade DEF LoadFails, Dealt, Call, Opened, server, list, history,
     InboxTyped, CallsOK, ViewOK, WishesOK, Calling, Opening, Kinds, Placing, Flagging, Idle,
     Closed, Flags
<1>35. CASE CloseDeck
  BY <1>35, ToolbarShown, CallMade DEF CloseDeck, Deed, Place, Ask, CanAct, CanSettle, Settled,
     Done, Answered, Call, Opened, server, list, history, InboxTyped, CallsOK, ViewOK,
     WishesOK, Calling, Opening, Kinds, Placing, Flagging, Idle, Closed, Flags
<1>36. CASE Reply
  BY <1>36, ToolbarShown, CallMade DEF Reply, Deed, GoTo, Toolbar, Call, Opened, server, list,
     history, InboxTyped, CallsOK, ViewOK, WishesOK, Calling, Opening, Kinds, Placing,
     Flagging, Idle, Closed, Flags
<1>37. ASSUME NEW action \in {"archive", "keep", "star"}, Commit(action)
      PROVE  Numbered'
  BY <1>37, ToolbarShown, CallMade DEF Commit, Deed, Place, Ask, CanAct, CanSettle, Settled,
     Done, Answered, Call, Opened, server, list, history, InboxTyped, CallsOK, ViewOK,
     WishesOK, Calling, Opening, Kinds, Placing, Flagging, Idle, Closed, Flags
<1>38. ASSUME NEW c \in Slots, Land(c)
      PROVE  Numbered'
  <2>1. /\ UNCHANGED <<deeds, view>>
        /\ \/ UNCHANGED calls
           \/ /\ calls[c] = Idle
              /\ \E u \in Conversations : \E v \in BOOLEAN :
                   calls' \in {[calls EXCEPT ![c] = Call("deck", u, "archived", TRUE)],
                             [calls EXCEPT ![c] = [Call("deck", u, "starred", v) EXCEPT !.from = 0]]}
    <3>0. Head(deck.flying)[1] \in Conversations
      BY <1>38, CardOK DEF Land
    <3>2. (Head(deck.flying)[1] \notin deck.starred) \in BOOLEAN
      OBVIOUS
    <3> QED
      BY <1>38, <3>0, <3>2 DEF Land, Place, Ask
  <2>2. \/ UNCHANGED calls
        \/ /\ calls[c] = Idle /\ \A d \in Slots : d # c => calls'[d] = calls[d]
           /\ calls'[c].kind = "deck" /\ calls'[c].step = "asked"
           /\ calls'[c].field \in {"archived", "starred"} /\ calls'[c].from \in {0, Opened}
    <3>1. SUFFICES ASSUME calls' # calls
                   PROVE  /\ calls[c] = Idle /\ \A d \in Slots : d # c => calls'[d] = calls[d]
                          /\ calls'[c].kind = "deck" /\ calls'[c].step = "asked"
                          /\ calls'[c].field \in {"archived", "starred"}
                          /\ calls'[c].from \in {0, Opened}
      OBVIOUS
    <3>2. PICK u \in Conversations, v \in BOOLEAN :
             calls' \in {[calls EXCEPT ![c] = Call("deck", u, "archived", TRUE)],
                       [calls EXCEPT ![c] = [Call("deck", u, "starred", v) EXCEPT !.from = 0]]}
      BY <2>1, <3>1
    <3>3. CASE calls' = [calls EXCEPT ![c] = Call("deck", u, "archived", TRUE)]
      BY <2>1, <3>1, <3>3 DEF Call, InboxTyped, CallsOK
    <3>4. CASE calls' = [calls EXCEPT ![c] = [Call("deck", u, "starred", v) EXCEPT !.from = 0]]
      BY <2>1, <3>1, <3>4 DEF Call, InboxTyped, CallsOK
    <3> QED
      BY <3>2, <3>3, <3>4
  <2>3. Opened <= deeds /\ 0 <= deeds
    BY ToolbarShown DEF Opened, InboxTyped, WishesOK
  <2> QED
    BY <2>1, <2>2, <2>3 DEF InboxTyped, CallsOK, ViewOK, WishesOK, Calling, Opening, Kinds,
       Placing, Flagging, Idle, Closed
<1>39. ASSUME NEW c \in Slots, UndoDeck(c)
      PROVE  Numbered'
  BY <1>39, ToolbarShown, CallMade DEF UndoDeck, Deed, Place, Ask, CanAct, CanSettle, Settled,
     Done, Answered, Call, Opened, server, list, history, InboxTyped, CallsOK, ViewOK,
     WishesOK, Calling, Opening, Kinds, Placing, Flagging, Idle, Closed, Flags
<1>40. ASSUME NEW t \in Conversations, Arrive(t)
      PROVE  Numbered'
  BY <1>40, ToolbarShown, CallMade DEF Arrive, Deed, Place, Ask, CanAct, CanSettle, Settled,
     Done, Answered, Call, Opened, server, list, history, InboxTyped, CallsOK, ViewOK,
     WishesOK, Calling, Opening, Kinds, Placing, Flagging, Idle, Closed, Flags
<1> QED
  BY <1>1, <1>2, <1>3, <1>4, <1>5, <1>6, <1>7, <1>8, <1>9, <1>10, <1>11, <1>12, <1>13, <1>14,
     <1>15, <1>16, <1>17, <1>18, <1>19, <1>20, <1>21, <1>22, <1>23, <1>24, <1>25, <1>26, <1>27,
     <1>28, <1>29, <1>30, <1>31, <1>32, <1>33, <1>34, <1>35, <1>36, <1>37, <1>38, <1>39,
     <1>40 DEF InboxNext, Answers, ListDeeds, ToolbarDeeds, DeckDeeds

LEMMA TopFliesStep ==
    InboxTyped /\ TopFlies /\ [InboxNext]_inboxVars => TopFlies'
<1> SUFFICES ASSUME InboxTyped, TopFlies, [InboxNext]_inboxVars
             PROVE  TopFlies'
  OBVIOUS
<1>1. CASE UNCHANGED <<deck, dealt, decided, hasty>>
  BY <1>1 DEF InboxTyped, TopFlies
<1>2. CASE OpenDeck
  <2>1. /\ deck'.cards = deck.cards /\ deck'.flying = deck.flying /\ UNCHANGED <<dealt, decided>>
        /\ hasty' = (hasty \/ deck.flying # <<>>)
    BY <1>2 DEF OpenDeck, Touched, InboxTyped, DeckOK, Decks
  <2> QED
    BY <2>1 DEF TopFlies
<1>3. CASE LoadDeck
  <2>1. PICK hand : Dealt(hand)
    BY <1>3 DEF LoadDeck
  <2>2. /\ deck'.cards = hand /\ deck'.flying = deck.flying /\ dealt' = Range(hand)
        /\ hasty' = (deck.flying # <<>>)
    BY <2>1 DEF Dealt, InboxTyped, DeckOK, Decks
  <2> QED
    BY <2>2 DEF TopFlies
<1>4. CASE LoadFails
  <2>1. PICK hand : Dealt(hand)
    BY <1>4 DEF LoadFails
  <2>2. /\ deck'.cards = hand /\ deck'.flying = deck.flying /\ dealt' = Range(hand)
        /\ hasty' = (deck.flying # <<>>)
    BY <2>1 DEF Dealt, InboxTyped, DeckOK, Decks
  <2> QED
    BY <2>2 DEF TopFlies
<1>5. CASE CloseDeck
  <2>1. /\ deck'.cards = deck.cards /\ deck'.flying = deck.flying
        /\ UNCHANGED <<dealt, decided, hasty>>
    BY <1>5 DEF CloseDeck, InboxTyped, DeckOK, Decks
  <2> QED
    BY <2>1 DEF TopFlies
<1>6. CASE Reply
  <2>1. /\ deck'.cards = deck.cards /\ deck'.flying = deck.flying
        /\ UNCHANGED <<dealt, decided, hasty>>
    BY <1>6 DEF Reply, InboxTyped, DeckOK, Decks
  <2> QED
    BY <2>1 DEF TopFlies
<1>7. ASSUME NEW action \in {"archive", "keep", "star"}, Commit(action)
      PROVE  TopFlies'
  <2>1. /\ deck'.cards = deck.cards /\ deck.cards # <<>> /\ UNCHANGED <<dealt, decided>>
        /\ deck'.flying = Append(deck.flying, <<Head(deck.cards), action>>)
        /\ hasty' = (hasty \/ deck.flying # <<>>)
    BY <1>7 DEF Commit, OnTop, Touched, InboxTyped, DeckOK, Decks
  <2>2. deck.cards \in Seq(Conversations) /\ deck.flying \in Seq(Conversations \X {"archive", "keep", "star"})
    BY DEF InboxTyped, DeckOK, Decks
  <2>3. CASE deck.flying = <<>>
    <3>1. deck'.flying = << <<Head(deck.cards), action>> >>
      BY <2>1, <2>3
    <3>2. /\ Len(deck'.flying) = 1 /\ deck'.flying[1] = <<Head(deck.cards), action>>
          /\ deck'.flying[1][1] = deck.cards[1]
      BY <2>1, <2>2, <3>1
    <3>3. deck'.cards # <<>> /\ deck'.cards[1] = deck.cards[1]
      BY <2>1
    <3>4. ~hasty' => dealt' \ Range(deck'.cards) \subseteq decided'
      BY <2>1 DEF TopFlies
    <3> QED
      BY <3>2, <3>3, <3>4 DEF TopFlies
  <2> QED
    BY <2>1, <2>3 DEF TopFlies
<1>8. ASSUME NEW c \in Slots, Land(c)
      PROVE  TopFlies'
  <2>1. /\ deck.flying # <<>> /\ deck'.flying = Tail(deck.flying)
        /\ deck'.cards = IF deck.cards = <<>> THEN deck.cards ELSE Tail(deck.cards)
        /\ UNCHANGED <<dealt, hasty>> /\ decided' = decided \cup {Head(deck.flying)[1]}
    BY <1>8 DEF Land, Advance, InboxTyped, DeckOK, Decks
  <2>2. deck.cards \in Seq(Conversations) /\ deck.flying \in Seq(Conversations \X {"archive", "keep", "star"})
    BY DEF InboxTyped, DeckOK, Decks
  <2> SUFFICES ASSUME ~hasty
               PROVE  dealt \ Range(deck'.cards) \subseteq decided' /\ deck'.flying = <<>>
    BY <2>1 DEF TopFlies
  <2>3. /\ Len(deck.flying) = 1 /\ deck.cards # <<>> /\ deck.flying[1][1] = deck.cards[1]
        /\ dealt \ Range(deck.cards) \subseteq decided
    BY <2>1 DEF TopFlies
  <2>4. Range(deck.cards) \subseteq Range(Tail(deck.cards)) \cup {deck.cards[1]}
    <3> SUFFICES ASSUME NEW e \in Range(deck.cards), e # deck.cards[1]
                 PROVE  e \in Range(Tail(deck.cards))
      OBVIOUS
    <3>1. DOMAIN deck.cards = 1 .. Len(deck.cards)
      BY <2>2
    <3>2. PICK i \in 1 .. Len(deck.cards) : e = deck.cards[i]
      BY <3>1 DEF Range
    <3>3. i - 1 \in 1 .. Len(Tail(deck.cards)) /\ Tail(deck.cards)[i - 1] = e
      BY <2>2, <2>3, <3>2
    <3>4. DOMAIN Tail(deck.cards) = 1 .. Len(Tail(deck.cards))
      BY <2>2, <2>3
    <3> QED
      BY <3>3, <3>4 DEF Range
  <2>5. Tail(deck.flying) = <<>> /\ Head(deck.flying) = deck.flying[1]
    <3>1. /\ Tail(deck.flying) \in Seq(Conversations \X {"archive", "keep", "star"})
          /\ Len(Tail(deck.flying)) = 0 /\ Head(deck.flying) = deck.flying[1]
      BY <2>1, <2>2, <2>3
    <3> QED
      BY <3>1, EmptySeq
  <2> QED
    BY <2>1, <2>2, <2>3, <2>4, <2>5
<1>9. ASSUME NEW c \in Slots, UndoDeck(c)
      PROVE  TopFlies'
  <2>1. /\ deck'.flying = deck.flying /\ deck'.cards = <<deck.undo>> \o deck.cards
        /\ dealt' = dealt /\ decided' = decided \ {deck.undo} /\ hasty' = (hasty \/ deck.flying # <<>>)
    BY <1>9 DEF UndoDeck, Touched, InboxTyped, DeckOK, Decks
  <2>2. deck.cards \in Seq(Conversations)
    BY DEF InboxTyped, DeckOK, Decks
  <2>3. Range(deck'.cards) = {deck.undo} \cup Range(deck.cards)
    <3>1. \A i \in 1 .. Len(deck.cards) : deck'.cards[i + 1] = deck.cards[i]
      BY <2>1, <2>2
    <3>2. \A i \in 1 .. Len(deck'.cards) : i # 1 => i - 1 \in 1 .. Len(deck.cards) /\ deck'.cards[i] = deck.cards[i - 1]
      BY <2>1, <2>2
    <3>3. Len(deck'.cards) = Len(deck.cards) + 1 /\ deck'.cards[1] = deck.undo /\ DOMAIN deck'.cards = 1 .. Len(deck.cards) + 1
      BY <2>1, <2>2
    <3>4. DOMAIN deck.cards = 1 .. Len(deck.cards) /\ Len(deck.cards) \in Nat
      BY <2>2
    <3>5. Range(deck.cards) \subseteq Range(deck'.cards)
      BY <3>1, <3>3, <3>4 DEF Range
    <3>6. deck.undo \in Range(deck'.cards)
      BY <3>3, <3>4 DEF Range
    <3>7. Range(deck'.cards) \subseteq {deck.undo} \cup Range(deck.cards)
      BY <3>2, <3>3, <3>4 DEF Range
    <3> QED
      BY <3>5, <3>6, <3>7
  <2> QED
    BY <2>1, <2>3 DEF TopFlies
<1> QED
  BY <1>1, <1>2, <1>3, <1>4, <1>5, <1>6, <1>7, <1>8, <1>9, DeckTouched

LEMMA GoneStays == InboxTyped /\ [InboxNext]_inboxVars => gone \subseteq gone'
<1> SUFFICES ASSUME InboxTyped, [InboxNext]_inboxVars
             PROVE  gone \subseteq gone'
  OBVIOUS
<1>1. CASE UNCHANGED server
  BY <1>1 DEF server
<1>2. ASSUME NEW c \in Slots, Serve(c)
      PROVE  gone \subseteq gone'
  BY <1>2 DEF Serve
<1>3. ASSUME NEW t \in Conversations, Arrive(t)
      PROVE  gone \subseteq gone'
  BY <1>3 DEF Arrive
<1> QED
  BY <1>1, <1>2, <1>3, ServerTouched

\* A step that shows no other toolbar and leaves the flags it shows alone.
SameToolbar ==
    \/ view' = Closed
    \/ /\ view # Closed /\ view'.thread = view.thread /\ view'.opened = view.opened
       /\ \A f \in Flags : view'[f] = view[f]
\* A step that sends, serves and answers no request about a flag.
SameFlagging ==
    \A c \in Slots :
        calls'[c] = calls[c] \/ (calls[c].kind \notin Flagging /\ calls'[c].kind \notin Flagging)

LEMMA ToolbarKept ==
    ASSUME InboxTyped, [InboxNext]_inboxVars
    PROVE  \/ SameToolbar
           \/ (\E t \in Conversations : OpenThread(t)) \/ Reply
           \/ (\E c \in Slots, f \in Flags : Toggle(c, f)) \/ (\E c \in Slots : UndoMute(c))
           \/ (\E c \in Slots : ToggleDone(c))
<1>1. CASE UNCHANGED view
  BY <1>1 DEF SameToolbar
<1>2. ASSUME NEW c \in Slots, ArchiveDone(c)
      PROVE  SameToolbar
  BY <1>2, ToolbarShown DEF ArchiveDone, Done, Gives, Settled, StillOpen, SameToolbar, Opening,
     Flags, Settled
<1>3. ASSUME NEW c \in Slots, UndoArchiveDone(c)
      PROVE  SameToolbar
  BY <1>3, ToolbarShown DEF UndoArchiveDone, Done, Gives, Settled, StillOpen, SameToolbar,
     Opening, Flags, Settled
<1>4. ASSUME NEW c \in Slots, DeleteDone(c)
      PROVE  SameToolbar
  <2>1. \/ view' \in {view, Closed}
        \/ view # Closed /\ view' \in {[view EXCEPT !.lingers = TRUE], [Settled EXCEPT !.lingers = TRUE]}
    BY <1>4 DEF DeleteDone, GoTo, StillOpen
  <2> QED
    BY <2>1, ToolbarShown DEF SameToolbar, Settled, Opening, Flags
<1>5. ASSUME NEW s \in Scopes, Navigate(s)
      PROVE  SameToolbar
  BY <1>5, ToolbarShown DEF Navigate, Deed, GoTo, Abandon, Doomed, Listing, SameToolbar,
     Opening, Flags, Settled
<1>6. CASE Delete
  BY <1>6, ToolbarShown DEF Delete, CanAct, Deed, Wish, Mark, Crossing, SameToolbar, Opening,
     Flags, Settled
<1>7. CASE UndoDelete
  BY <1>7, ToolbarShown DEF UndoDelete, Deed, CanSettle, Settled, Wish, SameToolbar, Opening,
     Flags, Settled
<1>8. CASE CommitArchive
  BY <1>8, ToolbarShown DEF CommitArchive, CanSettle, Settled, GoTo, Listing, SameToolbar,
     Opening, Flags, Settled
<1>9. CASE CloseToast
  BY <1>9, ToolbarShown DEF CloseToast, Deed, Settled, Abandon, Doomed, SameToolbar, Opening,
     Flags, Settled
<1>10. CASE LateDismiss
  BY <1>10, ToolbarShown DEF LateDismiss, Settled, Abandon, Doomed, SameToolbar, Opening,
     Flags, Settled
<1>11. ASSUME NEW c \in Slots, Archive(c)
      PROVE  SameToolbar
  BY <1>11, ToolbarShown DEF Archive, CanAct, Deed, Place, Ask, Wish, Mark, Crossing,
     SameToolbar, Opening, Flags, Settled
<1>12. ASSUME NEW c \in Slots, UndoArchive(c)
      PROVE  SameToolbar
  BY <1>12, ToolbarShown DEF UndoArchive, Deed, CanSettle, Place, Ask, Wish, Mark, Crossing,
     SameToolbar, Opening, Flags, Settled
<1>13. ASSUME NEW c \in Slots, CommitDelete(c)
      PROVE  SameToolbar
  BY <1>13, ToolbarShown DEF CommitDelete, CanSettle, Ask, SameToolbar, Opening, Flags, Settled
<1> QED
  BY <1>1, <1>2, <1>3, <1>4, <1>5, <1>6, <1>7, <1>8, <1>9, <1>10, <1>11, <1>12, <1>13,
     ViewTouched


LEMMA BulkCalls ==
    ASSUME NEW S \in SUBSET Conversations, NEW kind, NEW wish, BulkAsk(S, kind, wish), InboxTyped
    PROVE  \A c \in Slots :
             \/ calls'[c] = calls[c]
             \/ calls[c] = Idle /\ \E u \in S : calls'[c] = Call(kind, u, "archived", TRUE)
<1> DEFINE X(slot, c) == CHOOSE t \in S : slot[t] = c
<1>1. PICK slot \in Injection(S, {c \in Slots : calls[c] = Idle}) :
        calls' = [c \in Slots |-> IF \E t \in S : slot[t] = c
                                   THEN Call(kind, X(slot, c), "archived", TRUE) ELSE calls[c]]
  BY DEF BulkAsk
<1>2. ASSUME NEW c \in Slots, \E t \in S : slot[t] = c
      PROVE  X(slot, c) \in S /\ calls[c] = Idle
  BY <1>1, <1>2 DEF Injection
<1> HIDE DEF X
<1> QED
  BY <1>1, <1>2

LEMMA FlaggingKept ==
    ASSUME InboxTyped, [InboxNext]_inboxVars
    PROVE  \/ SameFlagging
           \/ (\E c \in Slots : Serve(c)) \/ (\E c \in Slots : Forbid(c))
           \/ (\E c \in Slots, answer \in {"refused", "lost"} : Fail(c, answer))
           \/ (\E c \in Slots : ToggleDone(c)) \/ (\E c \in Slots : UndoMuteDone(c))
           \/ (\E c \in Slots : UndoMute(c)) \/ (\E c \in Slots, f \in Flags : Toggle(c, f))
<1>1. CASE UNCHANGED calls
  BY <1>1 DEF SameFlagging
<1>2. ASSUME NEW c \in Slots, SwipeDone(c)
      PROVE  SameFlagging
  BY <1>2 DEF SwipeDone, Answered, Done, SameFlagging, Flagging, Idle, Call, InboxTyped, CallsOK
<1>3. ASSUME NEW c \in Slots, UndoSwipeDone(c)
      PROVE  SameFlagging
  BY <1>3 DEF UndoSwipeDone, Done, SameFlagging, Flagging, Idle, Call, InboxTyped, CallsOK
<1>4. ASSUME NEW c \in Slots, ArchiveDone(c)
      PROVE  SameFlagging
  BY <1>4 DEF ArchiveDone, Done, Gives, Settled, StillOpen, SameFlagging, Flagging, Idle, Call,
     InboxTyped, CallsOK
<1>5. ASSUME NEW c \in Slots, UndoArchiveDone(c)
      PROVE  SameFlagging
  BY <1>5 DEF UndoArchiveDone, Done, Gives, Settled, StillOpen, SameFlagging, Flagging, Idle,
     Call, InboxTyped, CallsOK
<1>6. ASSUME NEW c \in Slots, DeleteDone(c)
      PROVE  SameFlagging
  BY <1>6 DEF DeleteDone, Done, Gives, Settled, GoTo, Abandon, Doomed, Listing, StillOpen,
     SameFlagging, Flagging, Idle, Call, InboxTyped, CallsOK
<1>7. ASSUME NEW c \in Slots, UndoSwipe(c)
      PROVE  SameFlagging
  <2>1. calls[c] = Idle /\ \E u, v : calls' = [calls EXCEPT ![c] = Call("swipeUndo", u, "archived", v)]
    BY <1>7 DEF UndoSwipe, Place, Ask
  <2> QED
    BY <2>1 DEF SameFlagging, Flagging, Idle, Call, InboxTyped, CallsOK
<1>8. ASSUME NEW c \in Slots, NEW t \in Conversations, Swipe(c, t)
      PROVE  SameFlagging
  <2>1. calls[c] = Idle /\ \E u, v : calls' = [calls EXCEPT ![c] = Call("swipe", u, "archived", v)]
    BY <1>8 DEF Swipe, Place, Ask
  <2> QED
    BY <2>1 DEF SameFlagging, Flagging, Idle, Call, InboxTyped, CallsOK
<1>9. ASSUME NEW S \in SUBSET Conversations, BulkArchive(S)
      PROVE  SameFlagging
  <2>1. \A d \in Slots :
          \/ calls'[d] = calls[d]
          \/ calls[d] = Idle /\ \E u \in S : calls'[d] = Call("bulk", u, "archived", TRUE)
    BY <1>9, BulkCalls DEF BulkArchive
  <2>2. ASSUME NEW d \in Slots, calls'[d] # calls[d]
        PROVE  calls[d].kind \notin Flagging /\ calls'[d].kind \notin Flagging
    <3>1. calls[d] = Idle /\ \E u \in S : calls'[d] = Call("bulk", u, "archived", TRUE)
      BY <2>1, <2>2
    <3>2. calls[d].kind = "none" /\ calls'[d].kind = "bulk"
      BY <3>1 DEF Idle, Call
    <3> QED
      BY <3>2 DEF Flagging
  <2> QED
    BY <2>2 DEF SameFlagging
<1>10. ASSUME NEW S \in SUBSET Conversations, BulkDelete(S)
      PROVE  SameFlagging
  <2>1. \A d \in Slots :
          \/ calls'[d] = calls[d]
          \/ calls[d] = Idle /\ \E u \in S : calls'[d] = Call("bulkDelete", u, "archived", TRUE)
    BY <1>10, BulkCalls DEF BulkDelete
  <2>2. ASSUME NEW d \in Slots, calls'[d] # calls[d]
        PROVE  calls[d].kind \notin Flagging /\ calls'[d].kind \notin Flagging
    <3>1. calls[d] = Idle /\ \E u \in S : calls'[d] = Call("bulkDelete", u, "archived", TRUE)
      BY <2>1, <2>2
    <3>2. calls[d].kind = "none" /\ calls'[d].kind = "bulkDelete"
      BY <3>1 DEF Idle, Call
    <3> QED
      BY <3>2 DEF Flagging
  <2> QED
    BY <2>2 DEF SameFlagging
<1>11. CASE BulkDone
  BY <1>11 DEF BulkDone, Under, Bulk, SameFlagging, Flagging, Idle, Call, InboxTyped, CallsOK
<1>12. ASSUME NEW c \in Slots, Archive(c)
      PROVE  SameFlagging
  <2>1. calls[c] = Idle /\ \E u, v : calls' = [calls EXCEPT ![c] = Call("toolbar", u, "archived", v)]
    BY <1>12 DEF Archive, Place, Ask
  <2> QED
    BY <2>1 DEF SameFlagging, Flagging, Idle, Call, InboxTyped, CallsOK
<1>13. ASSUME NEW c \in Slots, UndoArchive(c)
      PROVE  SameFlagging
  <2>1. calls[c] = Idle /\ \E u, v : calls' = [calls EXCEPT ![c] = Call("toolbarUndo", u, "archived", v)]
    BY <1>13 DEF UndoArchive, Place, Ask
  <2> QED
    BY <2>1 DEF SameFlagging, Flagging, Idle, Call, InboxTyped, CallsOK
<1>14. ASSUME NEW c \in Slots, CommitDelete(c)
      PROVE  SameFlagging
  <2>1. calls[c] = Idle /\ \E u, v : calls' = [calls EXCEPT ![c] = Call("delete", u, "archived", v)]
    BY <1>14 DEF CommitDelete, Ask
  <2> QED
    BY <2>1 DEF SameFlagging, Flagging, Idle, Call, InboxTyped, CallsOK
<1>15. ASSUME NEW c \in Slots, Land(c)
      PROVE  SameFlagging
  <2>1. CASE UNCHANGED calls
    BY <2>1 DEF SameFlagging
  <2>2. ASSUME NEW u, NEW v, calls[c] = Idle, calls' = [calls EXCEPT ![c] = Call("deck", u, "archived", v)]
        PROVE  SameFlagging
    BY <2>2 DEF SameFlagging, Flagging, Idle, Call, InboxTyped, CallsOK
  <2>3. ASSUME NEW u, NEW v, calls[c] = Idle,
               calls' = [calls EXCEPT ![c] = [Call("deck", u, "starred", v) EXCEPT !.from = 0]]
        PROVE  SameFlagging
    BY <2>3 DEF SameFlagging, Flagging, Idle, Call, InboxTyped, CallsOK
  <2> QED
    BY <1>15, <2>1, <2>2, <2>3 DEF Land, Place, Ask
<1>16. ASSUME NEW c \in Slots, UndoDeck(c)
      PROVE  SameFlagging
  <2>1. calls[c] = Idle /\ \E u, v : calls' = [calls EXCEPT ![c] = Call("deck", u, "archived", v)]
    BY <1>16 DEF UndoDeck, Place, Ask
  <2> QED
    BY <2>1 DEF SameFlagging, Flagging, Idle, Call, InboxTyped, CallsOK
<1> QED
  BY <1>1, <1>2, <1>3, <1>4, <1>5, <1>6, <1>7, <1>8, <1>9, <1>10, <1>11, <1>12, <1>13, <1>14,
     <1>15, <1>16, CallsTouched

LEMMA FlagsKept ==
    ASSUME InboxTyped, [InboxNext]_inboxVars, NEW u \in Conversations, NEW g \in Flags
    PROVE  flags'[u][g] = flags[u][g] \/ \E c \in Slots : Serve(c)
<1>1. CASE UNCHANGED server
  BY <1>1 DEF server
<1>2. ASSUME NEW t \in Conversations, Arrive(t)
      PROVE  flags'[u][g] = flags[u][g]
  BY <1>2 DEF Arrive, InboxTyped, ServerOK, Flags
<1> QED
  BY <1>1, <1>2, ServerTouched

\* A step that leaves a flag, its toolbar and its requests alone.
FlagUntouched(t, f) ==
    /\ flags'[t][f] = flags[t][f]
    /\ \/ view' = Closed \/ view'.thread # t
       \/ /\ view # Closed /\ view.thread = t
          /\ view'[f] = view[f] /\ view'.opened = view.opened
    /\ \A c \in Slots : calls'[c] = calls[c] \/ (c \notin FlagOf(t, f) /\ c \notin FlagOf(t, f)')

LEMMA FlagFrame ==
    ASSUME NEW t, NEW f, Shows(t, f), FlagUntouched(t, f)
    PROVE  Shows(t, f)'
<1>1. FlagOf(t, f)' = FlagOf(t, f) /\ \A c \in FlagOf(t, f) : calls'[c] = calls[c]
  BY DEF FlagUntouched, FlagOf, About, Under
<1> QED
  BY <1>1 DEF Shows, FlagUntouched

LEMMA ShowsStep ==
    ASSUME InboxTyped, Numbered, FlagFollows, [InboxNext]_inboxVars,
           NEW u \in Conversations, NEW g \in Flags,
           u \notin gone', odd'[u] \cap Unflagged = {}
    PROVE  Shows(u, g)'
<1>1. u \notin gone /\ odd[u] \cap Unflagged = {} /\ Shows(u, g)
  BY GoneStays, WishesStep DEF Remembers, FlagFollows
<1>2. ASSUME NEW c \in Slots, Serve(c)
      PROVE  Shows(u, g)'
  <2>1. /\ calls[c] # Idle /\ calls[c].step = "asked" /\ UNCHANGED view
        /\ calls' = [calls EXCEPT ![c] = IF calls[c].kind = "deck" THEN Idle ELSE [calls[c] EXCEPT !.step = "ok"]]
    BY <1>2 DEF Serve
  <2>2. calls[c] \in Calling
    BY <2>1, CallMade
  <2>3. CASE c \in FlagOf(u, g)
    <3>1. /\ calls[c].kind \in Flagging /\ calls[c].thread = u /\ calls[c].field = g
          /\ \A d \in FlagOf(u, g) : d = c
      BY <1>1, <2>3 DEF FlagOf, About, Under, Shows
    <3>2. calls' = [calls EXCEPT ![c] = [calls[c] EXCEPT !.step = "ok"]] /\ calls \in [Slots -> Calling \cup {Idle}]
      BY <2>1, <3>1 DEF Flagging, InboxTyped, CallsOK
    <3>3. /\ calls'[c].kind = calls[c].kind /\ calls'[c].thread = u /\ calls'[c].field = g
          /\ calls'[c].step = "ok" /\ calls'[c].value = calls[c].value /\ calls'[c].from = calls[c].from
          /\ \A d \in Slots : d # c => calls'[d] = calls[d]
      BY <2>2, <3>1, <3>2 DEF Calling
    <3>4. FlagOf(u, g)' = {c}
      BY <3>1, <3>3 DEF FlagOf, About, Under
    <3>5. flags'[u][g] = calls[c].value
      BY <1>2, <3>1 DEF Serve, Flagging, Deleting, InboxTyped, ServerOK, Flags
    <3> QED
      BY <1>1, <2>1, <2>3, <3>1, <3>3, <3>4, <3>5 DEF Shows, Flagging
  <2>4. CASE c \notin FlagOf(u, g)
    <3>1. \A d \in Slots : calls'[d] # calls[d] => d = c /\ c \notin FlagOf(u, g)'
      BY <2>1, <2>2, <2>4 DEF FlagOf, About, Under, InboxTyped, CallsOK, Calling, Flagging, Idle
    <3>2. flags'[u][g] = flags[u][g]
      <4>1. flags' # flags => flags' = [flags EXCEPT ![calls[c].thread][calls[c].field] = calls[c].value] /\ calls[c].kind \notin Deleting
        BY <1>2 DEF Serve
      <4>2. calls[c].thread # u \/ calls[c].field # g
        <5>1. CASE calls[c].kind \in Flagging
          BY <2>4, <5>1 DEF FlagOf, About, Under
        <5>2. CASE calls[c].kind = "deck"
          BY <1>1, <2>1, <5>2 DEF Numbered, FlagFollows, Flags, Unflagged
        <5>3. CASE calls[c].kind \in Placing \ {"deck"}
          BY <2>1, <5>3 DEF Numbered, Flags
        <5> QED
          BY <2>2, <5>1, <5>2, <5>3 DEF Calling, Kinds
      <4> QED
        BY <2>2, <4>1, <4>2 DEF Calling, InboxTyped, ServerOK, Flags
    <3> QED
      BY <1>1, <2>1, <2>4, <3>1, <3>2, FlagFrame DEF FlagUntouched
  <2> QED
    BY <2>3, <2>4
<1>3. ASSUME NEW c \in Slots, Forbid(c)
      PROVE  Shows(u, g)'
  <2>1. /\ calls[c] # Idle /\ calls[c].thread # u /\ UNCHANGED <<server, view>>
        /\ calls' = [calls EXCEPT ![c] = IF calls[c].kind = "deck" THEN Idle ELSE [calls[c] EXCEPT !.step = "refused"]]
    BY <1>1, <1>3 DEF Forbid
  <2>2. \A d \in Slots : calls'[d] # calls[d] => d = c /\ c \notin FlagOf(u, g) /\ c \notin FlagOf(u, g)'
    BY <2>1, CallMade DEF FlagOf, About, Under, InboxTyped, CallsOK, Calling, Flagging, Idle
  <2> QED
    BY <1>1, <2>1, <2>2, FlagFrame DEF FlagUntouched, server
<1>4. ASSUME NEW c \in Slots, NEW answer \in {"refused", "lost"}, Fail(c, answer)
      PROVE  Shows(u, g)'
  <2>1. /\ calls[c] # Idle /\ UNCHANGED <<server, view>>
        /\ calls[c].step = "asked" \/ (calls[c].step = "ok" /\ answer = "lost")
        /\ calls' = [calls EXCEPT ![c] = IF calls[c].kind = "deck" THEN Idle ELSE [calls[c] EXCEPT !.step = answer]]
        /\ odd' = [odd EXCEPT ![calls[c].thread] = @ \cup Damage(calls[c].kind, answer)]
    BY <1>4 DEF Fail, Mark
  <2>2. calls[c] \in Calling
    BY <2>1, CallMade
  <2>3. calls[c].thread = u => calls[c].kind # "flagUndo"
    <3>1. Damage("flagUndo", answer) = {"flag failed"}
      BY DEF Damage, TakenBack
    <3>2. odd = [t \in Conversations |-> odd[t]]
      BY DEF InboxTyped, WishesOK
    <3>3. calls[c].thread = u /\ calls[c].kind = "flagUndo" => odd'[u] = odd[u] \cup {"flag failed"}
      BY <2>1, <3>1, <3>2
    <3> QED
      BY <3>3 DEF Unflagged
  <2>4. CASE c \notin FlagOf(u, g)
    <3>1. \A d \in Slots : calls'[d] # calls[d] => d = c /\ c \notin FlagOf(u, g)'
      BY <2>1, <2>2, <2>4 DEF FlagOf, About, Under, InboxTyped, CallsOK, Calling, Flagging, Idle
    <3> QED
      BY <1>1, <2>1, <2>4, <3>1, FlagFrame DEF FlagUntouched, server
  <2>5. CASE c \in FlagOf(u, g)
    <3>1. /\ calls[c].kind = "flag" /\ calls[c].thread = u /\ calls[c].field = g
          /\ \A d \in FlagOf(u, g) : d = c
      BY <1>1, <2>3, <2>5 DEF FlagOf, About, Under, Shows, Flagging
    <3>2. calls' = [calls EXCEPT ![c] = [calls[c] EXCEPT !.step = answer]] /\ calls \in [Slots -> Calling \cup {Idle}]
      BY <2>1, <3>1 DEF InboxTyped, CallsOK
    <3>3. /\ calls'[c].kind = "flag" /\ calls'[c].thread = u /\ calls'[c].field = g
          /\ calls'[c].step = answer /\ calls'[c].value = calls[c].value /\ calls'[c].from = calls[c].from
          /\ \A d \in Slots : d # c => calls'[d] = calls[d]
      BY <2>2, <3>1, <3>2 DEF Calling
    <3>4. FlagOf(u, g)' = {c}
      BY <3>1, <3>3 DEF FlagOf, About, Under, Flagging
    <3> QED
      BY <1>1, <2>1, <2>5, <3>1, <3>3, <3>4 DEF Shows, server
  <2> QED
    BY <2>4, <2>5
<1>5. ASSUME NEW c \in Slots, ToggleDone(c)
      PROVE  Shows(u, g)'
  <2>1. /\ calls[c].kind = "flag" /\ calls[c].step # "asked" /\ UNCHANGED server
        /\ calls' = [calls EXCEPT ![c] = Idle]
        /\ view' = view \/ view' = Closed \/ (calls[c].step = "refused" /\ StillOpen(c)
                             /\ view' = [view EXCEPT ![calls[c].field] = ~calls[c].value])
        /\ calls[c].step = "refused" /\ StillOpen(c) => view' = [view EXCEPT ![calls[c].field] = ~calls[c].value]
        /\ calls[c].step = "lost" /\ StillOpen(c) => view' = Closed
    BY <1>5 DEF ToggleDone, Done, Gives
  <2>2. calls[c] \in Calling /\ calls[c].field \in Flags /\ (StillOpen(c) => calls[c].thread = view.thread)
    BY <2>1, CallMade DEF Idle, Numbered, Flagging
  <2>3. \A d \in Slots : calls'[d] # calls[d] => d = c
    BY <2>1 DEF InboxTyped, CallsOK
  <2>4. calls'[c] = Idle /\ c \notin FlagOf(u, g)'
    BY <2>1 DEF FlagOf, About, Under, InboxTyped, CallsOK, Idle, Flagging
  <2>5. CASE c \notin FlagOf(u, g)
    <3>1. calls[c].thread # u \/ calls[c].field # g
      BY <2>1, <2>5 DEF FlagOf, About, Under, Flagging
    <3>2. \/ view' = Closed \/ view'.thread # u
          \/ /\ view # Closed /\ view.thread = u
             /\ view'[g] = view[g] /\ view'.opened = view.opened
      BY <2>1, <2>2, <3>1, ToolbarShown DEF StillOpen, Opening, Flags
    <3> QED
      BY <1>1, <2>1, <2>3, <2>4, <2>5, <3>2, FlagFrame DEF FlagUntouched, server
  <2>6. CASE c \in FlagOf(u, g)
    <3>1. /\ calls[c].thread = u /\ calls[c].field = g /\ \A d \in FlagOf(u, g) : d = c
      BY <1>1, <2>6 DEF FlagOf, About, Under, Shows
    <3>2. FlagOf(u, g)' = {}
      BY <2>3, <2>4, <3>1 DEF FlagOf, About, Under
    <3>3. view' # Closed => view # Closed /\ view'.thread = view.thread
      BY <2>1, <2>2, ToolbarShown DEF StillOpen, Opening, Flags
    <3>4. ASSUME view' # Closed, view'.thread = u
          PROVE  view'[g] = flags[u][g]
      <4>1. view # Closed /\ view.thread = u /\ StillOpen(c) /\ view[g] = calls[c].value
        BY <1>1, <2>6, <3>3, <3>4 DEF Shows, StillOpen
      <4>2. CASE calls[c].step = "ok"
        BY <1>1, <2>1, <2>6, <3>4, <4>1, <4>2 DEF Shows
      <4>3. CASE calls[c].step = "refused"
        <5>1. view'[g] = ~calls[c].value
          BY <2>1, <2>2, <3>1, <4>1, <4>3, ToolbarShown DEF Opening, Flags
        <5>2. flags[u][g] = ~calls[c].value
          BY <1>1, <2>1, <2>6, <4>1, <4>3 DEF Shows
        <5> QED
          BY <5>1, <5>2
      <4> QED
        BY <2>1, <2>2, <3>4, <4>1, <4>2, <4>3 DEF Calling
    <3> QED
      BY <2>1, <3>2, <3>4 DEF Shows, server
  <2> QED
    BY <2>5, <2>6
<1>6. ASSUME NEW c \in Slots, UndoMuteDone(c)
      PROVE  Shows(u, g)'
  <2>1. /\ calls[c].kind = "flagUndo" /\ calls[c].step # "asked" /\ UNCHANGED <<server, view>>
        /\ calls' = [calls EXCEPT ![c] = Idle]
    BY <1>6 DEF UndoMuteDone, Done
  <2>2. calls[c] \in Calling
    BY <2>1, CallMade DEF Idle
  <2>3. calls'[c] = Idle /\ c \notin FlagOf(u, g)' /\ \A d \in Slots : calls'[d] # calls[d] => d = c
    BY <2>1 DEF FlagOf, About, Under, InboxTyped, CallsOK, Idle, Flagging
  <2>4. CASE c \notin FlagOf(u, g)
    BY <1>1, <2>1, <2>3, <2>4, FlagFrame DEF FlagUntouched, server
  <2>5. CASE c \in FlagOf(u, g)
    <3>1. /\ calls[c].thread = u /\ calls[c].field = g /\ \A d \in FlagOf(u, g) : d = c
      BY <1>1, <2>5 DEF FlagOf, About, Under, Shows
    <3>2. FlagOf(u, g)' = {}
      BY <2>3, <3>1 DEF FlagOf, About, Under
    <3>3. view # Closed /\ view.thread = u => view[g] = flags[u][g]
      BY <1>1, <2>1, <2>5 DEF Shows
    <3> QED
      BY <2>1, <3>2, <3>3 DEF Shows, server
  <2> QED
    BY <2>4, <2>5
<1>7. ASSUME NEW c \in Slots, UndoMute(c)
      PROVE  Shows(u, g)'
  <2> DEFINE t == unmute[1]
             v == ~unmute[2]
  <2>1. /\ calls[c] = Idle /\ calls' = [calls EXCEPT ![c] = Call("flagUndo", t, "muted", v)]
        /\ UNCHANGED server
        /\ view' = IF view # Closed /\ view.thread = t THEN [view EXCEPT !.muted = v] ELSE view
        /\ odd' = [odd EXCEPT ![t] = @ \cup (IF FlagOf(t, "muted") = {} THEN {} ELSE {"flag crossed"})]
    BY <1>7 DEF UndoMute, Ask, MarkFlag, Mark
  <2>2. t \in Conversations
    BY <1>7, ToastOK DEF UndoMute
  <2> HIDE DEF t, v
  <2>3. /\ calls'[c].kind = "flagUndo" /\ calls'[c].thread = t /\ calls'[c].field = "muted"
        /\ calls'[c].value = v /\ calls'[c].step = "asked" /\ calls'[c].from = Opened
        /\ \A d \in Slots : d # c => calls'[d] = calls[d]
    BY <2>1 DEF Call, InboxTyped, CallsOK
  <2>4. view' # Closed => /\ view # Closed /\ view'.thread = view.thread /\ view'.opened = view.opened
                          /\ view.thread = t => view'.muted = v
                          /\ view.thread # t \/ g # "muted" => view'[g] = view[g]
    BY <2>1, ToolbarShown DEF Opening, Flags
  <2>5. c \notin FlagOf(u, g)
    BY <2>1, IdleKind DEF FlagOf, About, Under, Flagging
  <2>6. CASE t # u \/ g # "muted"
    <3>1. c \notin FlagOf(u, g)'
      BY <2>3, <2>6 DEF FlagOf, About, Under
    <3> QED
      BY <1>1, <2>1, <2>3, <2>4, <2>5, <2>6, <3>1, FlagFrame DEF FlagUntouched, server
  <2>7. CASE t = u /\ g = "muted"
    <3>1. FlagOf(u, g) = {}
      BY <2>1, <2>2, <2>7 DEF InboxTyped, WishesOK, Unflagged
    <3>2. FlagOf(u, g)' = {c}
      BY <2>3, <2>7, <3>1 DEF FlagOf, About, Under, Flagging
    <3>3. view' # Closed /\ view'.thread = u => view'.opened = calls'[c].from /\ view'[g] = calls'[c].value
      BY <2>3, <2>4, <2>7 DEF Opened
    <3> QED
      BY <2>3, <3>2, <3>3 DEF Shows
  <2> QED
    BY <2>6, <2>7
<1>8. ASSUME NEW c \in Slots, NEW f \in Flags, Toggle(c, f)
      PROVE  Shows(u, g)'
  <2> DEFINE t == view.thread
             v == ~view[f]
  <2>1. /\ calls[c] = Idle /\ calls' = [calls EXCEPT ![c] = Call("flag", t, f, v)]
        /\ UNCHANGED server /\ view # Closed /\ view' = [view EXCEPT ![f] = ~view[f]]
        /\ odd' = [odd EXCEPT ![t] = @ \cup (IF FlagOf(t, f) = {} THEN {} ELSE {"flag crossed"})]
    BY <1>8 DEF Toggle, Ask, MarkFlag, Mark, CanAct
  <2>2. t \in Conversations
    BY <2>1, ToolbarShown
  <2>4. /\ view'.thread = t /\ view'.opened = view.opened /\ view'[f] = v
        /\ f # g => view'[g] = view[g]
    BY <2>1, ToolbarShown DEF Opening, Flags
  <2>a. t = view.thread /\ v = ~view[f]
    OBVIOUS
  <2> HIDE DEF t, v
  <2>3. /\ calls'[c].kind = "flag" /\ calls'[c].thread = t /\ calls'[c].field = f
        /\ calls'[c].value = v /\ calls'[c].step = "asked" /\ calls'[c].from = Opened
        /\ \A d \in Slots : d # c => calls'[d] = calls[d]
    BY <2>1 DEF Call, InboxTyped, CallsOK
  <2>5. c \notin FlagOf(u, g)
    BY <2>1, IdleKind DEF FlagOf, About, Under, Flagging
  <2>6. CASE t # u \/ f # g
    <3>1. c \notin FlagOf(u, g)'
      BY <2>3, <2>6 DEF FlagOf, About, Under
    <3>2. \/ view'.thread # u
          \/ view # Closed /\ view.thread = u /\ view'[g] = view[g] /\ view'.opened = view.opened
      BY <2>1, <2>a, <2>4, <2>6
    <3>3. flags'[u][g] = flags[u][g]
      BY <2>1 DEF server
    <3> QED
      BY <1>1, <2>3, <2>5, <3>1, <3>2, <3>3, FlagFrame DEF FlagUntouched
  <2>7. CASE t = u /\ f = g
    <3>1. FlagOf(u, g) = {}
      BY <2>1, <2>2, <2>7 DEF InboxTyped, WishesOK, Unflagged
    <3>2. FlagOf(u, g)' = {c}
      BY <2>3, <2>7, <3>1 DEF FlagOf, About, Under, Flagging
    <3>3. view'.opened = calls'[c].from /\ view'[g] = calls'[c].value
      BY <2>1, <2>3, <2>4, <2>7 DEF Opened
    <3>4. view[g] = flags[u][g]
      BY <1>1, <2>1, <2>a, <2>7, <3>1 DEF Shows
    <3>5. flags'[u][g] = ~calls'[c].value
      <4>1. v = ~flags[u][g]
        BY <2>a, <2>7, <3>4
      <4>2. flags[u][g] \in BOOLEAN
        BY DEF InboxTyped, ServerOK, Flags
      <4>3. flags' = flags
        BY <2>1 DEF server
      <4> QED
        BY <2>3, <4>1, <4>2, <4>3
    <3> QED
      BY <2>3, <3>2, <3>3, <3>5 DEF Shows
  <2> QED
    BY <2>6, <2>7
<1>9. ASSUME NEW t \in Conversations, view' = Closed \/ view' = Toolbar(t), UNCHANGED <<server, calls>>,
             view' # Closed => Late(t) \subseteq odd'[t]
      PROVE  Shows(u, g)'
  <2>1. FlagOf(u, g)' = FlagOf(u, g)
    BY <1>9 DEF FlagOf, About, Under
  <2>2. CASE view' = Closed \/ t # u
    <3>1. view' = Closed \/ view'.thread # u
      BY <1>9, <2>2 DEF Toolbar
    <3> QED
      BY <1>1, <1>9, <2>1, <3>1 DEF Shows, server
  <2>3. CASE view' # Closed /\ t = u
    <3>1. FlagOf(u, g) = {}
      BY <1>9, <2>3 DEF Late, Unflagged, FlagOf
    <3>2. view'[g] = flags[u][g]
      BY <1>9, <2>3 DEF Toolbar, Flags
    <3> QED
      BY <1>9, <2>1, <3>1, <3>2 DEF Shows, server
  <2> QED
    BY <2>2, <2>3
<1>10. ASSUME NEW t \in Conversations, OpenThread(t)
       PROVE  Shows(u, g)'
  <2>1. Late(t) \subseteq odd'[t]
    BY <1>10 DEF OpenThread, Mark, InboxTyped, WishesOK
  <2> QED
    BY <1>9, <1>10, <2>1 DEF OpenThread
<1>11. ASSUME Reply
       PROVE  Shows(u, g)'
  <2>1. Head(deck.cards) \in Conversations
    BY <1>11, CardOK DEF Reply, OnTop
  <2>2. Late(Head(deck.cards)) \subseteq odd'[Head(deck.cards)]
    BY <1>11, <2>1 DEF Reply
  <2>3. view' = Closed \/ view' = Toolbar(Head(deck.cards))
    BY <1>11 DEF Reply, GoTo
  <2> QED
    BY <1>9, <1>11, <2>1, <2>2, <2>3 DEF Reply
<1>12. CASE SameToolbar /\ SameFlagging /\ flags'[u][g] = flags[u][g]
  <2>1. \A c \in Slots : calls'[c] = calls[c] \/ (c \notin FlagOf(u, g) /\ c \notin FlagOf(u, g)')
    BY <1>12 DEF SameFlagging, FlagOf, About, Under
  <2>2. \/ view' = Closed \/ view'.thread # u
        \/ /\ view # Closed /\ view.thread = u
           /\ view'[g] = view[g] /\ view'.opened = view.opened
    BY <1>12 DEF SameToolbar
  <2> QED
    BY <1>1, <1>12, <2>1, <2>2, FlagFrame DEF FlagUntouched
<1> QED
  BY <1>2, <1>3, <1>4, <1>5, <1>6, <1>7, <1>8, <1>10, <1>11, <1>12, ToolbarKept, FlaggingKept,
     FlagsKept

LEMMA StarsAsked ==
    ASSUME InboxTyped, Numbered, [InboxNext]_inboxVars, NEW d \in Slots, calls'[d] # calls[d],
           calls'[d].kind = "deck", calls'[d].field = "starred"
    PROVE  "flag elsewhere" \in odd'[calls'[d].thread]
<1>1. ASSUME NEW c \in Slots, Serve(c)
      PROVE  FALSE
  <2>1. calls[c] # Idle /\ \E s : calls' = [calls EXCEPT ![c] = IF calls[c].kind = "deck" THEN Idle ELSE [calls[c] EXCEPT !.step = s]]
    BY <1>1 DEF Serve
  <2>2. calls[c] \in Calling
    BY <2>1, CallMade
  <2> QED
    BY <2>1, <2>2 DEF InboxTyped, CallsOK, Calling, Idle
<1>2. ASSUME NEW c \in Slots, Forbid(c)
      PROVE  FALSE
  <2>1. calls[c] # Idle /\ \E s : calls' = [calls EXCEPT ![c] = IF calls[c].kind = "deck" THEN Idle ELSE [calls[c] EXCEPT !.step = s]]
    BY <1>2 DEF Forbid
  <2>2. calls[c] \in Calling
    BY <2>1, CallMade
  <2> QED
    BY <2>1, <2>2 DEF InboxTyped, CallsOK, Calling, Idle
<1>3. ASSUME NEW c \in Slots, NEW answer \in {"refused", "lost"}, Fail(c, answer)
      PROVE  FALSE
  <2>1. calls[c] # Idle /\ \E s : calls' = [calls EXCEPT ![c] = IF calls[c].kind = "deck" THEN Idle ELSE [calls[c] EXCEPT !.step = s]]
    BY <1>3 DEF Fail
  <2>2. calls[c] \in Calling
    BY <2>1, CallMade
  <2> QED
    BY <2>1, <2>2 DEF InboxTyped, CallsOK, Calling, Idle
<1>4. ASSUME NEW c \in Slots, SwipeDone(c)
      PROVE  FALSE
  BY <1>4 DEF SwipeDone, Answered, Done, InboxTyped, CallsOK, Idle
<1>5. ASSUME NEW c \in Slots, UndoSwipeDone(c)
      PROVE  FALSE
  BY <1>5 DEF UndoSwipeDone, Done, InboxTyped, CallsOK, Idle
<1>6. ASSUME NEW c \in Slots, ArchiveDone(c)
      PROVE  FALSE
  BY <1>6 DEF ArchiveDone, Done, Gives, Settled, StillOpen, InboxTyped, CallsOK, Idle
<1>7. ASSUME NEW c \in Slots, UndoArchiveDone(c)
      PROVE  FALSE
  BY <1>7 DEF UndoArchiveDone, Done, Gives, Settled, StillOpen, InboxTyped, CallsOK, Idle
<1>8. ASSUME NEW c \in Slots, DeleteDone(c)
      PROVE  FALSE
  BY <1>8 DEF DeleteDone, Done, Gives, Settled, GoTo, Abandon, Doomed, Listing, StillOpen,
     InboxTyped, CallsOK, Idle
<1>9. ASSUME NEW c \in Slots, ToggleDone(c)
      PROVE  FALSE
  BY <1>9 DEF ToggleDone, Done, Gives, Abandon, Doomed, StillOpen, InboxTyped, CallsOK, Idle
<1>10. ASSUME NEW c \in Slots, UndoMuteDone(c)
      PROVE  FALSE
  BY <1>10 DEF UndoMuteDone, Done, InboxTyped, CallsOK, Idle
<1>11. ASSUME NEW c \in Slots, UndoSwipe(c)
      PROVE  FALSE
  <2>1. calls[c] = Idle /\ \E u, f0, v : f0 \in Fields /\ calls' = [calls EXCEPT ![c] = Call("swipeUndo", u, f0, v)]
             /\ ("swipeUndo" = "deck" => f0 = "archived")
    BY <1>11 DEF UndoSwipe, Place, Ask, Fields, Flags
  <2> QED
    BY <2>1 DEF InboxTyped, CallsOK, Call
<1>12. ASSUME NEW c \in Slots, NEW t \in Conversations, Swipe(c, t)
      PROVE  FALSE
  <2>1. calls[c] = Idle /\ \E u, f0, v : f0 \in Fields /\ calls' = [calls EXCEPT ![c] = Call("swipe", u, f0, v)]
             /\ ("swipe" = "deck" => f0 = "archived")
    BY <1>12 DEF Swipe, Place, Ask, Fields, Flags
  <2> QED
    BY <2>1 DEF InboxTyped, CallsOK, Call
<1>13. ASSUME NEW S \in SUBSET Conversations, BulkArchive(S)
      PROVE  FALSE
  <2>1. \E u \in S : calls'[d] = Call("bulk", u, "archived", TRUE)
    BY <1>13, BulkCalls DEF BulkArchive
  <2> QED
    BY <2>1 DEF Call
<1>14. ASSUME NEW S \in SUBSET Conversations, BulkDelete(S)
      PROVE  FALSE
  <2>1. \E u \in S : calls'[d] = Call("bulkDelete", u, "archived", TRUE)
    BY <1>14, BulkCalls DEF BulkDelete
  <2> QED
    BY <2>1 DEF Call
<1>15. ASSUME BulkDone
      PROVE  FALSE
  BY <1>15 DEF BulkDone, Under, Bulk, InboxTyped, CallsOK, Idle
<1>16. ASSUME NEW c \in Slots, Archive(c)
      PROVE  FALSE
  <2>1. calls[c] = Idle /\ \E u, f0, v : f0 \in Fields /\ calls' = [calls EXCEPT ![c] = Call("toolbar", u, f0, v)]
             /\ ("toolbar" = "deck" => f0 = "archived")
    BY <1>16 DEF Archive, Place, Ask, Fields, Flags
  <2> QED
    BY <2>1 DEF InboxTyped, CallsOK, Call
<1>17. ASSUME NEW c \in Slots, UndoArchive(c)
      PROVE  FALSE
  <2>1. calls[c] = Idle /\ \E u, f0, v : f0 \in Fields /\ calls' = [calls EXCEPT ![c] = Call("toolbarUndo", u, f0, v)]
             /\ ("toolbarUndo" = "deck" => f0 = "archived")
    BY <1>17 DEF UndoArchive, Place, Ask, Fields, Flags
  <2> QED
    BY <2>1 DEF InboxTyped, CallsOK, Call
<1>18. ASSUME NEW c \in Slots, CommitDelete(c)
      PROVE  FALSE
  <2>1. calls[c] = Idle /\ \E u, f0, v : f0 \in Fields /\ calls' = [calls EXCEPT ![c] = Call("delete", u, f0, v)]
             /\ ("delete" = "deck" => f0 = "archived")
    BY <1>18 DEF CommitDelete, Place, Ask, Fields, Flags
  <2> QED
    BY <2>1 DEF InboxTyped, CallsOK, Call
<1>19. ASSUME NEW c \in Slots, UndoMute(c)
      PROVE  FALSE
  <2>1. calls[c] = Idle /\ \E u, f0, v : f0 \in Fields /\ calls' = [calls EXCEPT ![c] = Call("flagUndo", u, f0, v)]
             /\ ("flagUndo" = "deck" => f0 = "archived")
    BY <1>19 DEF UndoMute, Place, Ask, Fields, Flags
  <2> QED
    BY <2>1 DEF InboxTyped, CallsOK, Call
<1>20. ASSUME NEW c \in Slots, NEW f \in Flags, Toggle(c, f)
      PROVE  FALSE
  <2>1. calls[c] = Idle /\ \E u, f0, v : f0 \in Fields /\ calls' = [calls EXCEPT ![c] = Call("flag", u, f0, v)]
             /\ ("flag" = "deck" => f0 = "archived")
    BY <1>20 DEF Toggle, Place, Ask, Fields, Flags
  <2> QED
    BY <2>1 DEF InboxTyped, CallsOK, Call
<1>21. ASSUME NEW c \in Slots, Land(c)
      PROVE  "flag elsewhere" \in odd'[calls'[d].thread]
  <2> DEFINE t == Head(deck.flying)[1]
  <2>1. t \in Conversations
    BY <1>21, CardOK DEF Land
  <2>2. \/ calls' = [calls EXCEPT ![c] = Call("deck", t, "archived", TRUE)]
        \/ /\ calls' = [calls EXCEPT ![c] = [Call("deck", t, "starred", t \notin deck.starred) EXCEPT !.from = 0]]
           /\ odd' = [odd EXCEPT ![t] = @ \cup {"flag elsewhere"}]
        \/ UNCHANGED calls
    BY <1>21 DEF Land, Place, Ask, Mark
  <2> HIDE DEF t
  <2>3. CASE calls' = [calls EXCEPT ![c] = Call("deck", t, "archived", TRUE)]
    BY <2>3 DEF Call, InboxTyped, CallsOK
  <2>4. CASE /\ calls' = [calls EXCEPT ![c] = [Call("deck", t, "starred", t \notin deck.starred) EXCEPT !.from = 0]]
             /\ odd' = [odd EXCEPT ![t] = @ \cup {"flag elsewhere"}]
    <3>1. calls'[d].thread = t
      BY <2>4 DEF Call, InboxTyped, CallsOK
    <3> QED
      BY <2>1, <2>4, <3>1 DEF InboxTyped, WishesOK
  <2> QED
    BY <2>2, <2>3, <2>4
<1>22. ASSUME NEW c \in Slots, UndoDeck(c)
      PROVE  FALSE
  <2>1. calls[c] = Idle /\ \E u, f0, v : f0 \in Fields /\ calls' = [calls EXCEPT ![c] = Call("deck", u, f0, v)]
             /\ ("deck" = "deck" => f0 = "archived")
    BY <1>22 DEF UndoDeck, Place, Ask, Fields, Flags
  <2> QED
    BY <2>1 DEF InboxTyped, CallsOK, Call
<1> QED
  BY <1>1, <1>2, <1>3, <1>4, <1>5, <1>6, <1>7, <1>8, <1>9, <1>10, <1>11, <1>12, <1>13, <1>14,
     <1>15, <1>16, <1>17, <1>18, <1>19, <1>20, <1>21, <1>22, CallsTouched

LEMMA FlagStep == InboxTyped /\ Numbered /\ FlagFollows /\ [InboxNext]_inboxVars => FlagFollows'
<1> SUFFICES ASSUME InboxTyped, Numbered, FlagFollows, [InboxNext]_inboxVars
             PROVE  FlagFollows'
  OBVIOUS
<1>1. ASSUME NEW t \in Conversations, NEW f \in Flags, t \notin gone', odd'[t] \cap Unflagged = {}
      PROVE  Shows(t, f)'
  BY <1>1, ShowsStep
<1>2. ASSUME NEW c \in Slots, calls'[c].kind = "deck", calls'[c].field = "starred"
      PROVE  "flag elsewhere" \in odd'[calls'[c].thread]
  <2>1. CASE calls'[c] = calls[c]
    <3>1. calls[c].thread \in Conversations
      BY <1>2, <2>1, CallMade DEF Idle
    <3> QED
      BY <1>2, <2>1, <3>1, WishesStep DEF Remembers, FlagFollows
  <2>2. CASE calls'[c] # calls[c]
    BY <1>2, <2>2, StarsAsked
  <2> QED
    BY <2>1, <2>2
<1> QED
  BY <1>1, <1>2 DEF FlagFollows

\* A step that leaves a thread, its requests and its toast alone.
FilingUntouched(t) ==
    /\ flags'[t].archived = flags[t].archived
    /\ t \in gone' <=> t \in gone
    /\ want'[t] = want[t] /\ odd[t] \subseteq odd'[t]
    /\ t \in Doomed' <=> t \in Doomed
    /\ t \in dismissed' => t \in dismissed
    /\ \A c \in Slots : calls'[c] = calls[c] \/ (c \notin Filing(t) /\ c \notin Filing(t)')

LEMMA FilingFrame ==
    ASSUME NEW t, Follows(t), FilingUntouched(t)
    PROVE  Follows(t)'
<1>1. Filing(t)' = Filing(t) /\ \A c \in Filing(t) : calls'[c] = calls[c]
  BY DEF FilingUntouched, Filing, About, Under
<1>2. (CameTrue(t)' <=> CameTrue(t)) /\ (Kept(t)' <=> Kept(t))
  BY DEF FilingUntouched, CameTrue, Kept
<1>3. \A v : Wished(t, v)' = Wished(t, v)
  BY DEF FilingUntouched, Wished
<1>4. "refused" \in odd[t] => "refused" \in odd'[t]
  BY DEF FilingUntouched
<1>5. /\ \A c, d \in Filing(t)' : c = d
      /\ t \in Doomed' => Filing(t)' = {}
      /\ t \in gone' => want'[t] = "deleted"
      /\ t \notin gone' /\ t \in Doomed' => want'[t] = "deleted"
  BY <1>1 DEF Follows, FilingUntouched
<1>6. t \notin gone' => \A c \in Filing(t)' :
        /\ calls'[c].step = "asked" =>
             IF calls'[c].kind \in Deleting THEN want'[t] = "deleted"
                                            ELSE Wished(t, calls[c].value)'
        /\ calls'[c].step = "ok" => Kept(t)'
        /\ calls'[c].step = "refused" => calls'[c].kind \in TakenBack /\ "refused" \in odd'[t]
        /\ calls'[c].step # "lost"
  <2> SUFFICES ASSUME t \notin gone', NEW c \in Filing(t)'
               PROVE  /\ calls'[c].step = "asked" =>
                           IF calls'[c].kind \in Deleting THEN want'[t] = "deleted"
                                                          ELSE Wished(t, calls[c].value)'
                      /\ calls'[c].step = "ok" => Kept(t)'
                      /\ calls'[c].step = "refused" => calls'[c].kind \in TakenBack /\ "refused" \in odd'[t]
                      /\ calls'[c].step # "lost"
    OBVIOUS
  <2>1. c \in Filing(t) /\ calls'[c] = calls[c] /\ t \notin gone /\ want'[t] = want[t]
    BY <1>1 DEF FilingUntouched
  <2>2. Wished(t, calls[c].value)' <=> Wished(t, calls[c].value)
    BY <2>1 DEF Wished
  <2> QED
    BY <1>2, <1>4, <2>1, <2>2 DEF Follows
<1>7. t \notin Doomed' /\ Filing(t)' = {} =>
        /\ t \in dismissed' => Kept(t)'
        /\ CameTrue(t)' \/ "refused" \in odd'[t]
  BY <1>1, <1>2, <1>4 DEF Follows, FilingUntouched
<1> QED
  BY <1>5, <1>6, <1>7 DEF Follows

\* A request for a thread that nothing is under way for.
LEMMA FilingAsked ==
    ASSUME NEW t, NEW c \in Slots, Follows(t), Filing(t) = {}, t \notin Doomed',
           \A d \in Slots : d # c => calls'[d] = calls[d] \/ (d \notin Filing(t) /\ d \notin Filing(t)'),
           calls'[c].step = "asked", UNCHANGED server,
           t \in gone => want'[t] = want[t],
           t \notin gone => IF calls'[c].kind \in Deleting THEN want'[t] = "deleted"
                                                          ELSE Wished(t, calls[c].value)',
           c \in Filing(t)'
    PROVE  Follows(t)'
<1>1. Filing(t)' = {c}
  BY DEF Filing, About, Under
<1> QED
  BY <1>1 DEF Follows, server

\* The answer to the only request for a thread.
LEMMA FilingAnswered ==
    ASSUME InboxTyped, NEW t, NEW c \in Filing(t), Follows(t), t \notin Doomed',
           \A d \in Filing(t)' : d # c /\ calls'[d] = calls[d],
           UNCHANGED <<server, want>>, odd[t] \subseteq odd'[t], calls[c].step # "asked",
           t \notin gone /\ calls[c].step = "refused" /\ calls[c].kind \in TakenBack => t \notin dismissed'
    PROVE  Follows(t)'
<1>1. Filing(t)' = {}
  <2> SUFFICES ASSUME NEW d \in Filing(t)'
               PROVE  FALSE
    OBVIOUS
  <2>1. d \in Slots /\ d # c /\ calls'[d] = calls[d]
    BY DEF Filing, About, Under
  <2>2. d \in Filing(t)
    BY <2>1 DEF Filing, About, Under
  <2> QED
    BY <2>1, <2>2 DEF Follows
<1>2. (CameTrue(t)' <=> CameTrue(t)) /\ (Kept(t)' <=> Kept(t))
  BY DEF server, CameTrue, Kept
<1>3. CASE t \in gone
  <2>1. Kept(t) /\ CameTrue(t)
    BY <1>3 DEF Follows, CameTrue, Kept
  <2> QED
    BY <1>1, <1>2, <1>3, <2>1 DEF Follows, server
<1>4. CASE t \notin gone
  <2>1. c \in Slots /\ calls[c] # Idle
    BY DEF Filing, About, Under, Placing, Idle
  <2>2. calls[c].step \in {"ok", "refused"}
    BY <1>4, <2>1, CallMade DEF Follows, Calling
  <2>3. CASE calls[c].step = "ok"
    <3>1. Kept(t) /\ CameTrue(t)
      BY <1>4, <2>3 DEF Follows, Kept
    <3> QED
      BY <1>1, <1>2, <1>4, <3>1 DEF Follows, server
  <2>4. CASE calls[c].step = "refused"
    <3>1. "refused" \in odd'[t] /\ t \notin dismissed'
      BY <1>4, <2>4 DEF Follows
    <3> QED
      BY <1>1, <1>4, <3>1 DEF Follows, server
  <2> QED
    BY <2>2, <2>3, <2>4
<1> QED
  BY <1>3, <1>4

LEMMA DoomedIs ==
    ASSUME NEW u
    PROVE  /\ u \in Doomed <=>
                view # Closed /\ view.pending = "delete" /\ view.counting /\ view.thread = u
           /\ u \in Doomed' <=>
                view' # Closed /\ view'.pending = "delete" /\ view'.counting /\ view'.thread = u
  BY DEF Doomed

LEMMA PlaceKeeps ==
    ASSUME InboxTyped, NEW u \in Conversations, Follows(u), NEW c \in Slots, NEW kind \in Placing,
           NEW t \in Conversations, NEW v \in BOOLEAN, NEW wish,
           calls[c] = Idle, calls' = [calls EXCEPT ![c] = Call(kind, t, "archived", v)],
           UNCHANGED server, want' = IF t \in gone THEN want ELSE [want EXCEPT ![t] = wish],
           u = t => IF kind \in Deleting THEN wish = "deleted"
                    ELSE (v => wish \in {"out", "still out"}) /\ (~v => wish = "in"),
           dismissed' \subseteq dismissed \cup {t}, odd[u] \subseteq odd'[u],
           u # t => (u \in Doomed' <=> u \in Doomed),
           u = t => Crossing(t) = {} /\ u \notin Doomed'
    PROVE  Follows(u)'
<1>1. /\ calls'[c].kind = kind /\ calls'[c].thread = t /\ calls'[c].field = "archived"
      /\ calls'[c].value = v /\ calls'[c].step = "asked"
      /\ \A d \in Slots : d # c => calls'[d] = calls[d]
  BY DEF Call, InboxTyped, CallsOK
<1>2. c \notin Filing(u)
  BY IdleKind DEF Filing, About, Under, Placing
<1>3. want = [a \in Conversations |-> want[a]]
  BY DEF InboxTyped, WishesOK
<1>4. CASE u # t
  <2>1. c \notin Filing(u)'
    BY <1>1, <1>4 DEF Filing, About, Under
  <2>2. want'[u] = want[u]
    BY <1>3, <1>4
  <2> QED
    BY <1>1, <1>2, <1>4, <2>1, <2>2, FilingFrame DEF FilingUntouched, server
<1>5. CASE u = t
  <2>1. Filing(u) = {}
    BY <1>5 DEF Crossing, Filing
  <2>2. c \in Filing(u)'
    BY <1>1, <1>5 DEF Filing, About, Under
  <2>3. t \in gone => want'[u] = want[u]
    OBVIOUS
  <2>4. t \notin gone => want'[u] = wish
    BY <1>3, <1>5
  <2>5. t \notin gone => IF calls'[c].kind \in Deleting THEN want'[u] = "deleted"
                                                        ELSE Wished(u, calls[c].value)'
    BY <1>1, <1>5, <2>4 DEF Wished
  <2> QED
    BY <1>1, <1>5, <2>1, <2>2, <2>3, <2>5, FilingAsked
<1> QED
  BY <1>4, <1>5

\* Requests that move no thread.
LEMMA CallsAside ==
    ASSUME InboxTyped, Numbered, NEW u, NEW c \in Slots,
           calls[c] = Idle \/ calls[c].kind \in Flagging,
           calls'[c] = Idle \/ calls'[c].kind \in Flagging \/ calls'[c].field = "starred",
           \A d \in Slots : d # c => calls'[d] = calls[d]
    PROVE  \A d \in Slots : calls'[d] = calls[d] \/ (d \notin Filing(u) /\ d \notin Filing(u)')
  BY DEF Filing, About, Under, Placing, Flagging, Idle

LEMMA AnswerKeeps ==
    ASSUME InboxTyped, Numbered, NEW u \in Conversations, Follows(u), NEW c \in Slots,
           calls[c] # Idle, calls[c].kind \in Placing \ {"deck"}, calls[c].step # "asked",
           calls' = [calls EXCEPT ![c] = Idle],
           UNCHANGED <<server, want>>, odd[u] \subseteq odd'[u],
           u \in Doomed' => u \in Doomed,
           u \in Doomed => u \in Doomed' \/ u = calls[c].thread,
           dismissed' \subseteq dismissed,
           calls[c].step = "refused" /\ calls[c].kind \in TakenBack =>
             calls[c].thread \notin dismissed'
    PROVE  Follows(u)'
<1>1. calls[c].field = "archived"
  BY DEF Numbered
<1>2. calls'[c] = Idle /\ \A d \in Slots : d # c => calls'[d] = calls[d]
  BY DEF InboxTyped, CallsOK
<1>3. c \notin Filing(u)'
  BY <1>2 DEF Filing, About, Under, Placing, Idle
<1>4. CASE calls[c].thread # u
  <2>1. c \notin Filing(u)
    BY <1>4 DEF Filing, About
  <2> QED
    BY <1>2, <1>3, <1>4, <2>1, FilingFrame DEF FilingUntouched, server
<1>5. CASE calls[c].thread = u
  <2>1. c \in Filing(u)
    BY <1>1, <1>5 DEF Filing, About, Under
  <2>2. u \notin Doomed'
    BY <2>1 DEF Follows
  <2>3. \A d \in Filing(u)' : d # c /\ calls'[d] = calls[d]
    BY <1>2, <1>3 DEF Filing, About, Under
  <2> QED
    BY <1>5, <2>1, <2>2, <2>3, FilingAnswered
<1> QED
  BY <1>4, <1>5

LEMMA QuietKeeps ==
    ASSUME NEW u, Follows(u), UNCHANGED <<calls, server, want>>, odd[u] \subseteq odd'[u],
           dismissed' \subseteq dismissed, u \in Doomed' <=> u \in Doomed
    PROVE  Follows(u)'
  BY FilingFrame DEF FilingUntouched, server

LEMMA CrossingExcuses ==
    ASSUME NEW t, NEW S, Crossing(t) \subseteq S, S \cap Excuses = {}
    PROVE  Crossing(t) = {}
  BY DEF Crossing, Excuses

LEMMA DamageFails ==
    ASSUME NEW kind \in Placing, NEW answer \in {"refused", "lost"}
    PROVE  IF kind \in TakenBack /\ answer = "refused"
             THEN Damage(kind, answer) = {"refused"} ELSE Damage(kind, answer) = {"failed"}
<1>1. kind # "flag" /\ kind # "flagUndo"
  BY DEF Placing
<1> QED
  BY <1>1 DEF Damage

LEMMA BulkKeeps ==
    ASSUME InboxTyped, NEW u \in Conversations, Follows(u), odd'[u] \cap Excuses = {},
           odd[u] \subseteq odd'[u],
           NEW S \in SUBSET Conversations, NEW kind, NEW wish,
           <<kind, wish>> \in {<<"bulk", "out">>, <<"bulkDelete", "deleted">>},
           BulkAsk(S, kind, wish)
    PROVE  Follows(u)'
<1> DEFINE X(slot, c) == CHOOSE t \in S : slot[t] = c
<1>1. PICK slot \in Injection(S, {c \in Slots : calls[c] = Idle}) :
        calls' = [c \in Slots |-> IF \E t \in S : slot[t] = c
                                   THEN Call(kind, X(slot, c), "archived", TRUE) ELSE calls[c]]
  BY DEF BulkAsk
<1>2. ASSUME NEW c \in Slots, \E t \in S : slot[t] = c
      PROVE  X(slot, c) \in S /\ slot[X(slot, c)] = c
  BY <1>2
<1> HIDE DEF X
<1>3. /\ UNCHANGED <<server, view>> /\ dismissed' = dismissed \cup S
      /\ want' = [t \in Conversations |-> IF t \in S \ gone THEN wish ELSE want[t]]
      /\ odd' = [t \in Conversations |-> IF t \in S THEN odd[t] \cup Crossing(t) ELSE odd[t]]
  BY DEF BulkAsk
<1>4. u \in Doomed' <=> u \in Doomed
  BY <1>3, DoomedIs
<1>5. \A t \in S : slot[t] \in Slots /\ calls[slot[t]] = Idle
  BY <1>1 DEF Injection
<1>6. \A a, b \in S : slot[a] = slot[b] => a = b
  BY <1>1 DEF Injection, IsInjective
<1>7. ASSUME NEW c \in Slots, calls'[c] # calls[c]
      PROVE  /\ calls[c] = Idle /\ calls'[c] = Call(kind, X(slot, c), "archived", TRUE)
             /\ X(slot, c) \in S /\ slot[X(slot, c)] = c /\ c \notin Filing(u)
  <2>1. /\ calls'[c] = Call(kind, X(slot, c), "archived", TRUE) /\ calls[c] = Idle
        /\ X(slot, c) \in S /\ slot[X(slot, c)] = c
    BY <1>1, <1>2, <1>5, <1>7
  <2> QED
    BY <2>1, IdleKind DEF Filing, About, Under, Placing
<1>8. CASE u \notin S
  <2>1. ASSUME NEW c \in Slots, calls'[c] # calls[c]
        PROVE  c \notin Filing(u) /\ c \notin Filing(u)'
    <3>1. calls'[c].thread = X(slot, c) /\ X(slot, c) # u /\ c \notin Filing(u)
      <4>1. calls'[c] = Call(kind, X(slot, c), "archived", TRUE) /\ X(slot, c) \in S
        BY <1>7, <2>1
      <4>2. calls'[c].thread = X(slot, c)
        BY <4>1 DEF Call
      <4> QED
        BY <1>7, <1>8, <2>1, <4>1, <4>2
    <3> QED
      BY <3>1 DEF Filing, About
  <2>2. want'[u] = want[u] /\ (u \in dismissed' => u \in dismissed)
    BY <1>3, <1>8
  <2> QED
    BY <1>3, <1>4, <2>1, <2>2, FilingFrame DEF FilingUntouched, server
<1>9. CASE u \in S
  <2>1. Crossing(u) = {}
    BY <1>3, <1>9, CrossingExcuses
  <2>2. Filing(u) = {} /\ u \notin Doomed
    BY <2>1 DEF Crossing, Filing
  <2> DEFINE c == slot[u]
  <2>3. c \in Slots /\ calls[c] = Idle /\ X(slot, c) = u
    BY <1>2, <1>5, <1>6, <1>9
  <2>4. calls'[c] = Call(kind, u, "archived", TRUE)
    BY <1>1, <1>9, <2>3
  <2> HIDE DEF c
  <2>5. /\ calls'[c].kind = kind /\ calls'[c].thread = u /\ calls'[c].field = "archived"
        /\ calls'[c].value = TRUE /\ calls'[c].step = "asked"
    BY <2>4 DEF Call
  <2>6. c \in Filing(u)'
    BY <2>3, <2>5 DEF Filing, About, Under, Placing
  <2>7. ASSUME NEW d \in Slots, d # c, calls'[d] # calls[d]
        PROVE  d \notin Filing(u) /\ d \notin Filing(u)'
    <3>1. calls'[d].thread # u
      <4>1. calls'[d].thread = X(slot, d) /\ slot[X(slot, d)] = d
        <5>1. calls'[d] = Call(kind, X(slot, d), "archived", TRUE) /\ slot[X(slot, d)] = d
          BY <1>7, <2>7
        <5> QED
          BY <5>1 DEF Call
      <4> QED
        BY <2>7, <4>1 DEF c
    <3> QED
      BY <1>7, <2>7, <3>1 DEF Filing, About
  <2>8. want'[u] = IF u \in gone THEN want[u] ELSE wish
    BY <1>3, <1>9
  <2>9. u \notin gone => IF calls'[c].kind \in Deleting THEN want'[u] = "deleted"
                                                        ELSE Wished(u, calls[c].value)'
    BY <2>5, <2>8 DEF Deleting, Wished
  <2> QED
    BY <1>3, <1>4, <2>2, <2>3, <2>5, <2>6, <2>7, <2>8, <2>9, FilingAsked
<1> QED
  BY <1>8, <1>9

LEMMA FollowsStep ==
    ASSUME InboxTyped, Numbered, WishFollows, [InboxNext]_inboxVars,
           NEW u \in Conversations, odd'[u] \cap Excuses = {}
    PROVE  Follows(u)'
<1>0. Follows(u) /\ odd[u] \subseteq odd'[u] /\ odd'[u] \cap Excuses = {}
  BY WishesStep DEF Remembers, WishFollows
<1>1. CASE UNCHANGED inboxVars
  <2>1. UNCHANGED <<calls, server, want, dismissed, view>>
    BY <1>1 DEF inboxVars, list, history
  <2> QED
    BY <1>0, <2>1, DoomedIs, QuietKeeps
<1>2. ASSUME NEW c \in Slots, Serve(c)
      PROVE  Follows(u)'
  <2>1. /\ calls[c] # Idle /\ calls[c].step = "asked" /\ UNCHANGED <<view, dismissed, want>>
        /\ calls' = [calls EXCEPT ![c] = IF calls[c].kind = "deck" THEN Idle ELSE [calls[c] EXCEPT !.step = "ok"]]
    BY <1>2 DEF Serve, list, history
  <2>2. calls[c] \in Calling /\ (u \in Doomed' <=> u \in Doomed)
    BY <2>1, CallMade, DoomedIs
  <2>3. \A d \in Slots : d # c => calls'[d] = calls[d]
    BY <2>1 DEF InboxTyped, CallsOK
  <2>4. IF calls[c].kind = "deck" THEN calls'[c] = Idle
        ELSE /\ calls'[c].kind = calls[c].kind /\ calls'[c].thread = calls[c].thread
             /\ calls'[c].field = calls[c].field /\ calls'[c].value = calls[c].value
             /\ calls'[c].step = "ok"
    BY <2>1, <2>2 DEF InboxTyped, CallsOK, Calling
  <2>5. c \in Filing(u)' => c \in Filing(u)
    BY <2>4 DEF Filing, About, Under, Placing, Idle
  <2>6. calls[c].thread \notin gone
    BY <1>2 DEF Serve
  <2>7. CASE c \notin Filing(u)
    <3>1. flags'[u].archived = flags[u].archived /\ (u \in gone' <=> u \in gone)
      <4>1. calls[c].thread # u \/ calls[c].field # "archived" \/ calls[c].kind \in Flagging
        BY <2>2, <2>7 DEF Filing, About, Under, Calling, Kinds
      <4>2. calls[c].kind \in Deleting => calls[c].thread # u
        BY <2>1, <2>2, <2>7 DEF Numbered, Filing, About, Under, Deleting, Placing
      <4>3. calls[c].kind \notin Deleting =>
              /\ flags' = [flags EXCEPT ![calls[c].thread][calls[c].field] = calls[c].value] /\ gone' = gone
        BY <1>2 DEF Serve
      <4>4. calls[c].kind \in Deleting => flags' = flags /\ gone' = gone \cup {calls[c].thread}
        BY <1>2 DEF Serve
      <4>5. calls[c].kind \in Flagging => calls[c].field # "archived"
        BY <2>1 DEF Numbered, Flags
      <4>6. calls[c].kind \notin Deleting => flags'[u].archived = flags[u].archived
        BY <2>2, <4>1, <4>3, <4>5 DEF InboxTyped, ServerOK, Calling, Fields
      <4> QED
        BY <4>2, <4>3, <4>4, <4>6
    <3> QED
      BY <1>0, <2>1, <2>2, <2>3, <2>5, <2>7, <3>1, FilingFrame DEF FilingUntouched
  <2>8. CASE c \in Filing(u)
    <3>1. /\ calls[c].thread = u /\ calls[c].field = "archived" /\ calls[c].kind \in Placing
          /\ u \notin gone /\ u \notin Doomed /\ \A d \in Filing(u) : d = c
      BY <1>0, <2>6, <2>8 DEF Filing, About, Under, Follows
    <3>2. Filing(u)' \subseteq {c}
      BY <2>3, <3>1 DEF Filing, About, Under
    <3>3. CASE calls[c].kind \in Deleting
      <4>1. gone' = gone \cup {u} /\ want[u] = "deleted"
        BY <1>2, <1>0, <2>1, <2>8, <3>1, <3>3 DEF Serve, Follows
      <4>2. Kept(u)' /\ CameTrue(u)'
        BY <2>1, <3>1, <4>1 DEF Kept, CameTrue
      <4> QED
        BY <2>1, <2>2, <3>1, <3>2, <4>1, <4>2 DEF Follows
    <3>4. CASE calls[c].kind \notin Deleting
      <4>1. gone' = gone /\ flags' = [flags EXCEPT ![calls[c].thread][calls[c].field] = calls[c].value]
        BY <1>2, <3>4 DEF Serve
      <4>2. flags'[u].archived = calls[c].value
        BY <3>1, <4>1 DEF InboxTyped, ServerOK
      <4>3. Wished(u, calls[c].value) /\ calls[c].value \in BOOLEAN
        BY <1>0, <2>1, <2>2, <2>8, <3>1, <3>4 DEF Follows, Calling
      <4>4. Kept(u)' /\ CameTrue(u)'
        BY <2>1, <3>1, <4>1, <4>2, <4>3 DEF Kept, CameTrue, Wished
      <4>5. CASE calls[c].kind = "deck"
        <5>1. Filing(u)' = {}
          BY <2>4, <3>2, <4>5 DEF Filing, About, Under, Placing, Idle
        <5> QED
          BY <2>2, <3>1, <4>1, <4>4, <5>1 DEF Follows
      <4>6. CASE calls[c].kind # "deck"
        <5>1. Filing(u)' = {c}
          BY <2>4, <3>1, <3>2, <4>6 DEF Filing, About, Under
        <5> QED
          BY <2>2, <2>4, <3>1, <4>1, <4>4, <4>6, <5>1 DEF Follows
      <4> QED
        BY <4>5, <4>6
    <3> QED
      BY <3>3, <3>4
  <2> QED
    BY <2>7, <2>8
<1>3. ASSUME NEW c \in Slots, Forbid(c)
      PROVE  Follows(u)'
  <2>1. /\ calls[c] # Idle /\ calls[c].step = "asked" /\ UNCHANGED <<view, dismissed, want>>
        /\ calls' = [calls EXCEPT ![c] = IF calls[c].kind = "deck" THEN Idle ELSE [calls[c] EXCEPT !.step = "refused"]]
    BY <1>3 DEF Forbid, list, history
  <2>2. calls[c] \in Calling /\ (u \in Doomed' <=> u \in Doomed)
    BY <2>1, CallMade, DoomedIs
  <2>3. \A d \in Slots : d # c => calls'[d] = calls[d]
    BY <2>1 DEF InboxTyped, CallsOK
  <2>4. IF calls[c].kind = "deck" THEN calls'[c] = Idle
        ELSE /\ calls'[c].kind = calls[c].kind /\ calls'[c].thread = calls[c].thread
             /\ calls'[c].field = calls[c].field /\ calls'[c].value = calls[c].value
             /\ calls'[c].step = "refused"
    BY <2>1, <2>2 DEF InboxTyped, CallsOK, Calling
  <2>5. c \in Filing(u)' => c \in Filing(u)
    BY <2>4 DEF Filing, About, Under, Placing, Idle
  <2>6. calls[c].thread \in gone /\ UNCHANGED server
    BY <1>3 DEF Forbid
  <2>7. CASE c \notin Filing(u)
    BY <1>0, <2>1, <2>2, <2>3, <2>5, <2>6, <2>7, FilingFrame DEF FilingUntouched, server
  <2>8. CASE c \in Filing(u)
    <3>1. /\ calls[c].thread = u /\ u \in gone /\ u \notin Doomed /\ \A d \in Filing(u) : d = c
          /\ want[u] = "deleted"
      BY <1>0, <2>6, <2>8 DEF Filing, About, Under, Follows
    <3>2. Filing(u)' \subseteq {c}
      BY <2>3, <3>1 DEF Filing, About, Under
    <3>3. Kept(u)' /\ CameTrue(u)'
      BY <2>1, <2>6, <3>1 DEF Kept, CameTrue, server
    <3> QED
      BY <2>1, <2>2, <2>6, <3>1, <3>2, <3>3 DEF Follows, server
  <2> QED
    BY <2>7, <2>8
<1>4. ASSUME NEW c \in Slots, NEW answer \in {"refused", "lost"}, Fail(c, answer)
      PROVE  Follows(u)'
  <2>1. /\ calls[c] # Idle /\ UNCHANGED <<view, dismissed, want, server>>
        /\ calls[c].step = "asked" \/ (calls[c].step = "ok" /\ answer = "lost")
        /\ calls' = [calls EXCEPT ![c] = IF calls[c].kind = "deck" THEN Idle ELSE [calls[c] EXCEPT !.step = answer]]
        /\ odd' = [odd EXCEPT ![calls[c].thread] = @ \cup Damage(calls[c].kind, answer)]
    BY <1>4 DEF Fail, list, Mark
  <2>2. calls[c] \in Calling /\ (u \in Doomed' <=> u \in Doomed)
    BY <2>1, CallMade, DoomedIs
  <2>3. \A d \in Slots : d # c => calls'[d] = calls[d]
    BY <2>1 DEF InboxTyped, CallsOK
  <2>4. IF calls[c].kind = "deck" THEN calls'[c] = Idle
        ELSE /\ calls'[c].kind = calls[c].kind /\ calls'[c].thread = calls[c].thread
             /\ calls'[c].field = calls[c].field /\ calls'[c].value = calls[c].value
             /\ calls'[c].step = answer
    BY <2>1, <2>2 DEF InboxTyped, CallsOK, Calling
  <2>5. c \in Filing(u)' => c \in Filing(u)
    BY <2>4 DEF Filing, About, Under, Placing, Idle
  <2>7. CASE c \notin Filing(u)
    BY <1>0, <2>1, <2>2, <2>3, <2>5, <2>7, FilingFrame DEF FilingUntouched, server
  <2>8. CASE c \in Filing(u)
    <3>1. /\ calls[c].thread = u /\ calls[c].kind \in Placing
          /\ u \notin Doomed /\ \A d \in Filing(u) : d = c
      BY <1>0, <2>8 DEF Filing, About, Under, Follows
    <3>2. odd'[u] = odd[u] \cup Damage(calls[c].kind, answer)
      BY <2>1, <3>1 DEF InboxTyped, WishesOK
    <3>3. calls[c].kind \in TakenBack /\ answer = "refused"
      BY <1>0, <3>1, <3>2, DamageFails DEF Excuses
    <3>4. "refused" \in odd'[u]
      BY <3>1, <3>2, <3>3, DamageFails
    <3>5. Filing(u)' = {c} /\ calls'[c].kind = calls[c].kind /\ calls'[c].step = "refused"
      BY <2>3, <2>4, <3>1, <3>3, <2>8 DEF Filing, About, Under, TakenBack
    <3> QED
      BY <1>0, <2>1, <2>2, <3>1, <3>3, <3>4, <3>5 DEF Follows, server
  <2> QED
    BY <2>7, <2>8
<1>5. ASSUME NEW c \in Slots, SwipeDone(c)
      PROVE  Follows(u)'
  <2>1. /\ calls[c].kind \in Placing \ {"deck"} /\ calls[c].step # "asked"
        /\ calls' = [calls EXCEPT ![c] = Idle] /\ UNCHANGED <<server, want>>
    BY <1>5 DEF SwipeDone, Done, Answered, history, Placing
  <2>2. calls[c] # Idle
    BY <2>1 DEF Idle, Placing
  <2>3. (u \in Doomed' <=> u \in Doomed)
    BY <1>5, DoomedIs DEF SwipeDone
  <2>4. dismissed' \subseteq dismissed /\ (calls[c].step = "refused" => calls[c].thread \notin dismissed')
    BY <1>5 DEF SwipeDone, Answered
  <2> QED
    BY <1>0, <2>1, <2>2, <2>3, <2>4, AnswerKeeps
<1>6. ASSUME NEW c \in Slots, UndoSwipeDone(c)
      PROVE  Follows(u)'
  <2>1. /\ calls[c].kind \in Placing \ {"deck"} /\ calls[c].step # "asked"
        /\ calls' = [calls EXCEPT ![c] = Idle] /\ UNCHANGED <<server, want>>
    BY <1>6 DEF UndoSwipeDone, Done, Answered, history, Placing
  <2>2. calls[c] # Idle
    BY <2>1 DEF Idle, Placing
  <2>3. (u \in Doomed' <=> u \in Doomed)
    BY <1>6, DoomedIs DEF UndoSwipeDone
  <2>4. dismissed' \subseteq dismissed /\ calls[c].kind \notin TakenBack
    BY <1>6 DEF UndoSwipeDone, TakenBack
  <2> QED
    BY <1>0, <2>1, <2>2, <2>3, <2>4, AnswerKeeps
<1>7. ASSUME NEW c \in Slots, ArchiveDone(c)
      PROVE  Follows(u)'
  <2>1. /\ calls[c].kind \in Placing \ {"deck"} /\ calls[c].step # "asked"
        /\ calls' = [calls EXCEPT ![c] = Idle] /\ UNCHANGED <<server, want>>
    BY <1>7 DEF ArchiveDone, Done, Answered, history, Placing
  <2>2. calls[c] # Idle
    BY <2>1 DEF Idle, Placing
  <2>5. \/ view' = view
        \/ view # Closed /\ StillOpen(c) /\ ~view'.counting
    BY <1>7, ToolbarShown DEF ArchiveDone, Settled, Opening, StillOpen
  <2>6. StillOpen(c) => calls[c].thread = view.thread
    BY <1>7, <2>2 DEF ArchiveDone, Numbered
  <2>3. (u \in Doomed' => u \in Doomed) /\ (u \in Doomed => u \in Doomed' \/ u = calls[c].thread)
    BY <2>5, <2>6, DoomedIs
  <2>4. dismissed' \subseteq dismissed /\ (calls[c].step = "refused" => calls[c].thread \notin dismissed')
    BY <1>7 DEF ArchiveDone, Gives
  <2> QED
    BY <1>0, <2>1, <2>2, <2>3, <2>4, AnswerKeeps
<1>8. ASSUME NEW c \in Slots, UndoArchiveDone(c)
      PROVE  Follows(u)'
  <2>1. /\ calls[c].kind \in Placing \ {"deck"} /\ calls[c].step # "asked"
        /\ calls' = [calls EXCEPT ![c] = Idle] /\ UNCHANGED <<server, want>>
    BY <1>8 DEF UndoArchiveDone, Done, Answered, history, Placing
  <2>2. calls[c] # Idle
    BY <2>1 DEF Idle, Placing
  <2>5. \/ view' = view
        \/ view # Closed /\ StillOpen(c) /\ ~view'.counting
    BY <1>8, ToolbarShown DEF UndoArchiveDone, Settled, Opening, StillOpen
  <2>6. StillOpen(c) => calls[c].thread = view.thread
    BY <1>8, <2>2 DEF UndoArchiveDone, Numbered
  <2>3. (u \in Doomed' => u \in Doomed) /\ (u \in Doomed => u \in Doomed' \/ u = calls[c].thread)
    BY <2>5, <2>6, DoomedIs
  <2>4. dismissed' \subseteq dismissed /\ calls[c].kind \notin TakenBack
    BY <1>8 DEF UndoArchiveDone, TakenBack
  <2> QED
    BY <1>0, <2>1, <2>2, <2>3, <2>4, AnswerKeeps
<1>9. ASSUME NEW c \in Slots, DeleteDone(c)
      PROVE  Follows(u)'
  <2>1. /\ calls[c].kind = "delete" /\ calls[c].step # "asked"
        /\ calls' = [calls EXCEPT ![c] = Idle] /\ UNCHANGED <<server, want>>
    BY <1>9 DEF DeleteDone, Done
  <2>2. calls[c] \in Calling /\ calls[c] # Idle
    BY <2>1, CallMade DEF Idle
  <2>3. StillOpen(c) => calls[c].thread = view.thread
    BY <2>1, <2>2 DEF Numbered
  <2>4. /\ dismissed' \subseteq dismissed
        /\ calls[c].step = "refused" => calls[c].thread \notin dismissed'
        /\ \/ view' = Closed /\ Abandon
           \/ view' = view
           \/ StillOpen(c) /\ view' \in {[view EXCEPT !.lingers = TRUE], [Settled EXCEPT !.lingers = TRUE]}
    <3>1. CASE calls[c].step = "ok"
      BY <1>9, <3>1 DEF DeleteDone, Gives, GoTo
    <3>2. CASE calls[c].step = "refused"
      BY <1>9, <3>2 DEF DeleteDone, Gives
    <3>3. CASE calls[c].step = "lost"
      BY <1>9, <3>3 DEF DeleteDone, Gives
    <3> QED
      BY <2>1, <2>2, <3>1, <3>2, <3>3 DEF Calling
  <2>5. (u \in Doomed' => u \in Doomed) /\ (u \in Doomed => u \in Doomed' \/ u = calls[c].thread)
    <3>1. CASE view' = Closed /\ Abandon
      BY <1>0, <3>1, DoomedIs DEF Abandon, Excuses
    <3>2. CASE view' = view
      BY <3>2, DoomedIs
    <3>3. CASE StillOpen(c) /\ view' \in {[view EXCEPT !.lingers = TRUE], [Settled EXCEPT !.lingers = TRUE]}
      <4>1. /\ view # Closed /\ view'.thread = view.thread /\ calls[c].thread = view.thread
            /\ view'.counting => view.counting /\ view'.pending = view.pending
        BY <2>3, <3>3, ToolbarShown DEF StillOpen, Settled, Opening
      <4> QED
        BY <4>1, DoomedIs
    <3> QED
      BY <2>4, <3>1, <3>2, <3>3
  <2> QED
    BY <1>0, <2>1, <2>2, <2>4, <2>5, AnswerKeeps DEF Placing
<1>10. ASSUME NEW c \in Slots, ToggleDone(c)
      PROVE  Follows(u)'
  <2>1. /\ calls[c].kind \in Flagging /\ calls[c] # Idle /\ calls' = [calls EXCEPT ![c] = Idle]
        /\ UNCHANGED <<server, want, dismissed>>
    BY <1>10 DEF ToggleDone, Done, Flagging, Idle, list
  <2>2. \A d \in Slots : calls'[d] = calls[d] \/ (d \notin Filing(u) /\ d \notin Filing(u)')
    <3>1. calls'[c] = Idle /\ \A d \in Slots : d # c => calls'[d] = calls[d]
      BY <2>1 DEF InboxTyped, CallsOK
    <3> QED
      BY <2>1, <3>1, CallsAside
  <2>3. u \in Doomed' <=> u \in Doomed
    <3>1. \/ view' = view
          \/ view' = Closed /\ Abandon
          \/ StillOpen(c) /\ view' = [view EXCEPT ![calls[c].field] = ~calls[c].value]
      <4>1. CASE calls[c].step = "ok"
        BY <1>10, <4>1 DEF ToggleDone, Gives
      <4>2. CASE calls[c].step = "refused"
        BY <1>10, <4>2 DEF ToggleDone, Gives
      <4>3. CASE calls[c].step = "lost"
        BY <1>10, <4>3 DEF ToggleDone, Gives
      <4>4. calls[c].step \in {"ok", "refused", "lost"}
        BY <1>10, <2>1, CallMade DEF ToggleDone, Calling
      <4> QED
        BY <4>1, <4>2, <4>3, <4>4
    <3>2. CASE view' = view
      BY <3>2, DoomedIs
    <3>3. CASE view' = Closed /\ Abandon
      BY <1>0, <3>3, DoomedIs DEF Abandon, Excuses
    <3>4. CASE StillOpen(c) /\ view' = [view EXCEPT ![calls[c].field] = ~calls[c].value]
      <4>1. calls[c].field \in Flags
        BY <1>10, <2>1 DEF ToggleDone, Numbered, Flagging
      <4>2. view # Closed /\ view'.thread = view.thread /\ view'.pending = view.pending /\ view'.counting = view.counting
        BY <3>4, <4>1, ToolbarShown DEF StillOpen, Opening, Flags
      <4>3. view' # Closed
        BY <3>4, <4>1, ToolbarShown DEF StillOpen, Opening, Flags, Closed
      <4> QED
        BY <4>2, <4>3, DoomedIs
    <3> QED
      BY <3>1, <3>2, <3>3, <3>4
  <2> QED
    BY <1>0, <2>1, <2>2, <2>3, FilingFrame DEF FilingUntouched, server
<1>11. ASSUME NEW c \in Slots, UndoMuteDone(c)
      PROVE  Follows(u)'
  <2>1. /\ calls[c].kind \in Flagging /\ calls[c] # Idle /\ calls' = [calls EXCEPT ![c] = Idle]
        /\ UNCHANGED <<server, want, dismissed>>
    BY <1>11 DEF UndoMuteDone, Done, history, Flagging, Idle, list
  <2>2. \A d \in Slots : calls'[d] = calls[d] \/ (d \notin Filing(u) /\ d \notin Filing(u)')
    <3>1. calls'[c] = Idle /\ \A d \in Slots : d # c => calls'[d] = calls[d]
      BY <2>1 DEF InboxTyped, CallsOK
    <3> QED
      BY <2>1, <3>1, CallsAside
  <2>3. u \in Doomed' <=> u \in Doomed
    BY <1>11, DoomedIs DEF UndoMuteDone
  <2> QED
    BY <1>0, <2>1, <2>2, <2>3, FilingFrame DEF FilingUntouched, server
<1>12. ASSUME NEW s \in Scopes, Navigate(s)
      PROVE  Follows(u)'
  <2>1. UNCHANGED <<calls, server, want>> /\ view' = Closed /\ dismissed' \subseteq dismissed /\ Abandon
    BY <1>12 DEF Navigate, GoTo
  <2>2. u \notin Doomed'
    BY <2>1, DoomedIs
  <2>3. u \notin Doomed
    BY <1>0, <2>1 DEF Abandon, Excuses
  <2> QED
    BY <1>0, <2>1, <2>2, <2>3, QuietKeeps
<1>13. ASSUME NEW c \in Slots, UndoSwipe(c)
      PROVE  Follows(u)'
  <2> DEFINE t == swipe.thread
  <2>1. /\ calls[c] = Idle /\ calls' = [calls EXCEPT ![c] = Call("swipeUndo", t, "archived", FALSE)]
        /\ UNCHANGED <<server, dismissed, view>> /\ t \in Conversations
    BY <1>13, ToastOK DEF UndoSwipe, Place, Ask
  <2>2. u \in Doomed' <=> u \in Doomed
    BY <2>1, DoomedIs
  <2>3. PICK wish, why :
          /\ want' = IF t \in gone THEN want ELSE [want EXCEPT ![t] = wish]
          /\ odd' = [odd EXCEPT ![t] = @ \cup (Crossing(t) \cup why)]
          /\ wish = "in" \/ why = {"refiled"}
    BY <1>13 DEF UndoSwipe, Place, Wish, Mark
  <2> HIDE DEF t
  <2>4. odd'[t] = odd[t] \cup Crossing(t) \cup why
    BY <2>1, <2>3 DEF InboxTyped, WishesOK
  <2>5. u = t => Crossing(t) = {} /\ wish = "in"
    BY <1>0, <2>3, <2>4, CrossingExcuses DEF Excuses
  <2>6. u = t => u \notin Doomed
    BY <2>5 DEF Crossing
  <2> QED
    BY <1>0, <2>1, <2>2, <2>3, <2>5, <2>6, PlaceKeeps DEF Placing, Deleting
<1>14. ASSUME NEW c \in Slots, NEW t \in Conversations, Swipe(c, t)
      PROVE  Follows(u)'
  <2>1. /\ calls[c] = Idle /\ calls' = [calls EXCEPT ![c] = Call("swipe", t, "archived", TRUE)]
        /\ UNCHANGED server /\ t \in Conversations /\ dismissed' \subseteq dismissed \cup {t}
        /\ UNCHANGED view
    BY <1>14, ToastOK, ToolbarShown, CardOK DEF Swipe, Place, Ask, CanAct, CanSettle, Visible,
       Opening, list, InboxTyped, ListOK, Closed
  <2>2. PICK wish :
          /\ want' = IF t \in gone THEN want ELSE [want EXCEPT ![t] = wish]
          /\ wish \in {"out", "still out"}
          /\ odd' = [odd EXCEPT ![t] = @ \cup Crossing(t)]
    BY <1>14, <1>0, <2>1 DEF Swipe, Place, Wish, Mark
  <2>3. u \in Doomed' <=> u \in Doomed
    BY <2>1, DoomedIs
  <2>4. u = t => Crossing(u) = {} /\ u \notin Doomed'
    <3>1. odd'[t] = odd[t] \cup Crossing(t)
      BY <2>1, <2>2 DEF InboxTyped, WishesOK
    <3>2. u = t => Crossing(u) = {}
      BY <1>0, <3>1, CrossingExcuses
    <3> QED
      BY <2>3, <3>2 DEF Crossing
  <2> QED
    BY <1>0, <2>1, <2>2, <2>3, <2>4, PlaceKeeps DEF Placing, Deleting
<1>15. ASSUME NEW S \in SUBSET Conversations, BulkArchive(S)
      PROVE  Follows(u)'
  BY <1>15, <1>0, BulkKeeps DEF BulkArchive
<1>16. ASSUME NEW S \in SUBSET Conversations, BulkDelete(S)
      PROVE  Follows(u)'
  BY <1>16, <1>0, BulkKeeps DEF BulkDelete
<1>17. CASE BulkDone
  <2>1. /\ calls' = [c \in Slots |-> IF c \in Under(Bulk) THEN Idle ELSE calls[c]]
        /\ \A c \in Under(Bulk) : calls[c].step # "asked"
        /\ UNCHANGED <<server, want, dismissed, view>>
    BY <1>17 DEF BulkDone, list, history
  <2>2. u \in Doomed' <=> u \in Doomed
    BY <2>1, DoomedIs
  <2>3. \A d \in Slots : calls'[d] = calls[d] \/ (d \in Under(Bulk) /\ d \notin Filing(u)')
    BY <2>1 DEF Filing, About, Under, Placing, Idle
  <2>4. CASE Filing(u) \cap Under(Bulk) = {}
    BY <1>0, <2>1, <2>2, <2>3, <2>4, FilingFrame DEF FilingUntouched, server
  <2>5. ASSUME NEW c \in Filing(u), c \in Under(Bulk)
        PROVE  Follows(u)'
    <3>1. calls[c].step # "asked" /\ calls[c].kind \notin TakenBack
      BY <2>1, <2>5 DEF Under, Bulk, TakenBack
    <3>2. u \notin Doomed'
      BY <1>0, <2>2, <2>5 DEF Follows
    <3>3. ASSUME NEW d \in Filing(u)'
          PROVE  d # c /\ calls'[d] = calls[d]
      <4>1. d \in Slots
        BY <3>3 DEF Filing, About, Under
      <4>2. calls'[c] = Idle
        BY <2>1, <2>5 DEF Under
      <4>3. c \notin Filing(u)'
        BY <4>2 DEF Filing, About, Under, Placing, Idle
      <4> QED
        BY <2>3, <3>3, <4>1, <4>3
    <3> QED
      BY <1>0, <2>1, <2>5, <3>1, <3>2, <3>3, FilingAnswered
  <2> QED
    BY <2>4, <2>5
<1>18. CASE SwipeToastGone
  <2>1. UNCHANGED <<calls, server, want, dismissed, view>>
    BY <1>18 DEF SwipeToastGone, server, history
  <2> QED
    BY <1>0, <2>1, DoomedIs, QuietKeeps
<1>19. CASE Refresh
  <2>1. UNCHANGED <<calls, server, want, dismissed, view>>
    BY <1>19 DEF Refresh, server, history
  <2> QED
    BY <1>0, <2>1, DoomedIs, QuietKeeps
<1>20. ASSUME NEW t \in Conversations, OpenThread(t)
      PROVE  Follows(u)'
  <2>1. UNCHANGED <<calls, server, want, dismissed>> /\ view = Closed /\ view' = Toolbar(t)
    BY <1>20 DEF OpenThread, list
  <2>2. u \notin Doomed' /\ u \notin Doomed
    BY <2>1, DoomedIs DEF Toolbar
  <2> QED
    BY <1>0, <2>1, <2>2, QuietKeeps
<1>21. CASE Delete
  <2> DEFINE t == view.thread
  <2>1. /\ view # Closed /\ t \in Conversations /\ UNCHANGED <<calls, server>>
        /\ view' # Closed /\ view'.thread = t /\ view.pending = "none"
        /\ view'.pending = "delete" /\ view'.counting
    BY <1>21, ToolbarShown DEF Delete, CanAct, Opening, Closed
  <2>2. /\ dismissed' = dismissed \cup {t} /\ odd' = [odd EXCEPT ![t] = @ \cup Crossing(t)]
        /\ want' = IF t \in gone THEN want ELSE [want EXCEPT ![t] = "deleted"]
    BY <1>21 DEF Delete, Mark, Wish
  <2>3. u \notin Doomed /\ (u \in Doomed' <=> u = t)
    BY <2>1, DoomedIs
  <2> HIDE DEF t
  <2>4. CASE u # t
    <3>1. want'[u] = want[u] /\ (u \in dismissed' => u \in dismissed)
      BY <2>2, <2>4 DEF InboxTyped, WishesOK
    <3> QED
      BY <1>0, <2>1, <2>3, <2>4, <3>1, FilingFrame DEF FilingUntouched, server
  <2>5. CASE u = t
    <3>1. Crossing(t) = {}
      BY <1>0, <2>2, <2>5, CrossingExcuses DEF InboxTyped, WishesOK
    <3>2. Filing(t) = {}
      BY <3>1 DEF Crossing, Filing
    <3>3. Filing(u)' = {}
      BY <2>1, <2>5, <3>2 DEF Filing, About, Under
    <3>4. want'[u] = "deleted"
      BY <1>0, <2>1, <2>2, <2>5 DEF Follows, InboxTyped, WishesOK
    <3> QED
      BY <2>3, <2>5, <3>3, <3>4 DEF Follows
  <2> QED
    BY <2>4, <2>5
<1>22. CASE UndoDelete
  <2> DEFINE t == view.thread
  <2>1. /\ view # Closed /\ t \in Conversations /\ UNCHANGED <<calls, server>>
        /\ view.counting /\ view.pending = "delete" /\ ~view'.counting
    BY <1>22, ToolbarShown DEF UndoDelete, CanSettle, Settled, Opening
  <2>2. /\ dismissed' = dismissed \ {t}
        /\ want' = IF t \in gone THEN want ELSE [want EXCEPT ![t] = "nothing"]
    BY <1>22 DEF UndoDelete, Wish
  <2>3. u \notin Doomed' /\ (u \in Doomed <=> u = t)
    BY <2>1, DoomedIs
  <2> HIDE DEF t
  <2>4. CASE u # t
    <3>1. want'[u] = want[u] /\ (u \in dismissed' => u \in dismissed)
      BY <2>2, <2>4 DEF InboxTyped, WishesOK
    <3> QED
      BY <1>0, <2>1, <2>3, <2>4, <3>1, FilingFrame DEF FilingUntouched, server
  <2>5. CASE u = t
    <3>1. Filing(u) = {} /\ u \in Doomed
      BY <1>0, <2>3, <2>5 DEF Follows
    <3>2. Filing(u)' = {}
      BY <2>1, <3>1 DEF Filing, About, Under
    <3>3. u \notin gone => want'[u] = "nothing"
      BY <2>2, <2>5 DEF InboxTyped, WishesOK
    <3>4. u \in gone => want'[u] = "deleted"
      BY <1>0, <2>2, <2>5 DEF Follows
    <3>5. u \notin dismissed' /\ CameTrue(u)'
      BY <2>1, <2>2, <2>5, <3>3, <3>4 DEF CameTrue, server
    <3> QED
      BY <2>1, <2>3, <3>2, <3>4, <3>5 DEF Follows, server
  <2> QED
    BY <2>4, <2>5
<1>23. CASE CommitArchive
  <2>1. /\ UNCHANGED <<calls, server, want>> /\ dismissed' \subseteq dismissed /\ view # Closed
        /\ view.pending = "archive" /\ (view' = Closed \/ ~view'.counting)
    BY <1>23, ToolbarShown DEF CommitArchive, CanSettle, GoTo, history, Settled, Opening
  <2>2. u \notin Doomed' /\ u \notin Doomed
    BY <1>23, <2>1, DoomedIs DEF CommitArchive
  <2> QED
    BY <1>0, <2>1, <2>2, QuietKeeps
<1>24. CASE CloseToast
  <2>1. UNCHANGED <<calls, server, want, dismissed>> /\ view # Closed /\ ~view'.counting /\ Abandon
    BY <1>24, ToolbarShown DEF CloseToast, list, Settled, Opening
  <2>2. u \notin Doomed'
    BY <2>1, DoomedIs
  <2>3. u \notin Doomed
    BY <1>0, <2>1 DEF Abandon, Excuses
  <2> QED
    BY <1>0, <2>1, <2>2, <2>3, QuietKeeps
<1>25. CASE LateDismiss
  <2>1. UNCHANGED <<calls, server, want, dismissed>> /\ view # Closed /\ ~view'.counting /\ Abandon
    BY <1>25, ToolbarShown DEF LateDismiss, list, Settled, Opening
  <2>2. u \notin Doomed'
    BY <2>1, DoomedIs
  <2>3. u \notin Doomed
    BY <1>0, <2>1 DEF Abandon, Excuses
  <2> QED
    BY <1>0, <2>1, <2>2, <2>3, QuietKeeps
<1>26. CASE UnmuteToastGone
  <2>1. UNCHANGED <<calls, server, want, dismissed, view>>
    BY <1>26 DEF UnmuteToastGone, server, history
  <2> QED
    BY <1>0, <2>1, DoomedIs, QuietKeeps
<1>27. ASSUME NEW c \in Slots, Archive(c)
      PROVE  Follows(u)'
  <2> DEFINE t == view.thread
             v == ~view.archived
  <2>0. v \in BOOLEAN
    OBVIOUS
  <2>1. /\ calls[c] = Idle /\ calls' = [calls EXCEPT ![c] = Call("toolbar", t, "archived", v)]
        /\ UNCHANGED server /\ t \in Conversations /\ dismissed' \subseteq dismissed \cup {t}
    BY <1>27, ToastOK, ToolbarShown DEF Archive, Place, Ask, CanAct, CanSettle, list
  <2>2. u \notin Doomed /\ u \notin Doomed'
    BY <1>27, ToolbarShown, DoomedIs DEF Archive, CanAct, CanSettle, Opening
  <2>3. PICK wish :
          /\ want' = IF t \in gone THEN want ELSE [want EXCEPT ![t] = wish]
          /\ (v => wish \in {"out", "still out"}) /\ (~v => wish = "in")
    BY <1>27 DEF Archive, Place, Wish
  <2>4. Crossing(t) \subseteq odd'[t]
    BY <1>27, <2>1 DEF Archive, Mark, InboxTyped, WishesOK
  <2> HIDE DEF t, v
  <2>5. u = t => Crossing(t) = {}
    BY <1>0, <2>4, CrossingExcuses
  <2> QED
    BY <1>0, <2>0, <2>1, <2>2, <2>3, <2>5, PlaceKeeps DEF Placing, Deleting
<1>28. ASSUME NEW c \in Slots, UndoArchive(c)
      PROVE  Follows(u)'
  <2> DEFINE t == view.thread
             v == view.was
  <2>0. v \in BOOLEAN
    BY <1>28, ToolbarShown DEF UndoArchive, CanSettle, Opening
  <2>1. /\ calls[c] = Idle /\ calls' = [calls EXCEPT ![c] = Call("toolbarUndo", t, "archived", v)]
        /\ UNCHANGED server /\ t \in Conversations /\ dismissed' \subseteq dismissed \cup {t}
    BY <1>28, ToastOK, ToolbarShown DEF UndoArchive, Place, Ask, CanAct, CanSettle, list
  <2>2. u \notin Doomed /\ u \notin Doomed'
    BY <1>28, ToolbarShown, DoomedIs DEF UndoArchive, CanAct, CanSettle, Opening
  <2>3. PICK wish :
          /\ want' = IF t \in gone THEN want ELSE [want EXCEPT ![t] = wish]
          /\ (v => wish \in {"out", "still out"}) /\ (~v => wish = "in")
    BY <1>28 DEF UndoArchive, Place, Wish
  <2>4. Crossing(t) \subseteq odd'[t]
    BY <1>28, <2>1 DEF UndoArchive, Mark, InboxTyped, WishesOK
  <2> HIDE DEF t, v
  <2>5. u = t => Crossing(t) = {}
    BY <1>0, <2>4, CrossingExcuses
  <2> QED
    BY <1>0, <2>0, <2>1, <2>2, <2>3, <2>5, PlaceKeeps DEF Placing, Deleting
<1>29. ASSUME NEW c \in Slots, CommitDelete(c)
      PROVE  Follows(u)'
  <2> DEFINE t == view.thread
  <2>1. /\ view # Closed /\ t \in Conversations /\ UNCHANGED <<server, want, dismissed>>
        /\ view.counting /\ view.pending = "delete" /\ ~view'.counting
        /\ calls[c] = Idle /\ calls' = [calls EXCEPT ![c] = Call("delete", t, "archived", TRUE)]
    BY <1>29, ToolbarShown DEF CommitDelete, CanSettle, Ask, Opening, list
  <2>2. u \notin Doomed' /\ (u \in Doomed <=> u = t)
    BY <2>1, DoomedIs
  <2> HIDE DEF t
  <2>3. /\ calls'[c].kind = "delete" /\ calls'[c].thread = t /\ calls'[c].field = "archived"
        /\ calls'[c].step = "asked" /\ \A d \in Slots : d # c => calls'[d] = calls[d]
    BY <2>1 DEF Call, InboxTyped, CallsOK
  <2>4. c \notin Filing(u)
    BY <2>1, IdleKind DEF Filing, About, Under, Placing
  <2>5. CASE u # t
    <3>1. c \notin Filing(u)'
      BY <2>3, <2>5 DEF Filing, About, Under
    <3> QED
      BY <1>0, <2>1, <2>2, <2>3, <2>4, <2>5, <3>1, FilingFrame DEF FilingUntouched, server
  <2>6. CASE u = t
    <3>1. Filing(u) = {} /\ want[u] = "deleted"
      BY <1>0, <2>2, <2>6 DEF Follows
    <3>2. c \in Filing(u)'
      BY <2>3, <2>6 DEF Filing, About, Under, Placing
    <3> QED
      BY <1>0, <2>1, <2>2, <2>3, <3>1, <3>2, FilingAsked DEF Deleting
  <2> QED
    BY <2>5, <2>6
<1>30. ASSUME NEW c \in Slots, UndoMute(c)
      PROVE  Follows(u)'
  <2>1. /\ calls[c] = Idle /\ \E t, g, v : calls' = [calls EXCEPT ![c] = Call("flagUndo", t, g, v)]
        /\ UNCHANGED <<server, want, dismissed>>
    BY <1>30 DEF UndoMute, Ask, list
  <2>2. \A d \in Slots : calls'[d] = calls[d] \/ (d \notin Filing(u) /\ d \notin Filing(u)')
    <3>1. calls'[c].kind = "flagUndo" /\ \A d \in Slots : d # c => calls'[d] = calls[d]
      BY <2>1 DEF Call, InboxTyped, CallsOK
    <3> QED
      BY <2>1, <3>1, CallsAside DEF Flagging
  <2>3. u \in Doomed' <=> u \in Doomed
    <3>1. \/ view' = view
          \/ view # Closed /\ view'.thread = view.thread /\ view'.pending = view.pending /\ view'.counting = view.counting /\ view' # Closed
      BY <1>30, ToolbarShown DEF UndoMute, Ask, Opening, Flags, Closed
    <3> QED
      BY <3>1, DoomedIs
  <2> QED
    BY <1>0, <2>1, <2>2, <2>3, FilingFrame DEF FilingUntouched, server
<1>31. ASSUME NEW c \in Slots, NEW f \in Flags, Toggle(c, f)
      PROVE  Follows(u)'
  <2>1. /\ calls[c] = Idle /\ \E t, g, v : calls' = [calls EXCEPT ![c] = Call("flag", t, g, v)]
        /\ UNCHANGED <<server, want, dismissed>>
    BY <1>31 DEF Toggle, CanAct, Ask, list
  <2>2. \A d \in Slots : calls'[d] = calls[d] \/ (d \notin Filing(u) /\ d \notin Filing(u)')
    <3>1. calls'[c].kind = "flag" /\ \A d \in Slots : d # c => calls'[d] = calls[d]
      BY <2>1 DEF Call, InboxTyped, CallsOK
    <3> QED
      BY <2>1, <3>1, CallsAside DEF Flagging
  <2>3. u \in Doomed' <=> u \in Doomed
    <3>1. \/ view' = view
          \/ view # Closed /\ view'.thread = view.thread /\ view'.pending = view.pending /\ view'.counting = view.counting /\ view' # Closed
      BY <1>31, ToolbarShown DEF Toggle, CanAct, Ask, Opening, Flags, Closed
    <3> QED
      BY <3>1, DoomedIs
  <2> QED
    BY <1>0, <2>1, <2>2, <2>3, FilingFrame DEF FilingUntouched, server
<1>32. CASE OpenDeck
  <2>1. UNCHANGED <<calls, server, want, dismissed, view>>
    BY <1>32 DEF OpenDeck, list
  <2> QED
    BY <1>0, <2>1, DoomedIs, QuietKeeps
<1>33. CASE LoadDeck
  <2>1. UNCHANGED <<calls, server, want, dismissed, view>>
    BY <1>33 DEF LoadDeck, Dealt, list
  <2> QED
    BY <1>0, <2>1, DoomedIs, QuietKeeps
<1>34. CASE LoadFails
  <2>1. UNCHANGED <<calls, server, want, dismissed, view>>
    BY <1>34 DEF LoadFails, Dealt, list
  <2> QED
    BY <1>0, <2>1, DoomedIs, QuietKeeps
<1>35. CASE CloseDeck
  <2>1. UNCHANGED <<calls, server, want, dismissed, view>>
    BY <1>35 DEF CloseDeck, list
  <2> QED
    BY <1>0, <2>1, DoomedIs, QuietKeeps
<1>36. CASE Reply
  <2>1. /\ UNCHANGED <<calls, server, want>> /\ dismissed' \subseteq dismissed
        /\ view' = Closed \/ view' = Toolbar(Head(deck.cards))
    BY <1>36 DEF Reply, GoTo
  <2>2. u \notin Doomed'
    BY <2>1, DoomedIs DEF Toolbar
  <2>3. u \notin Doomed
    BY <1>36, <1>0 DEF Reply, Excuses
  <2> QED
    BY <1>0, <2>1, <2>2, <2>3, QuietKeeps
<1>37. ASSUME NEW action \in {"archive", "keep", "star"}, Commit(action)
      PROVE  Follows(u)'
  <2>1. UNCHANGED <<calls, server, want, dismissed, view>>
    BY <1>37 DEF Commit, list
  <2> QED
    BY <1>0, <2>1, DoomedIs, QuietKeeps
<1>38. ASSUME NEW c \in Slots, Land(c)
      PROVE  Follows(u)'
  <2> DEFINE t == Head(deck.flying)[1]
             action == Head(deck.flying)[2]
  <2>1. t \in Conversations /\ UNCHANGED <<server, dismissed, view>>
    BY <1>38, CardOK DEF Land, list
  <2>2. u \in Doomed' <=> u \in Doomed
    BY <2>1, DoomedIs
  <2>3. CASE action = "archive"
    <3>1. /\ calls[c] = Idle /\ calls' = [calls EXCEPT ![c] = Call("deck", t, "archived", TRUE)]
          /\ want' = IF t \in gone THEN want ELSE [want EXCEPT ![t] = "out"]
          /\ odd' = [odd EXCEPT ![t] = @ \cup Crossing(t)]
      BY <1>38, <2>3 DEF Land, Place, Ask, Wish, Mark
    <3> HIDE DEF t, action
    <3>2. odd'[t] = odd[t] \cup Crossing(t)
      BY <2>1, <3>1 DEF InboxTyped, WishesOK
    <3>3. u = t => Crossing(t) = {}
      BY <1>0, <3>2, CrossingExcuses
    <3>4. u = t => u \notin Doomed
      BY <3>3 DEF Crossing
    <3> QED
      BY <1>0, <2>1, <2>2, <3>1, <3>3, <3>4, PlaceKeeps DEF Placing, Deleting
  <2>4. CASE action # "archive"
    <3>1. UNCHANGED want /\ \/ UNCHANGED calls
                            \/ calls[c] = Idle /\ \E v : calls' = [calls EXCEPT ![c] = [Call("deck", t, "starred", v) EXCEPT !.from = 0]]
      BY <1>38, <2>4 DEF Land, Ask
    <3> HIDE DEF t, action
    <3>2. UNCHANGED calls \/ (/\ calls[c] = Idle /\ calls'[c].field = "starred"
                               /\ \A d \in Slots : d # c => calls'[d] = calls[d])
      <4>1. CASE UNCHANGED calls
        BY <4>1
      <4>2. ASSUME NEW v, calls[c] = Idle, calls' = [calls EXCEPT ![c] = [Call("deck", t, "starred", v) EXCEPT !.from = 0]]
            PROVE  calls'[c].field = "starred" /\ \A d \in Slots : d # c => calls'[d] = calls[d]
        BY <4>2 DEF Call, InboxTyped, CallsOK
      <4> QED
        BY <3>1, <4>1, <4>2
    <3>3. \A d \in Slots : calls'[d] = calls[d] \/ (d \notin Filing(u) /\ d \notin Filing(u)')
      BY <3>2, CallsAside
    <3> QED
      BY <1>0, <2>1, <2>2, <3>1, <3>3, FilingFrame DEF FilingUntouched, server
  <2> QED
    BY <2>3, <2>4
<1>39. ASSUME NEW c \in Slots, UndoDeck(c)
      PROVE  Follows(u)'
  <2>1. /\ calls[c] = Idle /\ calls' = [calls EXCEPT ![c] = Call("deck", deck.undo, "archived", FALSE)]
        /\ UNCHANGED server /\ deck.undo \in Conversations /\ dismissed' \subseteq dismissed \cup {deck.undo}
        /\ UNCHANGED view
    BY <1>39, ToastOK, ToolbarShown, CardOK DEF UndoDeck, Place, Ask, CanAct, CanSettle,
       Visible, Opening, list, InboxTyped, ListOK, Closed
  <2>2. PICK wish :
          /\ want' = IF deck.undo \in gone THEN want ELSE [want EXCEPT ![deck.undo] = wish]
          /\ wish = "in"
          /\ odd' = [odd EXCEPT ![deck.undo] = @ \cup Crossing(deck.undo)]
    BY <1>39, <1>0, <2>1 DEF UndoDeck, Place, Wish, Mark
  <2>3. u \in Doomed' <=> u \in Doomed
    BY <2>1, DoomedIs
  <2>4. u = deck.undo => Crossing(u) = {} /\ u \notin Doomed'
    <3>1. odd'[deck.undo] = odd[deck.undo] \cup Crossing(deck.undo)
      BY <2>1, <2>2 DEF InboxTyped, WishesOK
    <3>2. u = deck.undo => Crossing(u) = {}
      BY <1>0, <3>1, CrossingExcuses
    <3> QED
      BY <2>3, <3>2 DEF Crossing
  <2> QED
    BY <1>0, <2>1, <2>2, <2>3, <2>4, PlaceKeeps DEF Placing, Deleting
<1>40. ASSUME NEW t \in Conversations, Arrive(t)
      PROVE  Follows(u)'
  <2>1. odd' = [odd EXCEPT ![t] = @ \cup {"arrived"}]
    BY <1>40 DEF Arrive, Mark
  <2>2. u # t
    BY <1>0, <2>1 DEF InboxTyped, WishesOK, Excuses
  <2>3. UNCHANGED <<view, calls, want, gone, dismissed>> /\ flags'[u].archived = flags[u].archived
    BY <1>40, <2>2 DEF Arrive, list, InboxTyped, ServerOK
  <2> QED
    BY <1>0, <2>3, DoomedIs, FilingFrame DEF FilingUntouched
<1> QED
  BY <1>1, <1>2, <1>3, <1>4, <1>5, <1>6, <1>7, <1>8, <1>9, <1>10, <1>11, <1>12, <1>13, <1>14,
     <1>15, <1>16, <1>17, <1>18, <1>19, <1>20, <1>21, <1>22, <1>23, <1>24, <1>25, <1>26, <1>27,
     <1>28, <1>29, <1>30, <1>31, <1>32, <1>33, <1>34, <1>35, <1>36, <1>37, <1>38, <1>39,
     <1>40 DEF InboxNext, Answers, ListDeeds, ToolbarDeeds, DeckDeeds

LEMMA WishStep ==
    InboxTyped /\ Numbered /\ WishFollows /\ [InboxNext]_inboxVars => WishFollows'
<1> SUFFICES ASSUME InboxTyped, Numbered, WishFollows, [InboxNext]_inboxVars,
                    NEW t \in Conversations, odd'[t] \cap Excuses = {}
             PROVE  Follows(t)'
  BY DEF WishFollows
<1> QED
  BY FollowsStep

-----------------------------------------------------------------------------
InboxInv == InboxTyped /\ Numbered /\ TopFlies /\ FlagFollows /\ WishFollows

LEMMA InboxInvariant == InboxSpec => []InboxInv
<1>1. InboxInit => InboxInv
  BY InitInboxTyped, InitNumbered DEF InboxInv
<1>2. InboxInv /\ [InboxNext]_inboxVars => InboxInv'
  BY InboxTypedStep, NumberedStep, TopFliesStep, FlagStep, WishStep DEF InboxInv
<1> QED
  BY <1>1, <1>2, PTL DEF InboxSpec

(***************************************************************************)
(* The page keeps to its types.                                            *)
(***************************************************************************)
THEOREM PageKeepsTypes == InboxSpec => []PageTypeOK
<1>1. InboxInv => PageTypeOK
  <2> SUFFICES ASSUME InboxTyped PROVE PageTypeOK
    BY DEF InboxInv
  <2>1. \A c \in Slots : calls[c] # Idle =>
          calls[c].kind \in Kinds /\ calls[c].step \in {"asked", "ok", "refused", "lost"}
    BY CallMade DEF Calling
  <2>2. view # Closed =>
          view.thread \in Conversations /\ view.pending \in {"none", "archive", "delete"}
    BY ToolbarShown DEF Opening
  <2>3. deck.cards \in Seq(Conversations) /\ dealt \subseteq Conversations /\ decided \subseteq Conversations
    BY DEF InboxTyped, DeckOK, Decks
  <2> QED
    BY <2>1, <2>2, <2>3 DEF PageTypeOK, InboxTyped, ServerOK, ListOK, Kinds
<1> QED
  BY <1>1, InboxInvariant, PTL

(***************************************************************************)
(* No card leaves the deck undecided, unless it was touched while another  *)
(* card was flying: what the timer of a commit takes off the deck is the   *)
(* card that the commit was about (TriageDeck.tsx).                        *)
(***************************************************************************)
THEOREM NoCardSkipped == InboxSpec => []CardsAreDecided
<1>1. InboxInv => CardsAreDecided
  BY DEF InboxInv, TopFlies, CardsAreDecided
<1> QED
  BY <1>1, InboxInvariant, PTL

(***************************************************************************)
(* The open toolbar shows the flags the server has once no request about   *)
(* one is under way, for any number of threads, toolbars and requests      *)
(* (toggleStar and its like in ThreadActions.tsx).                         *)
(***************************************************************************)
THEOREM ToolbarShowsFlags == InboxSpec => []FlagsAgree
<1>1. InboxInv => FlagsAgree
  <2> SUFFICES ASSUME InboxInv, view # Closed, view.thread \notin gone, NEW f \in Flags,
                      FlagOf(view.thread, f) = {},
                      odd[view.thread] \cap {"flag failed", "flag crossed", "flag elsewhere"} = {}
               PROVE  view[f] = flags[view.thread][f]
    BY DEF FlagsAgree
  <2>1. view.thread \in Conversations
    BY ToolbarShown DEF InboxInv
  <2>2. Shows(view.thread, f)
    BY <2>1 DEF InboxInv, FlagFollows, Unflagged
  <2> QED
    BY <2>2 DEF Shows
<1> QED
  BY <1>1, InboxInvariant, PTL

LEMMA RestingThread ==
    ASSUME InboxInv, NEW t \in Conversations, AtRest(t), odd[t] \cap Excuses = {}
    PROVE  (t \in dismissed => Kept(t)) /\ (CameTrue(t) \/ "refused" \in odd[t])
<1>1. Filing(t) = {}
  BY DEF AtRest, Filing, About, Under, Placing, Idle
<1>2. t \notin Doomed
  BY DEF AtRest
<1> QED
  BY <1>1, <1>2 DEF InboxInv, WishFollows, Follows

(***************************************************************************)
(* A thread at rest is where the user last put it, but for the excuses.    *)
(***************************************************************************)
THEOREM WishesComeTrue == InboxSpec => []LastWishStands
<1>1. InboxInv => LastWishStands
  <2> SUFFICES ASSUME InboxInv, NEW t \in Conversations, AtRest(t),
                      odd[t] \cap (Excuses \cup {"refused"}) = {}
               PROVE  CameTrue(t)
    BY DEF LastWishStands
  <2> QED
    BY RestingThread
<1> QED
  BY <1>1, InboxInvariant, PTL

(***************************************************************************)
(* A thread at rest that the list hides was filed or deleted as the user   *)
(* wished, but for the excuses (DismissedThreadsProvider.tsx).             *)
(***************************************************************************)
THEOREM HiddenWasWished == InboxSpec => []HiddenIsDone
<1>1. InboxInv => HiddenIsDone
  <2> SUFFICES ASSUME InboxInv, NEW t \in listed \cap dismissed, AtRest(t), odd[t] \cap Excuses = {}
               PROVE  want[t] # "nothing" /\ CameTrue(t)
    BY DEF HiddenIsDone
  <2>1. t \in Conversations
    BY DEF InboxInv, InboxTyped, ListOK
  <2> QED
    BY <2>1, RestingThread DEF Kept
<1> QED
  BY <1>1, InboxInvariant, PTL
=============================================================================
