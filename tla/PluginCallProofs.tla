--------------------------- MODULE PluginCallProofs ----------------------------
(* However many calls are under way, however memberships and permissions   *)
(* change beside them, and however often the plugin is activated: only the *)
(* authorized reach the store, a failure of the store keeps its name, no   *)
(* call runs in the store of an activation that has ended, and the tables  *)
(* stay correct.  What the agent tools show their agents follows: an       *)
(* execution of a tool is a call of the plugin.                            *)
EXTENDS AgentTools, PortfolioTablesProofs, TLAPS

-----------------------------------------------------------------------------
(* Types *)

(* A refusal is one of the failures that the store has a name for. *)
LEMMA RefusalIsFailure ==
  ASSUME NEW r
  PROVE  Refusal(r) \in Failures \cup {None}
<1> DEFINE row == initiatives[r.initiative]
           members_ == projects[r.initiative]
<1>1. LockRefusal(r, row) \in Failures \cup {None}
  BY DEF LockRefusal, Failures
<1>2. WriteRefusal(r, row, members_, TakenUpdate(r)) \in Failures \cup {None}
  BY DEF WriteRefusal, AttachRefusal, SnapshotRefusal, DetachRefusal,
         ReorderRefusal, Failures
<1> QED
  BY <1>1, <1>2 DEF Refusal

(* What the caller is told of a failure is an outcome. *)
LEMMA NamedIsOutcome ==
  ASSUME NEW op, NEW why \in Failures
  PROVE  Named(op, why) \in Outcomes
BY DEF Named, Outcomes, Failures

(* What is known of a call stays within its type. *)
LEMMA ObservedType ==
  ASSUME TypeOK, Observe
  PROVE  truths' \in [Calls -> SUBSET {"member", "permitted"}]
<1>1. ASSUME NEW v PROVE Holding(v)' \subseteq {"member", "permitted"}
  BY DEF Holding
<1> QED
  BY <1>1 DEF TypeOK, Observe

(* The part of TypeOK that each call has, for a step that changes c alone. *)
LEMMA OneCallTyped ==
  ASSUME TypeOK, NEW c \in Calls, Observe, UNCHANGED <<services, plugin>>,
         NEW where \in Stages, at' = [at EXCEPT ![c] = where],
         \/ call' = call
         \/ \E v \in Invocations \cup {None} : call' = [call EXCEPT ![c] = v],
         \/ reply' = reply
         \/ \E y \in {None, "yes", "no", "failed"} : reply' = [reply EXCEPT ![c] = y],
         \/ pool' = pool
         \/ \E n \in Nat \cup {None} : pool' = [pool EXCEPT ![c] = n],
         \/ failure' = failure
         \/ \E f \in Failures \cup {None} : failure' = [failure EXCEPT ![c] = f],
         \/ told' = told
         \/ \E o \in Outcomes \cup {None} : told' = [told EXCEPT ![c] = o]
  PROVE  TypeOK'
<1>1. truths' \in [Calls -> SUBSET {"member", "permitted"}]
  BY ObservedType
<1>2. at' \in [Calls -> Stages] /\ call' \in [Calls -> Invocations \cup {None}]
  BY DEF TypeOK
<1>3. reply' \in [Calls -> {None, "yes", "no", "failed"}]
  BY DEF TypeOK
<1>4. pool' \in [Calls -> Nat \cup {None}]
  BY DEF TypeOK
<1>5. failure' \in [Calls -> Failures \cup {None}]
  BY DEF TypeOK
<1>6. told' \in [Calls -> Outcomes \cup {None}]
  BY DEF TypeOK
<1> QED
  BY <1>1, <1>2, <1>3, <1>4, <1>5, <1>6 DEF TypeOK, services, plugin

(* What is sent is an invocation. *)
LEMMA InvokeTyped ==
  ASSUME TypeOK, NEW c \in Calls, Invoke(c)
  PROVE  TypeOK'
<1>1. PICK v \in Invocations : InvokeWith(c, v)
  BY DEF Invoke
<1>2. Refused(v) \in Outcomes \cup {None}
  BY DEF Refused, Outcomes
<1>3. PICK where \in Stages : at' = [at EXCEPT ![c] = where]
  BY <1>1 DEF InvokeWith, Tell, Wait, Stages
<1>4. \/ told' = told
      \/ \E o \in Outcomes \cup {None} : told' = [told EXCEPT ![c] = o]
  BY <1>1, <1>2 DEF InvokeWith, Tell
<1> QED
  BY <1>1, <1>3, <1>4, OneCallTyped DEF InvokeWith

(* A service replies once. *)
LEMMA ReplyTyped ==
  ASSUME TypeOK, NEW c \in Calls,
         MembershipReplies(c) \/ AccessReplies(c) \/ ServiceFails(c)
  PROVE  TypeOK'
<1>1. at[c] \in Stages /\ at' = [at EXCEPT ![c] = at[c]]
  BY DEF MembershipReplies, AccessReplies, ServiceFails, Reply, TypeOK
<1>2. \E y \in {None, "yes", "no", "failed"} : reply' = [reply EXCEPT ![c] = y]
  BY DEF MembershipReplies, AccessReplies, ServiceFails, Reply
<1> QED
  BY <1>1, <1>2, OneCallTyped
  DEF MembershipReplies, AccessReplies, ServiceFails, Reply

(* A handler that goes on takes the pool that is prepared. *)
LEMMA CheckTyped ==
  ASSUME TypeOK, NEW c \in Calls, CheckMembership(c) \/ CheckAccess(c)
  PROVE  TypeOK'
<1>1. reply[c] \in {"yes", "no", "failed"}
  BY DEF TypeOK, CheckMembership, CheckAccess
<1>2. /\ \E where \in Stages : at' = [at EXCEPT ![c] = where]
      /\ \/ told' = told
         \/ \E o \in Outcomes \cup {None} : told' = [told EXCEPT ![c] = o]
  <2>1. CASE CheckMembership(c)
    BY <1>1, <2>1 DEF CheckMembership, Tell, Wait, Stages, Outcomes
  <2>2. CASE CheckAccess(c)
    BY <1>1, <2>2 DEF CheckAccess, Tell, Wait, Stages, Outcomes, Failures
  <2> QED
    BY <2>1, <2>2
<1>3. /\ reply' = [reply EXCEPT ![c] = None]
      /\ UNCHANGED <<services, plugin, call, failure>>
      /\ Observe
  BY DEF CheckMembership, CheckAccess
<1>4. prepared \in Nat \cup {None}
  BY DEF TypeOK
<1>5. \/ pool' = pool
      \/ \E n \in Nat \cup {None} : pool' = [pool EXCEPT ![c] = n]
  BY <1>1, <1>4 DEF CheckMembership, CheckAccess, Decision
<1>6. PICK where \in Stages : at' = [at EXCEPT ![c] = where]
  BY <1>2
<1> QED
  BY <1>2, <1>3, <1>5, <1>6, OneCallTyped

(* A connection is given, or the call fails. *)
LEMMA ConnectTyped ==
  ASSUME TypeOK, NEW c \in Calls, Connect(c)
  PROVE  TypeOK'
<1>1. PICK where \in Stages : at' = [at EXCEPT ![c] = where]
  BY DEF Connect, Tell, Wait, Stages
<1>2. \/ told' = told
      \/ \E o \in Outcomes \cup {None} : told' = [told EXCEPT ![c] = o]
  BY DEF Connect, Tell, Wait, Outcomes
<1> QED
  BY <1>1, <1>2, OneCallTyped DEF Connect

(* What a store's step does to the call that takes it. *)
LEMMA StoreSteps ==
  ASSUME NEW c \in Calls, RunCommand(c) \/ RunRead(c)
  PROVE  /\ at[c] = "store"
         /\ UNCHANGED <<services, plugin, call, reply, pool>>
         /\ Observe
         /\ \/ /\ at' = [at EXCEPT ![c] = "return"]
               /\ failure' = failure
               /\ \E o \in {"ok", "Runtime"} : told' = [told EXCEPT ![c] = o]
            \/ /\ at' = [at EXCEPT ![c] = "connection"]
               /\ failure' = failure
               /\ told' = told
            \/ \E why \in Failures : StoreRefuses(c, why)
<1>1. CASE RunCommand(c)
  <2> DEFINE r == Scoped(call[c])
  <2>1. Refusal(r) # None => Refusal(r) \in Failures
    BY RefusalIsFailure
  <2>2. {"IdempotencyConflict", "OperationInProgress"} \subseteq Failures
    BY DEF Failures
  <2>3. \/ Refusal(r) # None /\ StoreRefuses(c, Refusal(r))
        \/ StoreRefuses(c, "IdempotencyConflict")
        \/ StoreRefuses(c, "OperationInProgress")
        \/ /\ at' = [at EXCEPT ![c] = "return"]
           /\ failure' = failure
           /\ \E o \in {"ok", "Runtime"} : told' = [told EXCEPT ![c] = o]
    BY <1>1 DEF RunCommand, Tell, Wait
  <2> QED
    BY <1>1, <2>1, <2>2, <2>3 DEF RunCommand
<1>2. CASE RunRead(c)
  BY <1>2 DEF RunRead, Tell, Wait, Failures
<1> QED
  BY <1>1, <1>2

(* The store answers with an outcome. *)
LEMMA StoreTyped ==
  ASSUME TypeOK, NEW c \in Calls, RunCommand(c) \/ RunRead(c)
  PROVE  TypeOK'
<1>1. PICK where \in Stages : at' = [at EXCEPT ![c] = where]
  BY StoreSteps DEF StoreRefuses, Tell, Wait, Stages
<1>2. \/ told' = told
      \/ \E o \in Outcomes \cup {None} : told' = [told EXCEPT ![c] = o]
  BY StoreSteps, NamedIsOutcome DEF StoreRefuses, Tell, Outcomes
<1>3. \/ failure' = failure
      \/ \E f \in Failures \cup {None} : failure' = [failure EXCEPT ![c] = f]
  BY StoreSteps DEF StoreRefuses
<1> QED
  BY <1>1, <1>2, <1>3, StoreSteps, OneCallTyped

(* What is left of dropped handlers is typed. *)
LEMMA ForgetTyped ==
  ASSUME TypeOK, NEW cs, NEW left, Forget(cs, left)
  PROVE  /\ at' \in [Calls -> Stages]
         /\ call' \in [Calls -> Invocations \cup {None}]
         /\ reply' \in [Calls -> {None, "yes", "no", "failed"}]
         /\ failure' \in [Calls -> Failures \cup {None}]
         /\ told' \in [Calls -> Outcomes \cup {None}]
BY DEF TypeOK, Forget, Stages

(* So is what happens beside the calls. *)
LEMMA AsideTyped ==
  ASSUME TypeOK,
         \/ ChangeMembership \/ ChangeGrant
         \/ BeginActivation \/ ActivationFails \/ Activate
         \/ Deactivate \/ Closed
  PROVE  TypeOK'
<1>1. truths' \in [Calls -> SUBSET {"member", "permitted"}]
  BY ObservedType
  DEF ChangeMembership, ChangeGrant, BeginActivation, ActivationFails, Activate,
      Deactivate, Closed
<1>2. CASE ChangeMembership \/ ChangeGrant
  BY <1>1, <1>2 DEF TypeOK, ChangeMembership, ChangeGrant, plugin
<1>3. CASE Activate
  BY <1>1, <1>3, NoneIsNotSent DEF TypeOK, Activate, services
<1>4. CASE Deactivate
  BY <1>1, <1>4, NoneIsNotSent DEF TypeOK, Deactivate, services
<1>5. CASE BeginActivation \/ ActivationFails \/ Closed
  BY <1>1, <1>5 DEF TypeOK, BeginActivation, ActivationFails, Closed, services
<1> QED
  BY <1>2, <1>3, <1>4, <1>5

(* Every step keeps the types. *)
LEMMA NextTyped ==
  ASSUME TypeOK, [Next]_vars
  PROVE  TypeOK'
<1>1. ASSUME NEW c \in Calls, Leave(c) PROVE TypeOK'
  <2>1. truths' \in [Calls -> SUBSET {"member", "permitted"}]
    BY <1>1, ObservedType DEF Leave
  <2>2. pool' \in [Calls -> Nat \cup {None}]
    BY <1>1 DEF Leave, TypeOK
  <2> QED
    BY <1>1, <2>1, <2>2, ForgetTyped DEF Leave, TypeOK, services, plugin
<1>2. CASE Crash
  <2>1. truths' \in [Calls -> SUBSET {"member", "permitted"}]
    BY <1>2, ObservedType DEF Crash
  <2> QED
    BY <1>2, <2>1, ForgetTyped DEF Crash, TypeOK, services
<1>3. ASSUME NEW c \in Calls, EndAbandoned(c) PROVE TypeOK'
  <2>1. truths' \in [Calls -> SUBSET {"member", "permitted"}]
    BY <1>3, ObservedType DEF EndAbandoned
  <2>2. pool' \in [Calls -> Nat \cup {None}]
    BY <1>3 DEF EndAbandoned, TypeOK
  <2> QED
    BY <1>3, <2>1, <2>2, ForgetTyped DEF EndAbandoned, TypeOK, services, plugin
<1>4. CASE UNCHANGED vars
  BY <1>4 DEF TypeOK, vars, services, plugin, calls
<1> QED
  BY <1>1, <1>2, <1>3, <1>4, InvokeTyped, ReplyTyped, CheckTyped, ConnectTyped,
     StoreTyped, AsideTyped
  DEF Next, Run

(* The types of the calls and of the plugin's pools hold in every state;   *)
(* among them that handlers only ever take a pool that is open             *)
(* (prepared, activate and deactivate).                                    *)
THEOREM Typing == Spec => []TypeOK
<1>1. Init => TypeOK
  BY DEF Init, TypeOK, Stages
<1> QED
  BY <1>1, NextTyped, PTL DEF Spec

-----------------------------------------------------------------------------
(* Authorization *)

(* What a call has shown by the time it waits for something.  A reply is   *)
(* a claim too: what it says was true when it was given.                   *)
Shows(c) ==
  /\ reply[c] # None => at[c] \in {"membership", "access"}
  /\ at[c] # "idle" => call[c] \in Invocations
  /\ at[c] \in {"membership", "access", "connection", "store", "abandoned"} =>
       Refused(call[c]) = None
  /\ \/ at[c] = "membership" /\ reply[c] = "yes"
     \/ at[c] \in {"access", "connection", "store", "abandoned"}
     => "member" \in truths[c]
  /\ \/ at[c] = "access" /\ reply[c] = "yes"
     \/ at[c] \in {"connection", "store", "abandoned"}
     => "permitted" \in truths[c]
  /\ at[c] = "return" /\ told[c] \notin Silence => Authorized(c)

Shown == TypeOK /\ \A c \in Calls : Shows(c)

(* While a call lasts, what was true of it is not forgotten. *)
LEMMA TruthsGrow ==
  ASSUME Shown, Observe, NEW c \in Calls, at[c] # "idle", call' = call
  PROVE  truths'[c] = truths[c] \cup Holding(call[c])'
BY NoneIsNotSent DEF Shown, Shows, Observe

(* A step that leaves c to itself leaves it with what it has shown. *)
LEMMA ShowsOn ==
  ASSUME Shown, Observe, NEW c \in Calls,
         at'[c] = at[c], call'[c] = call[c], reply'[c] = reply[c],
         told'[c] = told[c]
  PROVE  Shows(c)'
<1>1. at[c] # "idle" => truths[c] \subseteq truths'[c]
  BY NoneIsNotSent DEF Observe, Shown, Shows
<1>2. Refused(call[c])' = Refused(call[c])
  BY DEF Refused
<1>3. Authorized(c) /\ at[c] # "idle" => Authorized(c)'
  BY <1>1 DEF Authorized
<1> QED
  BY <1>1, <1>2, <1>3 DEF Shown, Shows

(* Who is not refused is a caller of the list, asserted for the operation. *)
LEMMA AdmittedIsAuthorized ==
  ASSUME NEW c \in Calls, Refused(call[c]) = None,
         {"member", "permitted"} \subseteq truths[c]
  PROVE  Authorized(c)
BY NoneIsNotSent DEF Refused, Authorized

(* Who is not refused has named a caller and an assertion that fit. *)
LEMMA InvokeShows ==
  ASSUME Shown, NEW c \in Calls, Invoke(c)
  PROVE  Shows(c)'
<1>1. PICK v \in Invocations : InvokeWith(c, v)
  BY DEF Invoke
<1>2. call'[c] = v /\ reply'[c] = None
  BY <1>1 DEF InvokeWith, Shown, Shows, TypeOK
<1>3. Refused(v)' = Refused(v)
  BY DEF Refused
<1>4. CASE Refused(v) = None
  <2>1. at'[c] = "membership"
    BY <1>1, <1>4 DEF InvokeWith, Wait, Shown, TypeOK
  <2> QED
    BY <1>2, <1>3, <1>4, <2>1, NoneIsNotSent DEF Shows
<1>5. CASE Refused(v) # None
  <2>1. at'[c] = "return" /\ told'[c] = Refused(v)
    BY <1>1, <1>5 DEF InvokeWith, Tell, Wait, Shown, TypeOK
  <2>2. Refused(v) \in Silence
    BY <1>5 DEF Refused, Silence
  <2> QED
    BY <1>2, <2>1, <2>2 DEF Shows
<1> QED
  BY <1>4, <1>5

(* A yes is a fact at the moment of the reply. *)
LEMMA ReplyShows ==
  ASSUME Shown, NEW c \in Calls,
         MembershipReplies(c) \/ AccessReplies(c) \/ ServiceFails(c)
  PROVE  Shows(c)'
<1>1. /\ at[c] \in {"membership", "access"}
      /\ UNCHANGED <<services, at, call, told>>
      /\ Observe
  BY DEF MembershipReplies, AccessReplies, ServiceFails, Reply
<1>2. call[c] \in Invocations /\ Refused(call[c]) = None
  BY <1>1 DEF Shown, Shows
<1>3. call[c].assertion # None
  BY <1>2, NoneIsNotSent DEF Refused
<1>4. truths'[c] = truths[c] \cup Holding(call[c])'
  BY <1>1, TruthsGrow
<1>5. at[c] = "membership" /\ reply'[c] = "yes" => "member" \in truths'[c]
  <2> SUFFICES ASSUME at[c] = "membership", reply'[c] = "yes"
               PROVE  "member" \in truths'[c]
    OBVIOUS
  <2>1. IsMember(call[c])
    BY DEF MembershipReplies, AccessReplies, ServiceFails, Reply, Shown, TypeOK
  <2>2. IsMember(call[c])'
    BY <1>1, <2>1 DEF IsMember, services
  <2> QED
    BY <1>1, <1>2, <1>3, <1>4, <2>2, NoneIsNotSent DEF Holding
<1>6. at[c] = "access" /\ reply'[c] = "yes" => "permitted" \in truths'[c]
  <2> SUFFICES ASSUME at[c] = "access", reply'[c] = "yes"
               PROVE  "permitted" \in truths'[c]
    OBVIOUS
  <2>1. IsPermitted(call[c])
    BY DEF MembershipReplies, AccessReplies, ServiceFails, Reply, Shown, TypeOK
  <2>2. IsPermitted(call[c])'
    BY <1>1, <2>1 DEF IsPermitted, services
  <2> QED
    BY <1>1, <1>2, <1>3, <1>4, <2>2, NoneIsNotSent DEF Holding
<1>7. Refused(call[c])' = None
  BY <1>1, <1>2 DEF Refused
<1> QED
  BY <1>1, <1>2, <1>4, <1>5, <1>6, <1>7 DEF Shown, Shows

(* Who goes on has a reply that was true when it was given. *)
LEMMA CheckShows ==
  ASSUME Shown, NEW c \in Calls, CheckMembership(c) \/ CheckAccess(c)
  PROVE  Shows(c)'
<1>1. /\ at[c] \in {"membership", "access"}
      /\ reply[c] \in {"yes", "no", "failed"}
      /\ reply'[c] = None
      /\ call' = call
      /\ Observe
  BY DEF CheckMembership, CheckAccess, Shown, TypeOK
<1>2. call[c] \in Invocations /\ Refused(call[c]) = None
  BY <1>1 DEF Shown, Shows
<1>3. Refused(call[c])' = None
  BY <1>1, <1>2 DEF Refused
<1>4. truths[c] \subseteq truths'[c]
  BY <1>1, TruthsGrow
<1>5. CASE CheckMembership(c)
  <2>1. \/ reply[c] = "yes" /\ at'[c] = "access"
        \/ at'[c] = "return" /\ told'[c] \in Silence
    BY <1>1, <1>5 DEF CheckMembership, Tell, Wait, Silence, Shown, TypeOK
  <2>2. reply[c] = "yes" => "member" \in truths[c]
    BY <1>5 DEF CheckMembership, Shown, Shows
  <2> QED
    BY <1>1, <1>2, <1>3, <1>4, <2>1, <2>2, NoneIsNotSent DEF Shows
<1>6. CASE CheckAccess(c)
  <2>1. "member" \in truths[c]
    BY <1>6 DEF CheckAccess, Shown, Shows
  <2>2. \/ reply[c] = "yes" /\ at'[c] \in {"connection", "return"}
        \/ at'[c] = "return" /\ told'[c] \in Silence
    BY <1>1, <1>6
    DEF CheckAccess, Decision, Tell, Wait, Silence, Shown, TypeOK
  <2>3. reply[c] = "yes" => "permitted" \in truths[c]
    BY <1>6 DEF CheckAccess, Shown, Shows
  <2>4. reply[c] = "yes" => Authorized(c)'
    <3>1. reply[c] = "yes" => Authorized(c)
      BY <1>2, <2>1, <2>3, AdmittedIsAuthorized
    <3> QED
      BY <1>1, <1>4, <3>1 DEF Authorized
  <2> QED
    BY <1>1, <1>2, <1>3, <1>4, <2>1, <2>2, <2>3, <2>4 DEF Shows
<1> QED
  BY <1>5, <1>6

(* Past the services, a call stays authorized whatever they say by then. *)
LEMMA RunShows ==
  ASSUME Shown, NEW c \in Calls, Connect(c) \/ RunCommand(c) \/ RunRead(c)
  PROVE  Shows(c)'
<1>1. /\ at[c] \in {"connection", "store"}
      /\ UNCHANGED <<call, reply>>
      /\ Observe
  BY StoreSteps DEF Connect
<1>2. at'[c] \in {"connection", "store", "return"}
  BY StoreSteps DEF Connect, StoreRefuses, Tell, Wait, Shown, TypeOK
<1>3. call[c] \in Invocations /\ Refused(call[c]) = None /\ reply[c] = None
  BY <1>1 DEF Shown, Shows
<1>4. Refused(call[c])' = None
  BY <1>1, <1>3 DEF Refused
<1>5. {"member", "permitted"} \subseteq truths[c] /\ truths[c] \subseteq truths'[c]
  BY <1>1, TruthsGrow DEF Shown, Shows
<1>6. Authorized(c)'
  BY <1>1, <1>3, <1>5, AdmittedIsAuthorized DEF Authorized
<1> QED
  BY <1>1, <1>2, <1>3, <1>4, <1>5, <1>6 DEF Shows

(* A call that is forgotten has nothing to show, an abandoned one what it  *)
(* had shown in the store.                                                 *)
LEMMA ForgottenShows ==
  ASSUME Shown, Observe, NEW cs, NEW left, left \subseteq cs, Forget(cs, left),
         \A d \in left : d \in Calls /\ at[d] \in {"store", "abandoned"},
         NEW c \in Calls
  PROVE  Shows(c)'
<1>1. CASE c \in left
  <2>1. /\ at[c] \in {"store", "abandoned"} /\ at'[c] = "abandoned"
        /\ call'[c] = call[c] /\ reply'[c] = None
    BY <1>1 DEF Forget
  <2>2. /\ call[c] \in Invocations /\ Refused(call[c]) = None
        /\ {"member", "permitted"} \subseteq truths[c]
    BY <2>1 DEF Shown, Shows
  <2>3. Refused(call[c])' = None
    BY <2>1, <2>2 DEF Refused
  <2>4. truths[c] \subseteq truths'[c]
    BY <2>1, <2>2, NoneIsNotSent DEF Observe
  <2> QED
    BY <2>1, <2>2, <2>3, <2>4 DEF Shows
<1>2. CASE c \in cs \ left
  BY <1>2 DEF Forget, Shows
<1>3. CASE c \notin cs
  BY <1>3, ShowsOn DEF Forget
<1> QED
  BY <1>1, <1>2, <1>3

(* Without a call there is nothing to show. *)
LEMMA InitShown == Init => Shown
BY DEF Init, Shown, Shows, TypeOK, Stages

(* Every step keeps what the calls have shown. *)
LEMMA NextShows ==
  ASSUME Shown, [Next]_vars
  PROVE  Shown'
<1>1. ASSUME NEW c \in Calls, NEW d \in Calls,
             \/ Invoke(c) \/ Run(c)
             \/ MembershipReplies(c) \/ AccessReplies(c) \/ ServiceFails(c)
      PROVE  Shows(d)'
  <2>1. CASE d = c
    BY <1>1, <2>1, InvokeShows, ReplyShows, CheckShows, RunShows DEF Run
  <2>2. CASE d # c
    <3>1. Observe
      BY <1>1, StoreSteps
      DEF Invoke, InvokeWith, Run, CheckMembership, CheckAccess, Connect,
          MembershipReplies, AccessReplies, ServiceFails, Reply
    <3>2. CASE Invoke(c)
      BY <2>2, <3>1, <3>2, ShowsOn
      DEF Invoke, InvokeWith, Tell, Wait, Shown, TypeOK
    <3>3. CASE MembershipReplies(c) \/ AccessReplies(c) \/ ServiceFails(c)
      BY <2>2, <3>1, <3>3, ShowsOn
      DEF MembershipReplies, AccessReplies, ServiceFails, Reply, Shown, TypeOK
    <3>4. CASE CheckMembership(c)
      <4>1. reply[c] \in {"yes", "no", "failed"}
        BY <3>4 DEF CheckMembership, Shown, TypeOK
      <4> QED
        BY <2>2, <3>1, <3>4, <4>1, ShowsOn
        DEF CheckMembership, Tell, Wait, Shown, TypeOK
    <3>5. CASE CheckAccess(c)
      <4>1. reply[c] \in {"yes", "no", "failed"}
        BY <3>5 DEF CheckAccess, Shown, TypeOK
      <4> QED
        BY <2>2, <3>1, <3>5, <4>1, ShowsOn
        DEF CheckAccess, Decision, Tell, Wait, Shown, TypeOK
    <3>6. CASE Connect(c)
      BY <2>2, <3>1, <3>6, ShowsOn DEF Connect, Tell, Wait, Shown, TypeOK
    <3>7. CASE RunCommand(c) \/ RunRead(c)
      BY <2>2, <3>1, <3>7, StoreSteps, ShowsOn
      DEF StoreRefuses, Tell, Wait, Shown, TypeOK
    <3> QED
      BY <1>1, <3>2, <3>3, <3>4, <3>5, <3>6, <3>7 DEF Run
  <2> QED
    BY <2>1, <2>2
<1>2. ASSUME NEW c \in Calls, Leave(c), NEW d \in Calls PROVE Shows(d)'
  BY <1>2, ForgottenShows DEF Leave, UnderWay
<1>3. ASSUME Crash, NEW d \in Calls PROVE Shows(d)'
  BY <1>3, ForgottenShows DEF Crash, UnderWay
<1>4. ASSUME NEW c \in Calls, EndAbandoned(c), NEW d \in Calls PROVE Shows(d)'
  BY <1>4, ForgottenShows DEF EndAbandoned
<1>5. ASSUME \/ ChangeMembership \/ ChangeGrant
             \/ BeginActivation \/ ActivationFails \/ Activate
             \/ Deactivate \/ Closed,
             NEW d \in Calls
      PROVE  Shows(d)'
  BY <1>5, ShowsOn
  DEF ChangeMembership, ChangeGrant, BeginActivation, ActivationFails, Activate,
      Deactivate, Closed
<1>6. ASSUME UNCHANGED vars, NEW d \in Calls PROVE Shows(d)'
  BY <1>6 DEF Shown, Shows, vars, calls, Refused, Authorized
<1>7. TypeOK'
  BY NextTyped DEF Shown
<1> QED
  BY <1>1, <1>2, <1>3, <1>4, <1>5, <1>6, <1>7 DEF Next, Shown

(* A call that reaches the store, or learns more than a refusal, is from a *)
(* listed caller and asserted for this operation, and its actor has been a *)
(* member with the permission while it ran (authorize).                    *)
THEOREM Authorization == Spec => []OnlyTheAuthorized
<1>1. Shown => OnlyTheAuthorized
  BY AdmittedIsAuthorized DEF Shown, Shows, OnlyTheAuthorized
<1> QED
  BY <1>1, InitShown, NextShows, PTL DEF Spec

-----------------------------------------------------------------------------
(* Failures and their names *)

(* The operation that the store runs is the one that was called. *)
LEMMA ScopedOp ==
  ASSUME NEW v \in Invocations, v.request.op \in Operations
  PROVE  Scoped(v).op = v.request.op
<1>1. v.request \in Requests \cup ReadRequest
  BY InvocationsAreTyped DEF Invocation
<1>2. v.request \notin ReadRequest
  BY DEF ReadRequest, Reads, Operations
<1>3. v.request \in Request
  BY <1>1, <1>2, RequestsAreTyped
<1>4. Scoped(v) = [v.request EXCEPT !.scope = <<v.caller, v.assertion.subject>>]
  BY DEF Scoped
<1> QED
  BY <1>3, <1>4
  DEF Request, CreateRequest, UpdateRequest, AddUpdateRequest, ArchiveRequest,
      AttachRequest, SnapshotRequest, DetachRequest, ReorderRequest

(* Each command is refused in ways that its error type has a name for. *)
LEMMA RefusalsAreNamed ==
  ASSUME NEW r, r.op \in Operations, Refusal(r) # None
  PROVE  Named(r.op, Refusal(r)) = Refusal(r)
<1> DEFINE row == initiatives[r.initiative]
           members_ == projects[r.initiative]
           write == WriteRefusal(r, row, members_, TakenUpdate(r))
           lock == LockRefusal(r, row)
<1>1. lock \in {"NotFound", "Archived", "RevisionConflict", None}
  BY DEF LockRefusal
<1>2. Refusal(r) \in {lock, write}
  BY DEF Refusal
<1>3. CASE r.op \in {"create_initiative", "update_initiative", "add_initiative_update"}
  <2>1. write \in {"AlreadyExists", None}
    BY <1>3 DEF WriteRefusal
  <2>2. HandlerOf(r.op).named = PortfolioNamed
    BY <1>3
    DEF HandlerOf, Handler, create_initiative, update_initiative,
        add_initiative_update
  <2> QED
    BY <1>1, <1>2, <2>1, <2>2 DEF Named, PortfolioNamed
<1>4. CASE r.op \in {"archive_initiative", "attach_project",
                    "update_project_snapshot", "detach_project",
                    "reorder_projects"}
  <2>1. write \in {"AlreadyAttached", "NotAttached", "PositionConflict",
                   "RevisionConflict", "InvalidRequest", None}
    BY <1>4
    DEF WriteRefusal, AttachRefusal, SnapshotRefusal, DetachRefusal, ReorderRefusal
  <2>2. HandlerOf(r.op).named = AdminNamed
    BY <1>4
    DEF HandlerOf, Handler, archive_initiative, attach_project,
        update_project_snapshot, detach_project, reorder_projects
  <2> QED
    BY <1>1, <1>2, <2>1, <2>2 DEF Named, AdminNamed
<1> QED
  BY <1>3, <1>4 DEF Operations

(* Every error type names what a receipt refuses, and what a read misses. *)
LEMMA OthersAreNamed ==
  /\ \A op \in Operations : \A why \in {"IdempotencyConflict", "OperationInProgress"} :
       Named(op, why) = why
  /\ \A op \in Reads : Named(op, "NotFound") = "NotFound"
<1>1. \A op \in Operations : HandlerOf(op).named \in {PortfolioNamed, AdminNamed}
  BY DEF Operations, HandlerOf, Handler, create_initiative, update_initiative,
         add_initiative_update, archive_initiative, attach_project,
         update_project_snapshot, detach_project, reorder_projects
<1>2. \A op \in Reads : HandlerOf(op).named = ReadNamed
  BY DEF Reads, HandlerOf, Handler, get_initiative, list_initiatives,
         list_initiative_projects, list_initiative_updates, read_rollup
<1> QED
  BY <1>1, <1>2 DEF Named, PortfolioNamed, AdminNamed, ReadNamed

KeepsName(c) == failure[c] # None => at[c] = "return" /\ told[c] = failure[c]

(* The handler has a name for what the store returns. *)
LEMMA StoreKeepsName ==
  ASSUME Shown, NEW c \in Calls, KeepsName(c), RunCommand(c) \/ RunRead(c)
  PROVE  KeepsName(c)'
<1>1. at[c] = "store" /\ failure[c] = None /\ call[c] \in Invocations
  BY DEF RunCommand, RunRead, KeepsName, Shown, Shows
<1>2. ASSUME NEW why, StoreRefuses(c, why), Named(call[c].request.op, why) = why
      PROVE  KeepsName(c)'
  BY <1>2 DEF StoreRefuses, Tell, Wait, KeepsName, Shown, TypeOK
<1>3. failure' = failure => KeepsName(c)'
  BY <1>1 DEF KeepsName
<1>4. CASE RunCommand(c)
  <2> DEFINE r == Scoped(call[c])
  <2>1. call[c].request.op \in Operations /\ r.op = call[c].request.op
    BY <1>1, <1>4, ScopedOp DEF RunCommand
  <2>2. Refusal(r) # None => Named(call[c].request.op, Refusal(r)) = Refusal(r)
    BY <2>1, RefusalsAreNamed
  <2>3. \/ Refusal(r) # None /\ StoreRefuses(c, Refusal(r))
        \/ StoreRefuses(c, "IdempotencyConflict")
        \/ StoreRefuses(c, "OperationInProgress")
        \/ failure' = failure
    BY <1>4 DEF RunCommand
  <2> QED
    BY <1>2, <1>3, <2>1, <2>2, <2>3, OthersAreNamed
<1>5. CASE RunRead(c)
  <2>1. call[c].request.op \in Reads
    BY <1>5 DEF RunRead
  <2>2. StoreRefuses(c, "NotFound") \/ failure' = failure
    BY <1>5 DEF RunRead
  <2> QED
    BY <1>2, <1>3, <2>1, <2>2, OthersAreNamed
<1> QED
  BY <1>4, <1>5

(* The other steps of a call name no failure, and end none but the call's. *)
LEMMA OthersKeepName ==
  ASSUME Shown, \A c \in Calls : KeepsName(c), [Next]_vars,
         NEW d \in Calls, ~RunCommand(d), ~RunRead(d)
  PROVE  KeepsName(d)'
<1>1. ASSUME NEW c \in Calls, c # d, RunCommand(c) \/ RunRead(c)
      PROVE  KeepsName(d)'
  <2>1. at'[d] = at[d] /\ failure'[d] = failure[d] /\ told'[d] = told[d]
    BY <1>1, StoreSteps DEF StoreRefuses, Tell, Wait, Shown, TypeOK
  <2> QED
    BY <2>1 DEF KeepsName
<1>2. ASSUME NEW c \in Calls, at[c] # "return", failure' = failure,
             \A e \in Calls : e # c => at'[e] = at[e] /\ told'[e] = told[e]
      PROVE  KeepsName(d)'
  BY <1>2 DEF KeepsName
<1>3. ASSUME NEW c \in Calls, Invoke(c) PROVE KeepsName(d)'
  BY <1>2, <1>3 DEF Invoke, InvokeWith, Tell, Wait, Shown, TypeOK
<1>4. ASSUME NEW c \in Calls,
             MembershipReplies(c) \/ AccessReplies(c) \/ ServiceFails(c)
      PROVE  KeepsName(d)'
  BY <1>4 DEF MembershipReplies, AccessReplies, ServiceFails, Reply, KeepsName
<1>5. ASSUME NEW c \in Calls, CheckMembership(c) PROVE KeepsName(d)'
  <2>1. reply[c] \in {"yes", "no", "failed"}
    BY <1>5 DEF CheckMembership, Shown, TypeOK
  <2> QED
    BY <1>2, <1>5, <2>1 DEF CheckMembership, Tell, Wait, Shown, TypeOK
<1>6. ASSUME NEW c \in Calls, CheckAccess(c) PROVE KeepsName(d)'
  <2>1. reply[c] \in {"yes", "no", "failed"}
    BY <1>6 DEF CheckAccess, Shown, TypeOK
  <2> QED
    BY <1>2, <1>6, <2>1 DEF CheckAccess, Decision, Tell, Wait, Shown, TypeOK
<1>7. ASSUME NEW c \in Calls, Connect(c) PROVE KeepsName(d)'
  BY <1>2, <1>7 DEF Connect, Tell, Wait, Shown, TypeOK
<1>8. ASSUME NEW cs, NEW left, left \subseteq cs, Forget(cs, left)
      PROVE  KeepsName(d)'
  BY <1>8 DEF Forget, KeepsName
<1>9. ASSUME UNCHANGED <<at, failure, told>> PROVE KeepsName(d)'
  BY <1>9 DEF KeepsName
<1>10. \/ ChangeMembership \/ ChangeGrant
       \/ BeginActivation \/ ActivationFails \/ Activate
       \/ Deactivate \/ Closed \/ UNCHANGED vars
       => KeepsName(d)'
  BY <1>9
  DEF ChangeMembership, ChangeGrant, BeginActivation, ActivationFails, Activate,
      Deactivate, Closed, vars, calls
<1>11. ASSUME NEW c \in Calls, Leave(c) \/ EndAbandoned(c) PROVE KeepsName(d)'
  BY <1>8, <1>11 DEF Leave, EndAbandoned
<1>12. Crash => KeepsName(d)'
  BY <1>8 DEF Crash
<1> QED
  BY <1>1, <1>3, <1>4, <1>5, <1>6, <1>7, <1>10, <1>11, <1>12
  DEF Next, Run

Kept == Shown /\ \A c \in Calls : KeepsName(c)

(* No store has failed yet. *)
LEMMA InitKept == Init => Kept
BY DEF Init, Kept, Shown, Shows, TypeOK, Stages, KeepsName

(* Every step keeps the names of failures. *)
LEMMA NextKept == Kept /\ [Next]_vars => Kept'
BY NextShows, StoreKeepsName, OthersKeepName DEF Kept

(* A failure of the store reaches the caller under its own name, through   *)
(* portfolio_error, read_error or admin_error.                             *)
THEOREM Naming == Spec => []FailuresKeepTheirNames
<1>1. Init => Kept
  BY InitKept
<1>2. Kept => FailuresKeepTheirNames
  BY DEF Kept, KeepsName, FailuresKeepTheirNames
<1> QED
  BY <1>1, <1>2, NextKept, PTL DEF Spec

-----------------------------------------------------------------------------
(* Activations *)

(* A pool that is open is that of the activation that runs. *)
LEMMA OpenPools ==
  ASSUME TypeOK, NEW n \in open
  PROVE  n = activation /\ lifecycle = "active"
BY NoneIsNotSent DEF TypeOK

(* A call that has a connection, and what that means for the activation. *)
Connected(c) == at[c] = "store" \/ (at[c] = "abandoned" /\ pool[c] # None)
OfThisActivation(c) ==
  pool[c] = activation /\ lifecycle \in {"active", "closing"}

(* A step that takes none of the calls to the store keeps them in it. *)
LEMMA ConnectedOn ==
  ASSUME NoStoreAfterDeactivation, UNCHANGED plugin, NEW d \in Calls,
         pool'[d] = pool[d], at'[d] = "store" => at[d] = "store",
         at'[d] = "abandoned" => at[d] \in {"store", "abandoned"},
         Connected(d)'
  PROVE  OfThisActivation(d)'
BY DEF NoStoreAfterDeactivation, Connected, OfThisActivation, plugin

(* A call that is in the store is in that of the activation that lasts. *)
LEMMA NextEnds ==
  ASSUME TypeOK, NoStoreAfterDeactivation, [Next]_vars, NEW d \in Calls,
         Connected(d)'
  PROVE  OfThisActivation(d)'
<1>1. ASSUME NEW c \in Calls, Connect(c) PROVE OfThisActivation(d)'
  <2>1. CASE at'[d] = "store" /\ at[d] # "store"
    <3>1. d = c /\ pool[c] \in open
      BY <1>1, <2>1 DEF Connect, Tell, Wait, TypeOK
    <3> QED
      BY <1>1, <3>1, OpenPools DEF Connect, plugin, OfThisActivation
  <2>2. CASE ~(at'[d] = "store" /\ at[d] # "store")
    <3>1. at'[d] = "abandoned" => at[d] = "abandoned"
      BY <1>1 DEF Connect, Tell, Wait, TypeOK
    <3> QED
      BY <1>1, <2>2, <3>1, ConnectedOn DEF Connect
  <2> QED
    BY <2>1, <2>2
<1>2. ASSUME NEW c \in Calls, Invoke(c) PROVE OfThisActivation(d)'
  BY <1>2, ConnectedOn DEF Invoke, InvokeWith, Tell, Wait, TypeOK
<1>3. ASSUME NEW c \in Calls, CheckMembership(c) PROVE OfThisActivation(d)'
  <2>1. reply[c] \in {"yes", "no", "failed"}
    BY <1>3 DEF CheckMembership, TypeOK
  <2> QED
    BY <1>3, <2>1, ConnectedOn DEF CheckMembership, Tell, Wait, TypeOK
<1>4. ASSUME NEW c \in Calls,
             MembershipReplies(c) \/ AccessReplies(c) \/ ServiceFails(c)
      PROVE  OfThisActivation(d)'
  BY <1>4, ConnectedOn DEF MembershipReplies, AccessReplies, ServiceFails, Reply
<1>5. ASSUME NEW c \in Calls, CheckAccess(c) PROVE OfThisActivation(d)'
  <2>1. reply[c] \in {"yes", "no", "failed"}
    BY <1>5 DEF CheckAccess, TypeOK
  <2>2. /\ at'[c] \in {"connection", "return"}
        /\ d # c => at'[d] = at[d] /\ pool'[d] = pool[d]
        /\ UNCHANGED plugin
    BY <1>5, <2>1 DEF CheckAccess, Decision, Tell, Wait, TypeOK
  <2>3. d # c
    BY <2>2 DEF Connected
  <2> QED
    BY <2>2, <2>3, ConnectedOn
<1>6. ASSUME NEW c \in Calls, RunCommand(c) \/ RunRead(c)
      PROVE  OfThisActivation(d)'
  <2>1. /\ at'[d] = "store" => at[d] = "store"
        /\ at'[d] = "abandoned" => at[d] = "abandoned"
    BY <1>6, StoreSteps DEF StoreRefuses, Tell, Wait, TypeOK
  <2> QED
    BY <1>6, <2>1, StoreSteps, ConnectedOn
<1>7. ASSUME NEW c \in Calls, Leave(c) PROVE OfThisActivation(d)'
  <2>1. /\ at'[d] = "store" => at[d] = "store"
        /\ at'[d] = "abandoned" =>
             at[d] \in {"store", "abandoned"} /\ pool'[d] = pool[d]
        /\ d # c => pool'[d] = pool[d]
    BY <1>7 DEF Leave, Forget, UnderWay, TypeOK
  <2>2. at'[c] # "store"
    BY <1>7 DEF Leave, Forget
  <2> QED
    BY <1>7, <2>1, <2>2, ConnectedOn DEF Leave, Connected
<1>8. ASSUME NEW c \in Calls, EndAbandoned(c) PROVE OfThisActivation(d)'
  <2>1. d # c
    BY <1>8 DEF EndAbandoned, Forget, Connected
  <2> QED
    BY <1>8, <2>1, ConnectedOn DEF EndAbandoned, Forget, TypeOK
<1>9. ~Crash
  BY DEF Crash, Forget, Connected
<1>10. CASE ChangeMembership \/ ChangeGrant \/ UNCHANGED vars
  BY <1>10, ConnectedOn DEF ChangeMembership, ChangeGrant, vars, calls
<1>11. CASE BeginActivation \/ ActivationFails \/ Activate
  BY <1>11
  DEF BeginActivation, ActivationFails, Activate, NoStoreAfterDeactivation,
      Connected
<1>12. CASE Deactivate \/ Closed
  BY <1>12
  DEF Deactivate, Closed, NoStoreAfterDeactivation, Connected, OfThisActivation
<1> QED
  BY <1>1, <1>2, <1>3, <1>4, <1>5, <1>6, <1>7, <1>8, <1>9, <1>10, <1>11, <1>12
  DEF Next, Run

(* No call runs in the store of an activation that has ended, however it   *)
(* ended (deactivate, and the death of the process).                       *)
THEOREM Ending == Spec => []NoStoreAfterDeactivation
<1>1. Init => NoStoreAfterDeactivation
  BY DEF Init, NoStoreAfterDeactivation
<1>2. TypeOK /\ NoStoreAfterDeactivation /\ [Next]_vars =>
        NoStoreAfterDeactivation'
  BY NextEnds DEF Connected, OfThisActivation, NoStoreAfterDeactivation
<1> QED
  BY <1>1, <1>2, Typing, PTL DEF Spec

-----------------------------------------------------------------------------
(* The tables under the handlers *)

(* Only a command can be abandoned in the store. *)
Served ==
  /\ Shown
  /\ Correct
  /\ \A c \in Calls : at[c] = "abandoned" => call[c].request.op \in Operations

(* What the store is run with is a request of the store. *)
LEMMA ScopedRequest ==
  ASSUME Shown, NEW c \in Calls, at[c] \in {"connection", "store", "abandoned"},
         call[c].request.op \in Operations
  PROVE  /\ Scoped(call[c]) \in Requests
         /\ Scoped(call[c]).op = call[c].request.op
<1>1. call[c] \in Invocations /\ Authorized(c)
  BY AdmittedIsAuthorized DEF Shown, Shows
<1>2. call[c].caller # None /\ call[c].assertion # None
  <2>1. HandlerOf(call[c].request.op).callers \in {PortfolioCallers, AdminCallers}
    BY DEF Operations, HandlerOf, Handler, create_initiative, update_initiative,
           add_initiative_update, archive_initiative, attach_project,
           update_project_snapshot, detach_project, reorder_projects
  <2> QED
    BY <1>1, <2>1, NoneIsNotSent DEF Authorized
<1> QED
  BY <1>1, <1>2, ScopedOp, InvocationsAreTyped

(* The tables change only when a command of a call takes effect. *)
LEMMA TableSteps ==
  ASSUME Served, [Next]_vars
  PROVE  \/ UNCHANGED tables
         \/ \E c \in Calls :
              /\ at[c] \in {"store", "abandoned"}
              /\ at'[c] \in {"return", "idle"}
              /\ call[c].request.op \in Operations
              /\ Apply(Scoped(call[c]))
<1>1. ASSUME NEW c \in Calls, RunCommand(c)
      PROVE  \/ UNCHANGED tables
             \/ at[c] = "store" /\ at'[c] = "return" /\ Apply(Scoped(call[c]))
  <2>1. \/ UNCHANGED tables
        \/ Apply(Scoped(call[c])) /\ Wait(c, "return")
    BY <1>1 DEF RunCommand, StoreRefuses
  <2> QED
    BY <1>1, <2>1 DEF RunCommand, Wait, Served, Shown, TypeOK
<1>2. ASSUME NEW c \in Calls, EndAbandoned(c)
      PROVE  \/ UNCHANGED tables
             \/ at[c] = "abandoned" /\ at'[c] = "idle" /\ Apply(Scoped(call[c]))
  BY <1>2 DEF EndAbandoned, Forget
<1>3. ASSUME NEW c \in Calls, RunRead(c) PROVE UNCHANGED tables
  BY <1>3 DEF RunRead, StoreRefuses
<1>4. ASSUME NEW c \in Calls,
             \/ Invoke(c) \/ Leave(c)
             \/ MembershipReplies(c) \/ AccessReplies(c) \/ ServiceFails(c)
             \/ CheckMembership(c) \/ CheckAccess(c) \/ Connect(c)
      PROVE  UNCHANGED tables
  BY <1>4 DEF Invoke, InvokeWith, Leave, MembershipReplies, AccessReplies, Reply,
              ServiceFails, CheckMembership, CheckAccess, Connect
<1>5. \/ ChangeMembership \/ ChangeGrant
      \/ BeginActivation \/ ActivationFails \/ Activate
      \/ Deactivate \/ Closed \/ Crash \/ UNCHANGED vars
      => UNCHANGED tables
  BY DEF ChangeMembership, ChangeGrant, BeginActivation, ActivationFails,
         Activate, Deactivate, Closed, Crash, vars
<1>6. \A c \in Calls :
        /\ RunCommand(c) => call[c].request.op \in Operations
        /\ EndAbandoned(c) => call[c].request.op \in Operations
  BY DEF RunCommand, EndAbandoned, Served
<1> QED
  BY <1>1, <1>2, <1>3, <1>4, <1>5, <1>6 DEF Next, Run

(* Every step keeps the tables correct. *)
LEMMA NextServed ==
  ASSUME Served, [Next]_vars
  PROVE  Served'
<1>1. Shown'
  BY NextShows DEF Served
<1>2. Correct'
  <2>1. CASE UNCHANGED tables
    BY <2>1, StutterCorrect DEF Served
  <2>2. ASSUME NEW c \in Calls, at[c] \in {"store", "abandoned"},
               call[c].request.op \in Operations, Apply(Scoped(call[c]))
        PROVE  Correct'
    BY <2>2, ScopedRequest, ApplyCorrect DEF Served
  <2> QED
    BY <2>1, <2>2, TableSteps
<1>3. ASSUME NEW d \in Calls, at'[d] = "abandoned"
      PROVE  call'[d].request.op \in Operations
  <2>1. ASSUME NEW cs, NEW left, Forget(cs, left),
               \A c \in left : call[c].request.op \in Operations
        PROVE  call'[d].request.op \in Operations
    BY <1>3, <2>1 DEF Forget, Served
  <2>2. ASSUME at'[d] = at[d], call'[d] = call[d]
        PROVE  call'[d].request.op \in Operations
    BY <1>3, <2>2 DEF Served
  <2>3. ASSUME NEW c \in Calls, NEW where, where # "abandoned",
               at' = [at EXCEPT ![c] = where], call' = call
        PROVE  call'[d].request.op \in Operations
    BY <1>3, <2>2, <2>3 DEF Served, Shown, TypeOK
  <2>4. ASSUME NEW c \in Calls, Leave(c) \/ EndAbandoned(c)
        PROVE  call'[d].request.op \in Operations
    BY <2>1, <2>4 DEF Leave, EndAbandoned, UnderWay
  <2>5. Crash => call'[d].request.op \in Operations
    BY <2>1 DEF Crash, UnderWay
  <2>6. ASSUME NEW c \in Calls, Invoke(c)
        PROVE  call'[d].request.op \in Operations
    <3>1. d # c
      BY <1>3, <2>6 DEF Invoke, InvokeWith, Tell, Wait, Served, Shown, TypeOK
    <3> QED
      BY <2>2, <2>6, <3>1 DEF Invoke, InvokeWith, Tell, Wait, Served, Shown, TypeOK
  <2>7. ASSUME NEW c \in Calls,
               MembershipReplies(c) \/ AccessReplies(c) \/ ServiceFails(c)
        PROVE  call'[d].request.op \in Operations
    BY <2>2, <2>7 DEF MembershipReplies, AccessReplies, ServiceFails, Reply
  <2>8. ASSUME NEW c \in Calls, CheckMembership(c) \/ CheckAccess(c)
        PROVE  call'[d].request.op \in Operations
    <3>1. reply[c] \in {"yes", "no", "failed"}
      BY <2>8 DEF CheckMembership, CheckAccess, Served, Shown, TypeOK
    <3>2. /\ \E where \in {"access", "connection", "return"} :
               at' = [at EXCEPT ![c] = where]
          /\ call' = call
      BY <2>8, <3>1 DEF CheckMembership, CheckAccess, Decision, Tell, Wait
    <3> QED
      BY <2>3, <3>2
  <2>9. ASSUME NEW c \in Calls, Connect(c)
        PROVE  call'[d].request.op \in Operations
    BY <2>3, <2>9 DEF Connect, Tell, Wait
  <2>10. ASSUME NEW c \in Calls, RunCommand(c) \/ RunRead(c)
         PROVE  call'[d].request.op \in Operations
    BY <2>3, <2>10, StoreSteps DEF StoreRefuses, Tell, Wait
  <2>11. \/ ChangeMembership \/ ChangeGrant
         \/ BeginActivation \/ ActivationFails \/ Activate
         \/ Deactivate \/ Closed \/ UNCHANGED vars
         => call'[d].request.op \in Operations
    BY <2>2
    DEF ChangeMembership, ChangeGrant, BeginActivation, ActivationFails,
        Activate, Deactivate, Closed, vars, calls
  <2> QED
    BY <2>4, <2>5, <2>6, <2>7, <2>8, <2>9, <2>10, <2>11 DEF Next, Run
<1> QED
  BY <1>1, <1>2, <1>3 DEF Served

(* Whatever goes through the handlers, and whoever gives up meanwhile, the *)
(* tables keep every property that the commands of the store give them:    *)
(* revisions count commits, receipts record effects, archived initiatives  *)
(* stay as they are, and projects have an order.                           *)
THEOREM Serving == Spec => []Correct
<1>1. Init => Served
  BY InitCorrect DEF Init, Served, Shown, Shows, TypeOK, Stages
<1>2. Served => Correct
  BY DEF Served
<1> QED
  BY <1>1, <1>2, NextServed, PTL DEF Spec

-----------------------------------------------------------------------------
(* What a handler tells *)

(* What is told of calls that the store has not refused. *)
Ordinary == {"ok", "Runtime", "Forbidden", "Unauthenticated", "InvalidRequest"}

(* A failure is one that the error type of its operation has a name for. *)
Heard(c) ==
  /\ at[c] = "return" => told[c] \in Ordinary \/ failure[c] # None
  /\ failure[c] # None =>
       failure[c] \in HandlerOf(call[c].request.op).named \cup {"InvalidRequest"}

(* A failure of the store is one that the handler of the call knows. *)
LEMMA StoreHeard ==
  ASSUME Shown, NEW c \in Calls, RunCommand(c) \/ RunRead(c), Heard(c),
         KeepsName(c)'
  PROVE  Heard(c)'
<1>1. call' = call
  BY StoreSteps
<1>2. CASE \E why \in Failures : StoreRefuses(c, why)
  <2>1. PICK why \in Failures : StoreRefuses(c, why)
    BY <1>2
  <2>2. /\ failure'[c] = why
        /\ told'[c] = Named(call[c].request.op, why)
        /\ why # None
    BY <2>1, NoneIsNoValue DEF StoreRefuses, Tell, Shown, TypeOK
  <2>3. why = Named(call[c].request.op, why)
    BY <2>2 DEF KeepsName
  <2>4. why \in HandlerOf(call[c].request.op).named \cup {"InvalidRequest"}
    BY <2>3 DEF Named
  <2> QED
    BY <1>1, <2>2, <2>4 DEF Heard
<1>3. CASE /\ failure' = failure
           /\ \/ /\ at' = [at EXCEPT ![c] = "return"]
                 /\ \E o \in {"ok", "Runtime"} : told' = [told EXCEPT ![c] = o]
              \/ at' = [at EXCEPT ![c] = "connection"]
  BY <1>1, <1>3 DEF Heard, Ordinary, Shown, TypeOK
<1> QED
  BY <1>2, <1>3, StoreSteps

(* Nothing but the store fails in the name of the store. *)
LEMMA OthersHeard ==
  ASSUME Kept, NEW d \in Calls, Heard(d), [Next]_vars,
         ~RunCommand(d), ~RunRead(d)
  PROVE  Heard(d)'
<1>1. ASSUME at'[d] = at[d], call'[d] = call[d], told'[d] = told[d],
             failure'[d] = failure[d]
      PROVE  Heard(d)'
  BY <1>1 DEF Heard
<1>2. ASSUME NEW c \in Calls, c # d, RunCommand(c) \/ RunRead(c)
      PROVE  Heard(d)'
  BY <1>1, <1>2, StoreSteps DEF StoreRefuses, Tell, Wait, Kept, Shown, TypeOK
<1>3. ASSUME NEW c \in Calls, failure' = failure, at[c] # "return",
             NEW where \in Stages, at' = [at EXCEPT ![c] = where],
             \A e \in Calls : e # c => call'[e] = call[e],
             \/ where # "return" /\ told' = told
             \/ \E o \in Ordinary : told' = [told EXCEPT ![c] = o]
      PROVE  Heard(d)'
  <2>1. CASE d # c
    BY <1>1, <1>3, <2>1 DEF Kept, Shown, TypeOK
  <2>2. CASE d = c
    <3>1. failure'[d] = None
      BY <1>3, <2>2 DEF Kept, KeepsName
    <3>2. at'[d] = "return" => told'[d] \in Ordinary
      BY <1>3, <2>2 DEF Kept, Shown, TypeOK
    <3> QED
      BY <3>1, <3>2 DEF Heard
  <2> QED
    BY <2>1, <2>2
<1>4. ASSUME NEW c \in Calls, Invoke(c) PROVE Heard(d)'
  <2>1. PICK v \in Invocations : InvokeWith(c, v)
    BY <1>4 DEF Invoke
  <2>2. Refused(v) \in Ordinary \cup {None}
    BY DEF Refused, Ordinary
  <2>3. /\ failure' = failure /\ at[c] = "idle"
        /\ \A e \in Calls : e # c => call'[e] = call[e]
        /\ \/ /\ at' = [at EXCEPT ![c] = "return"]
              /\ \E o \in Ordinary : told' = [told EXCEPT ![c] = o]
           \/ at' = [at EXCEPT ![c] = "membership"] /\ told' = told
    BY <2>1, <2>2 DEF InvokeWith, Tell, Wait, Kept, Shown, TypeOK
  <2> QED
    BY <1>3, <2>3 DEF Stages
<1>5. ASSUME NEW c \in Calls, CheckMembership(c) \/ CheckAccess(c)
      PROVE  Heard(d)'
  <2>1. reply[c] \in {"yes", "no", "failed"}
    BY <1>5 DEF CheckMembership, CheckAccess, Kept, Shown, TypeOK
  <2>2. /\ failure' = failure /\ call' = call /\ at[c] # "return"
        /\ \/ /\ at' = [at EXCEPT ![c] = "return"]
              /\ \E o \in Ordinary : told' = [told EXCEPT ![c] = o]
           \/ /\ \E where \in {"access", "connection"} :
                   at' = [at EXCEPT ![c] = where]
              /\ told' = told
    BY <1>5, <2>1 DEF CheckMembership, CheckAccess, Decision, Tell, Wait, Ordinary
  <2> QED
    BY <1>3, <2>2 DEF Stages
<1>6. ASSUME NEW c \in Calls, Connect(c) PROVE Heard(d)'
  <2>1. /\ failure' = failure /\ call' = call /\ at[c] # "return"
        /\ \/ /\ at' = [at EXCEPT ![c] = "return"]
              /\ \E o \in Ordinary : told' = [told EXCEPT ![c] = o]
           \/ at' = [at EXCEPT ![c] = "store"] /\ told' = told
    BY <1>6 DEF Connect, Tell, Wait, Ordinary
  <2> QED
    BY <1>3, <2>1 DEF Stages
<1>7. ASSUME NEW c \in Calls,
             MembershipReplies(c) \/ AccessReplies(c) \/ ServiceFails(c)
      PROVE  Heard(d)'
  BY <1>1, <1>7 DEF MembershipReplies, AccessReplies, ServiceFails, Reply
<1>8. ASSUME NEW cs, NEW left, left \subseteq cs, Forget(cs, left)
      PROVE  Heard(d)'
  BY <1>1, <1>8 DEF Forget, Heard
<1>9. \/ ChangeMembership \/ ChangeGrant
      \/ BeginActivation \/ ActivationFails \/ Activate
      \/ Deactivate \/ Closed \/ UNCHANGED vars
      => Heard(d)'
  BY <1>1
  DEF ChangeMembership, ChangeGrant, BeginActivation, ActivationFails, Activate,
      Deactivate, Closed, vars, calls
<1>10. ASSUME NEW c \in Calls, Leave(c) \/ EndAbandoned(c) PROVE Heard(d)'
  BY <1>8, <1>10 DEF Leave, EndAbandoned
<1>11. Crash => Heard(d)'
  BY <1>8 DEF Crash
<1> QED
  BY <1>2, <1>4, <1>5, <1>6, <1>7, <1>9, <1>10, <1>11 DEF Next, Run

(* Every step keeps the failures among those that handlers know. *)
LEMMA NextHeard ==
  ASSUME Kept, \A c \in Calls : Heard(c), [Next]_vars
  PROVE  \A c \in Calls : Heard(c)'
<1> TAKE c \in Calls
<1>1. KeepsName(c)'
  BY NextKept DEF Kept
<1>2. CASE RunCommand(c) \/ RunRead(c)
  BY <1>1, <1>2, StoreHeard DEF Kept
<1>3. CASE ~RunCommand(c) /\ ~RunRead(c)
  BY <1>3, OthersHeard
<1> QED
  BY <1>2, <1>3

-----------------------------------------------------------------------------
(* The agent tools *)

(* Every step of the adapters is one of the plugin, or leaves it alone. *)
LEMMA AgentSteps == [AgentNext]_agentVars => [Next]_vars
<1>1. ASSUME NEW c \in Calls, Execute(c) PROVE [Next]_vars
  <2>1. PICK x \in ToolCalls :
          \/ UNCHANGED vars
          \/ x.name \in Tools /\ x.invocation # None /\ InvokeWith(c, x.invocation)
    BY <1>1 DEF Execute
  <2> QED
    BY <2>1, ToolCallsAreTyped DEF Next, Invoke
<1>2. ASSUME NEW c \in Calls, Report(c) \/ Depart(c) PROVE [Next]_vars
  BY <1>2 DEF Report, Depart, Next
<1>3. PluginStep \/ RightsChange \/ AgentCrash => [Next]_vars
  BY DEF PluginStep, RightsChange, AgentCrash, Next
<1> QED
  BY <1>1, <1>2, <1>3 DEF AgentNext, ToolNext, agentVars

(* The tools are callers like others: what the plugin promises holds below *)
(* the adapters (execute of the two adapters).                             *)
THEOREM Composition == AgentSpec => Spec
<1>1. AgentInit => Init
  BY DEF AgentInit
<1> QED
  BY <1>1, AgentSteps, PTL DEF AgentSpec, Spec

(* What the catalogs and the error maps say of each other: the reason      *)
(* codes of a tool are what its operation's error type has names for.      *)
LEMMA NamesAreTranslated ==
  ASSUME NEW op \in Tools
  PROVE  HandlerOf(op).named \subseteq {"NotFound"} \cup RejectedBy(op)
<1>1. CASE op \in AdminTools
  BY <1>1
  DEF AdminTools, RejectedBy, AdminRejected, AdminNamed, HandlerOf, Handler,
      archive_initiative, attach_project, update_project_snapshot,
      detach_project, reorder_projects
<1>2. CASE op \in ParallelSafe
  BY <1>2
  DEF AdminTools, ParallelSafe, RejectedBy, ReadNamed, HandlerOf, Handler,
      get_initiative, list_initiatives, list_initiative_projects,
      list_initiative_updates, read_rollup
<1>3. CASE op \in PortfolioTools \ ParallelSafe
  BY <1>3
  DEF PortfolioTools, AdminTools, ParallelSafe, RejectedBy, MutationRejected,
      PortfolioNamed, HandlerOf, Handler, create_initiative, update_initiative,
      add_initiative_update
<1> QED
  BY <1>1, <1>2, <1>3 DEF Tools

(* An answer is of what the call was told, or of arguments that never      *)
(* became a call.                                                          *)
Answered(c) ==
  \/ /\ at[c] = "return"
     /\ \/ answered[c] = AnswerOf(tool[c], told[c])
        \/ told[c] = "ok" /\ answered[c] = Plain("Runtime")
  \/ /\ at[c] \in {"idle", "abandoned"}
     /\ answered[c] \in {Plain("NotFound"), Plain("InvalidArguments")}

Executing(c) ==
  /\ at[c] \notin {"idle", "abandoned"} =>
       tool[c] \in Tools /\ call[c].request.op = tool[c]
  /\ answered[c] # None => tool[c] # None /\ Answered(c)

Adapted ==
  /\ Kept
  /\ DOMAIN tool = Calls /\ DOMAIN answered = Calls
  /\ \A c \in Calls : Heard(c) /\ Executing(c)

(* No tool is executed yet. *)
LEMMA InitAdapted == AgentInit => Adapted
BY InitKept DEF AgentInit, Adapted, Init, Heard, Executing

(* A step of the plugin takes a call further, or leaves it. *)
LEMMA PluginStepMoves ==
  ASSUME Adapted, PluginStep \/ RightsChange, NEW d \in Calls
  PROVE  \/ /\ at'[d] = at[d] /\ told'[d] = told[d]
            /\ at[d] = "idle" \/ call'[d] = call[d]
         \/ /\ at[d] \in {"membership", "access", "connection", "store"}
            /\ at'[d] \notin {"idle", "abandoned"}
            /\ call'[d] = call[d]
         \/ at[d] = "abandoned" /\ at'[d] = "idle"
<1> DEFINE Goal ==
      \/ /\ at'[d] = at[d] /\ told'[d] = told[d]
         /\ at[d] = "idle" \/ call'[d] = call[d]
      \/ /\ at[d] \in {"membership", "access", "connection", "store"}
         /\ at'[d] \notin {"idle", "abandoned"}
         /\ call'[d] = call[d]
      \/ at[d] = "abandoned" /\ at'[d] = "idle"
<1>1. ASSUME NEW c \in Calls,
             at[c] \in {"membership", "access", "connection", "store"},
             \E where : /\ where \notin {"idle", "abandoned"}
                        /\ at' = [at EXCEPT ![c] = where],
             \/ told' = told
             \/ \E o : told' = [told EXCEPT ![c] = o],
             call' = call
      PROVE  Goal
  BY <1>1 DEF Adapted, Kept, Shown, TypeOK
<1>2. ASSUME NEW c \in Calls, CheckMembership(c) \/ CheckAccess(c) PROVE Goal
  <2>1. reply[c] \in {"yes", "no", "failed"}
    BY <1>2 DEF CheckMembership, CheckAccess, Adapted, Kept, Shown, TypeOK
  <2> HIDE DEF Goal
  <2> QED
    BY <1>1, <1>2, <2>1 DEF CheckMembership, CheckAccess, Decision, Tell, Wait
<1>3. ASSUME NEW c \in Calls, Connect(c) PROVE Goal
  BY <1>1, <1>3 DEF Connect, Tell, Wait
<1>4. ASSUME NEW c \in Calls, RunCommand(c) \/ RunRead(c) PROVE Goal
  BY <1>1, <1>4, StoreSteps DEF StoreRefuses, Tell, Wait
<1>5. ASSUME NEW c \in Calls,
             MembershipReplies(c) \/ AccessReplies(c) \/ ServiceFails(c)
      PROVE  Goal
  BY <1>5 DEF MembershipReplies, AccessReplies, ServiceFails, Reply
<1>6. ASSUME NEW c \in Calls, EndAbandoned(c) PROVE Goal
  BY <1>6 DEF EndAbandoned, Forget
<1>7. \/ ChangeMembership \/ ChangeGrant
      \/ BeginActivation \/ ActivationFails \/ Activate
      \/ Deactivate \/ Closed
      => Goal
  BY DEF ChangeMembership, ChangeGrant, BeginActivation, ActivationFails,
         Activate, Deactivate, Closed
<1> QED
  BY <1>2, <1>3, <1>4, <1>5, <1>6, <1>7 DEF PluginStep, RightsChange, Run

(* A tool that executes has sent a call of its own. *)
LEMMA ExecuteAdapted ==
  ASSUME Adapted, NEW c \in Calls, Execute(c), NEW d \in Calls
  PROVE  Executing(d)'
<1>1. PICK x \in ToolCalls :
        /\ tool[c] = None
        /\ tool' = [tool EXCEPT ![c] = x.name]
        /\ \/ /\ \/ Answer(c, Plain("NotFound"))
                 \/ Answer(c, Plain("InvalidArguments"))
              /\ UNCHANGED vars
           \/ /\ x.name \in Tools /\ x.invocation # None
              /\ InvokeWith(c, x.invocation)
              /\ UNCHANGED answered
  BY DEF Execute
<1>2. /\ x.name # None /\ answered[c] = None
      /\ at[c] \in {"idle", "abandoned"}
      /\ tool'[c] = x.name
      /\ \A e \in Calls : e # c => tool'[e] = tool[e] /\ answered'[e] = answered[e]
  BY <1>1, NoneIsNoName DEF Adapted, Executing, Answer
<1>3. CASE UNCHANGED vars
  <2>1. at' = at /\ call' = call /\ told' = told
    BY <1>3 DEF vars, calls
  <2>2. CASE d = c
    <3>1. \/ answered'[c] \in {Plain("NotFound"), Plain("InvalidArguments")}
          \/ answered' = answered
      BY <1>1 DEF Answer, Adapted
    <3> QED
      BY <1>2, <2>1, <2>2, <3>1 DEF Executing, Answered
  <2>3. CASE d # c
    BY <1>2, <2>1, <2>3 DEF Adapted, Executing, Answered
  <2> QED
    BY <2>2, <2>3
<1>4. CASE /\ x.name \in Tools /\ x.invocation # None
           /\ InvokeWith(c, x.invocation)
           /\ UNCHANGED answered
  <2>1. CASE d = c
    <3>1. call'[c] = x.invocation /\ x.invocation.request.op = x.name
      BY <1>4, ToolCallsAreTyped DEF InvokeWith, Adapted, Kept, Shown, TypeOK
    <3> QED
      BY <1>2, <1>4, <2>1, <3>1 DEF Executing
  <2>2. CASE d # c
    <3>1. at'[d] = at[d] /\ call'[d] = call[d] /\ told'[d] = told[d]
      BY <1>4, <2>2 DEF InvokeWith, Tell, Wait, Adapted, Kept, Shown, TypeOK
    <3> QED
      BY <1>2, <2>2, <3>1 DEF Adapted, Executing, Answered
  <2> QED
    BY <2>1, <2>2
<1> QED
  BY <1>1, <1>3, <1>4

(* Every step keeps tools and calls together. *)
LEMMA NextAdapted ==
  ASSUME Adapted, [AgentNext]_agentVars
  PROVE  Adapted'
<1>1. Kept'
  BY AgentSteps, NextKept DEF Adapted
<1>2. \A d \in Calls : Heard(d)'
  BY AgentSteps, NextHeard DEF Adapted
<1>3. DOMAIN tool' = Calls /\ DOMAIN answered' = Calls
  <2>1. ASSUME NEW c \in Calls, Execute(c) \/ Report(c) \/ Depart(c)
        PROVE  DOMAIN tool' = Calls /\ DOMAIN answered' = Calls
    BY <2>1 DEF Execute, Report, Depart, Answer, Adapted
  <2> QED
    BY <2>1 DEF AgentNext, ToolNext, PluginStep, RightsChange, AgentCrash, agentVars,
                Adapted
<1>4. ASSUME NEW d \in Calls PROVE Executing(d)'
  <2>1. ASSUME NEW c \in Calls, Execute(c) PROVE Executing(d)'
    BY <2>1, ExecuteAdapted
  <2>2. ASSUME NEW c \in Calls, Report(c) PROVE Executing(d)'
    <3>1. /\ at[c] = "return" /\ tool' = tool
          /\ at' = at /\ call' = call /\ told' = told
          /\ \A e \in Calls : e # c => answered'[e] = answered[e]
          /\ \/ answered'[c] = AnswerOf(tool[c], told[c])
             \/ told[c] = "ok" /\ answered'[c] = Plain("Runtime")
      BY <2>2 DEF Report, Answer, vars, calls, Adapted
    <3>2. tool[c] # None
      BY <3>1, NoneIsNoName DEF Adapted, Executing
    <3> QED
      BY <3>1, <3>2 DEF Adapted, Executing, Answered
  <2>3. ASSUME NEW c \in Calls, Depart(c) PROVE Executing(d)'
    <3>1. /\ answered'[c] = None
          /\ \A e \in Calls : e # c => tool'[e] = tool[e] /\ answered'[e] = answered[e]
      BY <2>3 DEF Depart, Answer, Adapted
    <3>2. CASE UNCHANGED vars /\ at[c] \in {"idle", "abandoned"}
      <4>1. at' = at /\ call' = call /\ told' = told
        BY <3>2 DEF vars, calls
      <4> QED
        BY <3>1, <3>2, <4>1 DEF Adapted, Executing, Answered
    <3>3. CASE Leave(c)
      <4>1. at'[c] \in {"idle", "abandoned"}
        BY <3>3 DEF Leave, Forget
      <4>2. d # c => at'[d] = at[d] /\ call'[d] = call[d] /\ told'[d] = told[d]
        BY <3>3 DEF Leave, Forget
      <4> QED
        BY <3>1, <4>1, <4>2 DEF Adapted, Executing, Answered
    <3> QED
      BY <2>3, <3>2, <3>3 DEF Depart
  <2>4. CASE PluginStep \/ RightsChange
    <3>1. tool' = tool /\ answered' = answered
      BY <2>4 DEF PluginStep, RightsChange
    <3>2. Executing(d)
      BY DEF Adapted
    <3> QED
      BY <2>4, <3>1, <3>2, PluginStepMoves DEF Executing, Answered
  <2>5. CASE AgentCrash
    BY <2>5 DEF AgentCrash, Crash, Forget, Executing
  <2>6. CASE UNCHANGED agentVars
    BY <2>6 DEF agentVars, vars, calls, Adapted, Executing, Answered
  <2> QED
    BY <2>1, <2>2, <2>3, <2>4, <2>5, <2>6 DEF AgentNext, ToolNext
<1> QED
  BY <1>1, <1>2, <1>3, <1>4 DEF Adapted

(* What an adapter makes of what it is told. *)
LEMMA AnswersTranslate ==
  ASSUME NEW op \in Tools, NEW why
  PROVE  /\ why \in Ordinary => AnswerOf(op, why).kind # "ExecutionFailed"
         /\ why = "NotFound" => AnswerOf(op, why) = Plain("NotFound")
         /\ why = "InvalidRequest" => AnswerOf(op, why) = Plain("InvalidArguments")
         /\ why \in RejectedBy(op) => AnswerOf(op, why) = Rejected(why)
<1>1. ASSUME why \in RejectedBy(op)
      PROVE  why \notin {"ok", "Runtime", "InvalidRequest", "NotFound",
                         "Forbidden", "Unauthenticated"}
  BY <1>1 DEF RejectedBy, AdminRejected, MutationRejected
<1>2. why \in RejectedBy(op) => AnswerOf(op, why) = Rejected(why)
  BY <1>1 DEF AnswerOf
<1>3. /\ why = "NotFound" => AnswerOf(op, why) = Plain("NotFound")
      /\ why = "InvalidRequest" => AnswerOf(op, why) = Plain("InvalidArguments")
  BY <1>1 DEF AnswerOf
<1>4. why \in Ordinary => AnswerOf(op, why).kind # "ExecutionFailed"
  BY <1>1 DEF AnswerOf, Ordinary, Plain
<1> QED
  BY <1>2, <1>3, <1>4

(* Through the handler's error map and the adapter's (impl_read_error,     *)
(* impl_mutation_error, impl_admin_error) an agent learns of a failure     *)
(* under the name that the store gave it, and of no other.                 *)
THEOREM AgentsLearning == AgentSpec => []AgentsLearnTheFailure
<1>1. ASSUME Adapted PROVE AgentsLearnTheFailure
  <2> SUFFICES ASSUME NEW c \in Calls, answered[c] # None
               PROVE  /\ failure[c] # None =>
                           answered[c] =
                             CASE failure[c] = "NotFound" -> Plain("NotFound")
                               [] failure[c] = "InvalidRequest" ->
                                    Plain("InvalidArguments")
                               [] OTHER -> Rejected(failure[c])
                      /\ answered[c].kind = "ExecutionFailed" =>
                           answered[c].reason = failure[c]
    BY DEF AgentsLearnTheFailure
  <2>1. Answered(c) /\ Heard(c) /\ KeepsName(c)
    BY <1>1 DEF Adapted, Executing, Kept
  <2>2. CASE at[c] \in {"idle", "abandoned"}
    <3>1. failure[c] = None
      BY <2>1, <2>2 DEF KeepsName
    <3>2. answered[c].kind # "ExecutionFailed"
      BY <2>1, <2>2 DEF Answered, Plain
    <3> QED
      BY <3>1, <3>2
  <2>3. CASE at[c] = "return"
    <3>1. tool[c] \in Tools /\ call[c].request.op = tool[c]
      BY <1>1, <2>3 DEF Adapted, Executing
    <3>2. \/ answered[c] = AnswerOf(tool[c], told[c])
          \/ told[c] = "ok" /\ answered[c] = Plain("Runtime")
      BY <2>1, <2>3 DEF Answered
    <3>3. CASE failure[c] # None
      <4>1. /\ told[c] = failure[c]
            /\ failure[c] \in {"NotFound", "InvalidRequest"} \cup RejectedBy(tool[c])
        BY <2>1, <3>1, <3>3, NamesAreTranslated DEF KeepsName, Heard
      <4>2. told[c] # "ok"
        BY <4>1 DEF RejectedBy, AdminRejected, MutationRejected
      <4>3. answered[c] = AnswerOf(tool[c], failure[c])
        BY <3>2, <4>1, <4>2
      <4>4. failure[c] \in RejectedBy(tool[c]) =>
              failure[c] \notin {"NotFound", "InvalidRequest"}
        BY DEF RejectedBy, AdminRejected, MutationRejected
      <4>5. /\ failure[c] = "NotFound" => answered[c] = Plain("NotFound")
            /\ failure[c] = "InvalidRequest" => answered[c] = Plain("InvalidArguments")
            /\ failure[c] \in RejectedBy(tool[c]) => answered[c] = Rejected(failure[c])
        BY <3>1, <4>3, AnswersTranslate
      <4> QED
        BY <4>1, <4>4, <4>5 DEF Plain, Rejected
    <3>4. CASE failure[c] = None
      <4>1. told[c] \in Ordinary
        BY <2>1, <2>3, <3>4 DEF Heard
      <4>2. answered[c].kind # "ExecutionFailed"
        BY <3>1, <3>2, <4>1, AnswersTranslate DEF Plain
      <4> QED
        BY <3>4, <4>2
    <3> QED
      BY <3>3, <3>4
  <2> QED
    BY <2>1, <2>2, <2>3 DEF Answered
<1> QED
  BY <1>1, InitAdapted, NextAdapted, PTL DEF AgentSpec

(* The other commands neither archive an initiative nor touch a project. *)
LEMMA OthersKeepTheirPlace ==
  ASSUME Correct, NEW r \in Requests, Apply(r), r.op \notin AdminTools
  PROVE  /\ projects' = projects
         /\ \A i \in Initiatives : Archived(i)' = Archived(i)
<1> DEFINE j == r.initiative
           row == initiatives[j]
<1>1. /\ j \in Initiatives
      /\ r.op \in {"create_initiative", "update_initiative", "add_initiative_update"}
      /\ r.op = "create_initiative" => row = None
      /\ r.op # "create_initiative" => row \in Initiative /\ ~row.archived
  BY RequestShape, NotRefused DEF Correct, Apply, AdminTools, Operations
<1>2. projects' = projects
  BY <1>1 DEF Apply, Publish, EffectOf, MembersAfter, Correct, TablesOK
<1>3. initiatives' = [initiatives EXCEPT ![j] = RowAfter(r, row)]
  BY DEF Apply, Publish, EffectOf
<1>4. ~RowAfter(r, row).archived
  BY <1>1, CreatedRow, ChangedRow
<1>5. ~Archived(j) /\ ~Archived(j)'
  BY <1>1, <1>3, <1>4 DEF Archived, Correct, TablesOK
<1>6. ASSUME NEW i \in Initiatives PROVE Archived(i)' = Archived(i)
  <2>1. CASE i = j
    BY <1>5, <2>1 DEF Archived
  <2>2. CASE i # j
    BY <1>3, <2>2 DEF Archived, Correct, TablesOK
  <2> QED
    BY <2>1, <2>2
<1> QED
  BY <1>2, <1>6

(* The tables change only through tools that the catalogs call exclusive,  *)
(* and the projects of an initiative and its archived flag only through    *)
(* the administrative adapter's, also when the agent has given up.         *)
THEOREM KeepingPlace == AgentSpec => ToolsKeepTheirPlace
<1> DEFINE Place ==
      /\ tables' # tables => \E c \in Calls : EndsInStore(c, Tools \ ParallelSafe)
      /\ projects' # projects \/ (\E i \in Initiatives : Archived(i)' # Archived(i))
           => \E c \in Calls : EndsInStore(c, AdminTools)
<1>1. ASSUME Served, [Next]_vars PROVE Place
  <2>1. CASE UNCHANGED tables
    BY <2>1 DEF tables, Archived
  <2>2. ASSUME NEW c \in Calls, at[c] \in {"store", "abandoned"},
               at'[c] \in {"return", "idle"}, call[c].request.op \in Operations,
               Apply(Scoped(call[c]))
        PROVE  Place
    <3>1. call[c].request.op \in Tools \ ParallelSafe
      BY <2>2 DEF Operations, Tools, PortfolioTools, AdminTools, ParallelSafe
    <3>2. call[c].request.op \notin AdminTools =>
            /\ projects' = projects
            /\ \A i \in Initiatives : Archived(i)' = Archived(i)
      <4>1. Scoped(call[c]) \in Requests /\ Scoped(call[c]).op = call[c].request.op
        BY <1>1, <2>2, ScopedRequest DEF Served
      <4> QED
        BY <1>1, <2>2, <4>1, OthersKeepTheirPlace DEF Served
    <3> QED
      BY <2>2, <3>1, <3>2 DEF EndsInStore
  <2> QED
    BY <1>1, <2>1, <2>2, TableSteps
<1>2. AgentInit => Served
  BY InitCorrect DEF AgentInit, Init, Served, Shown, Shows, TypeOK, Stages
<1>3. Served /\ [AgentNext]_agentVars => Served'
  BY AgentSteps, NextServed
<1>4. Served /\ [AgentNext]_agentVars => [Place]_agentVars
  BY <1>1, AgentSteps
<1> QED
  BY <1>2, <1>3, <1>4, PTL DEF AgentSpec, ToolsKeepTheirPlace

=============================================================================
