--------------------------- MODULE ServicesProofs ---------------------------
(***************************************************************************)
(* Safety of the services that share nothing: the social connector, the    *)
(* control plane and the ingest of outside posts, each for any number of   *)
(* callers and of things they act on.                                      *)
(***************************************************************************)
EXTENDS SocialAction, ControlPlane, Ingest, FiniteSetTheorems, TLAPS

----------------------------------------------------------------------------
(* The social connector *)

\* A reservation makes its caller the only owner of an action without a post,
\* or changes nothing but the caller.
LEMMA ReserveKeeps ==
  ASSUME SocialInv, NEW c \in Api \cup Relay, NEW a \in Action, NEW path \in {"api", "relay"},
         ~Owns(c), Reserve(c, a, path), UNCHANGED <<posts, gone, misnamed>>
  PROVE  SocialInv'
<1>0. call \in [Caller -> [pc : Pc, action : Action \cup {Nobody}, post : PostId \cup {Nobody}]]
      /\ c \in Caller
  BY DEF SocialInv, SocialTypeOK, Caller
<1>1. SocialTypeOK'
  BY SocialAssumption DEF SocialInv, SocialTypeOK, Reserve, Pc, ActionStatus, Caller
<1>2. CallersSound' /\ PostsSound' /\ SuccessIsReal'
  <2>1. CASE entry[a].status = "none"
    <3>1. /\ \A e \in Caller \ {c} : call'[e] = call[e]
          /\ call'[c].pc = "write" /\ call'[c].action = a
      BY <2>1, <1>0 DEF Reserve
    <3>2. /\ \A d \in Action \ {a} : entry'[d] = entry[d]
          /\ entry'[a].status = "pending" /\ entry'[a].post = Nobody
      BY <2>1 DEF Reserve, SocialInv, SocialTypeOK
    <3>3. \A p \in posts : p[1] # a
      BY <2>1 DEF SocialInv, PostsSound
    <3>4. \A e \in Caller \ {c} : Owns(e) => call[e].action # a
      BY <2>1 DEF SocialInv, CallersSound
    <3>5. \A e \in Caller \ {c} : Owns(e)' <=> Owns(e)
      BY <3>1 DEF Owns
    <3>6. CallersSound'
      <4> SUFFICES ASSUME NEW e \in Caller
                   PROVE  /\ (call[e].pc # "idle" => call[e].action \in Action)'
                          /\ (Owns(e) => e \in Api \cup Relay /\ entry[call[e].action].status # "none")'
                          /\ (\A d \in Caller : Owns(e) /\ Owns(d) /\ call[e].action = call[d].action => e = d)'
                          /\ (call[e].pc = "write" => \A p \in posts : p[1] # call[e].action)'
                          /\ (call[e].pc = "check" => <<call[e].action, call[e].post>> \in posts)'
                          /\ (call[e].pc \in {"found", "other"} => call[e].post # Nobody)'
                          /\ (call[e].pc = "report" /\ call[e].post # Nobody => <<call[e].action, call[e].post>> \in posts)'
        BY DEF CallersSound
      <4>1. CASE e = c
        BY <4>1, <3>1, <3>2, <3>3, <3>4, <3>5
      <4>2. CASE e # c
        <5>1. call'[e] = call[e] /\ (Owns(e)' <=> Owns(e)) /\ e \in Caller \ {c}
          BY <4>2, <3>1, <3>5
        <5>2. Owns(e) => call[e].pc # "idle"
          BY DEF Owns
        <5>3. (\A d \in Caller : Owns(e) /\ Owns(d) /\ call[e].action = call[d].action => e = d)'
          <6> SUFFICES ASSUME NEW d \in Caller, Owns(e)', Owns(d)', (call[e].action = call[d].action)'
                       PROVE  e = d
            OBVIOUS
          <6>1. CASE d = c
            BY <6>1, <5>1, <3>1, <3>4
          <6>2. CASE d # c
            BY <6>2, <5>1, <3>1, <3>5 DEF SocialInv, CallersSound
          <6> QED BY <6>1, <6>2
        <5>4. /\ call[e].pc # "idle" => call[e].action \in Action
              /\ Owns(e) => e \in Api \cup Relay /\ entry[call[e].action].status # "none"
              /\ call[e].pc = "write" => \A p \in posts : p[1] # call[e].action
              /\ call[e].pc = "check" => <<call[e].action, call[e].post>> \in posts
              /\ call[e].pc \in {"found", "other"} => call[e].post # Nobody
              /\ call[e].pc = "report" /\ call[e].post # Nobody => <<call[e].action, call[e].post>> \in posts
          BY DEF SocialInv, CallersSound
        <5> QED
          BY <5>1, <5>2, <5>3, <5>4, <3>2, <3>4
      <4> QED BY <4>1, <4>2
    <3>7. PostsSound' /\ SuccessIsReal'
      BY <3>2, <3>3 DEF SocialInv, PostsSound, SuccessIsReal
    <3> QED BY <3>6, <3>7
  <2>2. CASE entry[a].status # "none"
    <3>1. /\ \A e \in Caller \ {c} : call'[e] = call[e]
          /\ call'[c].pc = "blocked" /\ call'[c].action = a /\ entry' = entry
      BY <2>2, <1>0 DEF Reserve
    <3>2. CallersSound'
      BY <3>1 DEF SocialInv, CallersSound, Owns
    <3> QED BY <3>1, <3>2 DEF SocialInv, PostsSound, SuccessIsReal
  <2> QED BY <2>1, <2>2
<1> QED
  BY <1>1, <1>2 DEF SocialInv

\* Finalizing the row of an action, by a caller that ends or stays at its report,
\* is sound if a success and an id are of a post that was made for the action, or
\* if it is remembered that they may not be.
LEMMA FinalizeKeeps ==
  ASSUME SocialInv, NEW c \in Caller, NEW a \in Action, NEW status \in ActionStatus \ {"none"},
         NEW post \in PostId \cup {Nobody}, NEW pc \in {"ended", "report"},
         a = call[c].action, call[c].pc # "idle", pc = "report" => call[c].pc = "report",
         entry[a].status # "none",
         Finalize(a, status, post), To(c, pc), UNCHANGED <<posts, gone>>,
         misnamed \subseteq misnamed', misnamed' \subseteq Action,
         \/ a \in misnamed'
         \/ /\ status = "success" => \E p \in posts : p[1] = a
            /\ post # Nobody => <<a, post>> \in posts
  PROVE  SocialInv'
<1>1. SocialTypeOK'
  BY SocialAssumption DEF SocialInv, SocialTypeOK, Finalize, To, Pc
<1>2. /\ \A e \in Caller \ {c} : call'[e] = call[e]
      /\ call'[c].pc = pc /\ call'[c].action = call[c].action /\ call'[c].post = call[c].post
  BY DEF SocialInv, SocialTypeOK, To
<1>3. /\ \A d \in Action \ {a} : entry'[d] = entry[d]
      /\ entry'[a].status = status
      /\ entry'[a].post = IF post = Nobody THEN entry[a].post ELSE post
  BY DEF SocialInv, SocialTypeOK, Finalize
<1>4. CallersSound'
  <2>1. \A e \in Caller : call'[e].action = call[e].action /\ call'[e].post = call[e].post
                          /\ (call'[e].pc = call[e].pc \/ call'[e].pc = "ended")
    BY <1>2
  <2>2. \A d \in Action : entry'[d].status = "none" => entry[d].status = "none"
    BY <1>3
  <2>3. \A e \in Caller : Owns(e)' => Owns(e)
    BY <2>1 DEF Owns
  <2>4. \A e \in Caller : Owns(e) => call[e].action \in Action
    BY DEF SocialInv, CallersSound, Owns
  <2>5. \A e \in Caller : call'[e].pc # "idle" => call[e].pc # "idle"
    BY <1>2
  <2>6. \A e \in Caller : (Owns(e) => e \in Api \cup Relay /\ entry[call[e].action].status # "none")'
    <3> SUFFICES ASSUME NEW e \in Caller, Owns(e)'
                 PROVE  e \in Api \cup Relay /\ entry'[call'[e].action].status # "none"
      OBVIOUS
    <3>1. Owns(e) /\ call[e].action \in Action /\ call'[e].action = call[e].action
      BY <2>1, <2>3, <2>4
    <3>2. e \in Api \cup Relay /\ entry[call[e].action].status # "none"
      BY <3>1 DEF SocialInv, CallersSound
    <3> QED BY <3>1, <3>2, <2>2
  <2>7. \A e, d \in Caller : (Owns(e) /\ Owns(d) /\ call[e].action = call[d].action => e = d)'
    BY <2>1, <2>3 DEF SocialInv, CallersSound
  <2>8. \A e \in Caller :
          /\ (call[e].pc # "idle" => call[e].action \in Action)'
          /\ (call[e].pc = "write" => \A p \in posts : p[1] # call[e].action)'
          /\ (call[e].pc = "check" => <<call[e].action, call[e].post>> \in posts)'
          /\ (call[e].pc \in {"found", "other"} => call[e].post # Nobody)'
          /\ (call[e].pc = "report" /\ call[e].post # Nobody => <<call[e].action, call[e].post>> \in posts)'
    BY <2>1, <2>5 DEF SocialInv, CallersSound
  <2> QED
    BY <2>6, <2>7, <2>8 DEF CallersSound
<1>5. PostsSound'
  BY <1>3 DEF SocialInv, PostsSound
<1>6. SuccessIsReal'
  BY <1>3 DEF SocialInv, SuccessIsReal
<1> QED
  BY <1>1, <1>4, <1>5, <1>6 DEF SocialInv

\* A step that changes one caller, and adds no post, keeps the invariant if the
\* caller ends as one that owns nothing, and knows of a post if it says so.
LEMMA LeavesKeeps ==
  ASSUME SocialInv, NEW c \in Caller,
         NEW new \in [pc : Pc, action : Action \cup {Nobody}, post : PostId \cup {Nobody}],
         call' = [call EXCEPT ![c] = new], UNCHANGED <<entry, posts, gone, misnamed>>,
         new.pc \notin {"write", "check", "report"},
         new.pc # "idle" => new.action \in Action,
         new.pc \in {"found", "other"} => new.post # Nobody
  PROVE  SocialInv'
<1>1. SocialTypeOK'
  BY DEF SocialInv, SocialTypeOK
<1>2. call'[c] = new /\ \A e \in Caller \ {c} : call'[e] = call[e]
  BY DEF SocialInv, SocialTypeOK
<1>3. ~Owns(c)' /\ \A e \in Caller \ {c} : Owns(e)' <=> Owns(e)
  BY <1>2 DEF Owns
<1>4. CallersSound'
  BY <1>2, <1>3 DEF SocialInv, CallersSound
<1>5. PostsSound' /\ SuccessIsReal'
  BY DEF SocialInv, PostsSound, SuccessIsReal
<1> QED
  BY <1>1, <1>4, <1>5 DEF SocialInv

\* A caller that may write does so, or does not: its post is the first of its
\* action, and the caller goes on knowing of it.
LEMMA WriteKeeps ==
  ASSUME SocialInv, NEW c \in Api \cup Relay, NEW written \in BOOLEAN,
         NEW pc \in {"check", "report"}, NEW post \in {c, Nobody},
         call[c].pc = "write",
         posts' = IF written THEN posts \cup {<<call[c].action, c>>} ELSE posts,
         Knows(c, pc, post), UNCHANGED <<entry, gone, misnamed>>,
         written <=> post = c, pc = "check" => written
  PROVE  SocialInv'
<1>0. c \in Caller /\ c # Nobody /\ call[c].action \in Action /\ Owns(c)
      /\ entry[call[c].action].status # "none"
  BY SocialAssumption DEF SocialInv, CallersSound, Owns, Caller
<1>1. SocialTypeOK'
  BY <1>0, SocialAssumption DEF SocialInv, SocialTypeOK, Knows, Pc, Caller
<1>2. /\ call'[c].pc = pc /\ call'[c].action = call[c].action /\ call'[c].post = post
      /\ \A e \in Caller \ {c} : call'[e] = call[e]
  BY <1>0 DEF SocialInv, SocialTypeOK, Knows
<1>3. posts \subseteq posts' /\ \A p \in posts' : p \in posts \/ p = <<call[c].action, c>>
  OBVIOUS
<1>4. \A e \in Caller : (Owns(e)' <=> Owns(e)) /\ call'[e].action = call[e].action
  BY <1>0, <1>2 DEF Owns
<1>5. CallersSound'
  <2>1. \A e, d \in Caller : (Owns(e) /\ Owns(d) /\ call[e].action = call[d].action => e = d)'
    <3>1. \A e, d \in Caller : Owns(e) /\ Owns(d) /\ call[e].action = call[d].action => e = d
      BY DEF SocialInv, CallersSound
    <3> QED BY <1>4, <3>1
  <2>2. \A e \in Caller :
          /\ (call[e].pc # "idle" => call[e].action \in Action)'
          /\ (Owns(e) => e \in Api \cup Relay /\ entry[call[e].action].status # "none")'
    BY <1>0, <1>2, <1>4 DEF SocialInv, CallersSound
  <2>3. \A e \in Caller : (call[e].pc = "write" => \A p \in posts : p[1] # call[e].action)'
    <3> SUFFICES ASSUME NEW e \in Caller, call'[e].pc = "write", NEW p \in posts'
                 PROVE  p[1] # call'[e].action
      OBVIOUS
    <3>1. e # c /\ call'[e] = call[e] /\ Owns(e)
      BY <1>2 DEF Owns
    <3>2. call[e].action # call[c].action
      BY <3>1, <1>0 DEF SocialInv, CallersSound
    <3>3. p \in posts => p[1] # call[e].action
      BY <3>1 DEF SocialInv, CallersSound
    <3> QED BY <3>1, <3>2, <3>3, <1>3
  <2>4. \A e \in Caller :
          /\ (call[e].pc = "check" => <<call[e].action, call[e].post>> \in posts)'
          /\ (call[e].pc \in {"found", "other"} => call[e].post # Nobody)'
          /\ (call[e].pc = "report" /\ call[e].post # Nobody => <<call[e].action, call[e].post>> \in posts)'
    <3> SUFFICES ASSUME NEW e \in Caller
                 PROVE  /\ call'[e].pc = "check" => <<call'[e].action, call'[e].post>> \in posts'
                        /\ call'[e].pc \in {"found", "other"} => call'[e].post # Nobody
                        /\ call'[e].pc = "report" /\ call'[e].post # Nobody => <<call'[e].action, call'[e].post>> \in posts'
      OBVIOUS
    <3>1. CASE e = c
      BY <3>1, <1>2, <1>0
    <3>2. CASE e # c
      BY <3>2, <1>2, <1>3 DEF SocialInv, CallersSound
    <3> QED BY <3>1, <3>2
  <2> QED
    BY <2>1, <2>2, <2>3, <2>4 DEF CallersSound
<1>6. \A p \in posts : p[1] # call[c].action
  BY <1>0 DEF SocialInv, CallersSound
<1>7. PostsSound' /\ SuccessIsReal'
  BY <1>0, <1>3, <1>6 DEF SocialInv, PostsSound, SuccessIsReal
<1> QED
  BY <1>1, <1>5, <1>7 DEF SocialInv

\* A write whose outcome is recorded at once: the row gets no id, and no success.
LEMMA PostFailsKeeps ==
  ASSUME SocialInv, NEW c \in Caller, PostFails(c)
  PROVE  SocialInv'
<1>0. c \in Api /\ call[c].pc = "write" /\ call[c].action \in Action /\ Owns(c)
      /\ entry[call[c].action].status # "none"
  BY DEF SocialInv, CallersSound, Owns, PostFails
<1> DEFINE a == call[c].action
<1>1. PICK written \in BOOLEAN, status \in Failure \cup {"ambiguous"} :
         /\ posts' = IF written THEN posts \cup {<<a, c>>} ELSE posts
         /\ Finalize(a, status, Nobody)
  BY DEF PostFails
<1>2. /\ call'[c].pc = "ended" /\ call'[c].action = a
      /\ \A e \in Caller \ {c} : call'[e] = call[e]
  BY DEF SocialInv, SocialTypeOK, PostFails, To
<1>3. /\ \A d \in Action \ {a} : entry'[d] = entry[d]
      /\ entry'[a].status \notin {"none", "success"} /\ entry'[a].post = entry[a].post
  BY <1>0, <1>1 DEF SocialInv, SocialTypeOK, Finalize, Failure
<1>4. posts \subseteq posts' /\ \A p \in posts' : p \in posts \/ p = <<a, c>>
  BY <1>1
<1>5. SocialTypeOK'
  <2>1. entry' \in [Action -> [status : ActionStatus, path : {"none", "api", "relay"},
                            post : PostId \cup {Nobody}]]
    BY <1>0, <1>1 DEF SocialInv, SocialTypeOK, Finalize, ActionStatus
  <2>2. call' \in [Caller -> [pc : Pc, action : Action \cup {Nobody}, post : PostId \cup {Nobody}]]
    BY DEF SocialInv, SocialTypeOK, PostFails, To, Pc
  <2> QED BY <2>1, <2>2, <1>0, <1>1 DEF SocialInv, SocialTypeOK, PostFails
<1>6. ~Owns(c)' /\ \A e \in Caller \ {c} : Owns(e)' <=> Owns(e)
  BY <1>2 DEF Owns
<1>7. \A e \in Caller \ {c} : Owns(e) => call[e].action # a
  BY <1>0 DEF SocialInv, CallersSound
<1>8. \A d \in Action : entry'[d].status = "none" => entry[d].status = "none" /\ d # a
  BY <1>0, <1>3
<1>9. CallersSound'
  <2>1. \A e, d \in Caller : (Owns(e) /\ Owns(d) /\ call[e].action = call[d].action => e = d)'
    BY <1>2, <1>6 DEF SocialInv, CallersSound
  <2>2. \A e \in Caller :
          /\ (call[e].pc # "idle" => call[e].action \in Action)'
          /\ (call[e].pc = "check" => <<call[e].action, call[e].post>> \in posts)'
          /\ (call[e].pc \in {"found", "other"} => call[e].post # Nobody)'
          /\ (call[e].pc = "report" /\ call[e].post # Nobody => <<call[e].action, call[e].post>> \in posts)'
    BY <1>0, <1>2, <1>4 DEF SocialInv, CallersSound
  <2>3. \A e \in Caller :
          /\ (Owns(e) => e \in Api \cup Relay /\ entry[call[e].action].status # "none")'
          /\ (call[e].pc = "write" => \A p \in posts : p[1] # call[e].action)'
    <3> SUFFICES ASSUME NEW e \in Caller, Owns(e)'
                 PROVE  /\ e \in Api \cup Relay /\ entry'[call'[e].action].status # "none"
                        /\ call'[e].pc = "write" => \A p \in posts' : p[1] # call'[e].action
      BY DEF Owns
    <3>1. e # c /\ call'[e] = call[e] /\ Owns(e) /\ call[e].action # a
      BY <1>2, <1>6, <1>7
    <3>2. call[e].action \in Action /\ e \in Api \cup Relay /\ entry[call[e].action].status # "none"
          /\ (call[e].pc = "write" => \A p \in posts : p[1] # call[e].action)
      BY <3>1 DEF SocialInv, CallersSound, Owns
    <3> QED BY <3>1, <3>2, <1>3, <1>4
  <2> QED
    BY <2>1, <2>2, <2>3 DEF CallersSound
<1>10. \A p \in posts : p[1] # a
  BY <1>0 DEF SocialInv, CallersSound
<1>11. PostsSound'
  <2>1. \A p, q \in posts' : p[1] = q[1] => p = q
    BY <1>4, <1>10 DEF SocialInv, PostsSound
  <2>2. \A d \in Action : entry'[d].status = "none" => entry'[d].post = Nobody /\ \A p \in posts' : p[1] # d
    BY <1>3, <1>4, <1>8 DEF SocialInv, PostsSound
  <2> QED BY <2>1, <2>2 DEF PostsSound
<1>12. SuccessIsReal'
  BY <1>3, <1>4 DEF SocialInv, SuccessIsReal, PostFails
<1> QED
  BY <1>5, <1>9, <1>11, <1>12 DEF SocialInv

\* The step of a caller keeps the invariant.
LEMMA CallerKeeps ==
  ASSUME SocialInv, NEW c \in Caller,
         \/ Posted(c) \/ PostFails(c) \/ Confirm(c)
         \/ RelayWrites(c) \/ RelayReports(c)
         \/ Verified(c) \/ Crashed(c) \/ Again(c)
  PROVE  SocialInv'
<1>0. /\ call[c] \in [pc : Pc, action : Action \cup {Nobody}, post : PostId \cup {Nobody}]
      /\ call[c].pc # "idle" => call[c].action \in Action
      /\ call[c].action \in Action =>
            entry[call[c].action] \in [status : ActionStatus, path : {"none", "api", "relay"},
                                       post : PostId \cup {Nobody}]
  BY DEF SocialInv, CallersSound, SocialTypeOK
<1>a. misnamed \subseteq Action
  BY DEF SocialInv, SocialTypeOK
<1>1. CASE Posted(c)
  <2>1. posts' = IF TRUE THEN posts \cup {<<call[c].action, c>>} ELSE posts
    BY <1>1 DEF Posted
  <2> QED BY <1>1, <2>1, WriteKeeps DEF Posted
<1>2. CASE PostFails(c)
  BY <1>2, PostFailsKeeps
<1>3. CASE Confirm(c)
  <2>1. PICK confirmed \in BOOLEAN :
           Finalize(call[c].action, IF confirmed THEN "success" ELSE "ambiguous", call[c].post)
    BY <1>3 DEF Confirm
  <2>2. /\ call[c].action \in Action /\ <<call[c].action, call[c].post>> \in posts
        /\ entry[call[c].action].status # "none"
    BY <1>3, <1>0 DEF Confirm, SocialInv, CallersSound, Owns
  <2>3. \E p \in posts : p[1] = call[c].action
    BY <2>2
  <2>4. PICK status \in {"success", "ambiguous"} : Finalize(call[c].action, status, call[c].post)
    BY <2>1
  <2>5. status \in ActionStatus \ {"none"}
    BY DEF ActionStatus
  <2> QED BY <1>0, <1>a, <1>3, <2>2, <2>3, <2>4, <2>5, FinalizeKeeps DEF Confirm
<1>4. CASE RelayWrites(c)
  <2>1. PICK written \in BOOLEAN :
          /\ posts' = IF written THEN posts \cup {<<call[c].action, c>>} ELSE posts
          /\ Knows(c, "report", IF written THEN c ELSE Nobody)
    BY <1>4 DEF RelayWrites
  <2>2. c # Nobody /\ c \in Api \cup Relay /\ call[c].pc = "write" /\ UNCHANGED <<entry, gone, misnamed>>
    BY <1>4, SocialAssumption DEF RelayWrites
  <2>3. CASE written
    BY <2>1, <2>2, <2>3, WriteKeeps
  <2>4. CASE ~written
    BY <2>1, <2>2, <2>4, WriteKeeps
  <2> QED BY <2>3, <2>4
<1>5. CASE RelayReports(c)
  <2>1. call[c].pc = "report" /\ call[c].action \in Action /\ entry[call[c].action].status # "none"
        /\ UNCHANGED <<posts, gone, misnamed>>
    BY <1>0, <1>5 DEF RelayReports
  <2>2. PICK pc \in {"ended", "report"} : To(c, pc)
    BY <1>5 DEF RelayReports
  <2>3. call[c].post # Nobody => <<call[c].action, call[c].post>> \in posts
    BY <2>1 DEF SocialInv, CallersSound
  <2>4. PICK status \in {"success", "ambiguous", "confirmed_failure"}, post \in {call[c].post, Nobody} :
          /\ Finalize(call[c].action, status, post)
          /\ status = "success" => call[c].post # Nobody
    BY <1>5 DEF RelayReports
  <2>5. status = "success" => \E p \in posts : p[1] = call[c].action
    BY <2>3, <2>4
  <2>6. status \in ActionStatus \ {"none"}
    BY DEF ActionStatus, Failure
  <2> QED BY <1>0, <1>a, <2>1, <2>2, <2>3, <2>4, <2>5, <2>6, FinalizeKeeps
<1>6. CASE Verified(c)
  <2> DEFINE a == call[c].action
  <2>1. a \in Action /\ call[c].post \in PostId /\ call[c].pc # "idle"
        /\ To(c, "ended") /\ UNCHANGED <<posts, gone>>
    BY <1>0, <1>6 DEF Verified, SocialInv, CallersSound
  <2>2. PICK status \in {"success", "confirmed_failure"} : Finalize(a, status, call[c].post)
    BY <1>6 DEF Verified
  <2>3. CASE entry[a].status = "none"
    <3> DEFINE new == [pc |-> "ended", action |-> call[c].action, post |-> call[c].post]
    <3>1. entry' = entry /\ misnamed' = misnamed
      BY <1>6, <2>2, <2>3 DEF Verified, Finalize
    <3>2. call' = [call EXCEPT ![c] = new]
      <4>1. [call[c] EXCEPT !.pc = "ended"] = new
        BY <1>0
      <4> QED BY <2>1, <4>1 DEF To
    <3>3. new \in [pc : Pc, action : Action \cup {Nobody}, post : PostId \cup {Nobody}]
      BY <1>0 DEF Pc
    <3>4. new.pc = "ended" /\ new.action = a
      OBVIOUS
    <3> HIDE DEF new
    <3> QED BY <2>1, <3>1, <3>2, <3>3, <3>4, LeavesKeeps
  <2>4. CASE entry[a].status # "none"
    <3>1. /\ misnamed \subseteq misnamed' /\ misnamed' \subseteq Action
          /\ a \in misnamed' \/ <<a, call[c].post>> \in posts
      BY <1>6, <2>1, <2>4 DEF Verified, SocialInv, SocialTypeOK
    <3>2. status \in ActionStatus \ {"none"}
      BY <2>2 DEF ActionStatus, Failure
    <3>3. \/ a \in misnamed'
          \/ /\ status = "success" => \E p \in posts : p[1] = a
             /\ call[c].post # Nobody => <<a, call[c].post>> \in posts
      BY <3>1
    <3> QED BY <2>1, <2>2, <2>4, <3>1, <3>2, <3>3, FinalizeKeeps
  <2> QED BY <2>3, <2>4
<1>7. CASE Crashed(c)
  <2> DEFINE new == [pc |-> "again", action |-> call[c].action, post |-> Nobody]
  <2>2. call' = [call EXCEPT ![c] = new] /\ UNCHANGED <<entry, posts, gone, misnamed>> /\ call[c].pc # "idle"
    BY <1>7 DEF Crashed
  <2>3. new \in [pc : Pc, action : Action \cup {Nobody}, post : PostId \cup {Nobody}]
    BY <1>0 DEF Pc
  <2>4. new.pc = "again" /\ new.action = call[c].action
    OBVIOUS
  <2> HIDE DEF new
  <2> QED BY <1>0, <2>2, <2>3, <2>4, LeavesKeeps
<1>8. CASE Again(c)
  <2>1. ~Owns(c) /\ call[c].pc # "idle"
    BY <1>8 DEF Again, Owns
  <2>2. PICK path \in {"api", "relay"} : Reserve(c, call[c].action, path)
    BY <1>8 DEF Again
  <2> QED BY <1>0, <1>8, <2>1, <2>2, ReserveKeeps DEF Again
<1> QED
  BY <1>1, <1>2, <1>3, <1>4, <1>5, <1>6, <1>7, <1>8

\* The inductive invariant of the social connector: a request owns its action from
\* its reservation to its report, an action without a row has no post, and a row
\* never says more than happened, unless a verification that named another post
\* made it say so.
THEOREM SocialInvariance == SocialSpec => []SocialInv
<1>1. SocialInit => SocialInv
  BY SocialAssumption DEF SocialInit, SocialInv, SocialTypeOK, CallersSound, PostsSound, SuccessIsReal,
     Owns, NoEntry, Idle, Pc, ActionStatus
<1>2. SocialInv /\ [SocialNext]_socialVars => SocialInv'
  <2> SUFFICES ASSUME SocialInv, [SocialNext]_socialVars
               PROVE  SocialInv'
    OBVIOUS
  <2>1. CASE UNCHANGED socialVars
    BY <2>1 DEF socialVars, SocialInv, SocialTypeOK, CallersSound, PostsSound, SuccessIsReal, Owns
  <2>2. ASSUME NEW c \in Caller, NEW a \in Action, Execute(c, a) \/ RelayReserve(c, a)
        PROVE  SocialInv'
    <3>1. ~Owns(c) /\ c \in Api \cup Relay /\ UNCHANGED <<posts, gone, misnamed>>
      BY <2>2 DEF Execute, RelayReserve, Owns
    <3>2. PICK path \in {"api", "relay"} : Reserve(c, a, path)
      BY <2>2 DEF Execute, RelayReserve
    <3> QED BY <3>1, <3>2, ReserveKeeps
  <2>3. ASSUME NEW c \in Caller, NEW a \in Action, Verify(c, a)
        PROVE  SocialInv'
    <3>1. PICK pc \in {"found", "other", "ended"}, post \in PostId \cup {Nobody} :
            /\ call' = [call EXCEPT ![c] = [pc |-> pc, action |-> a, post |-> post]]
            /\ pc \in {"found", "other"} => post # Nobody
      <4>1. \A answer \in There : answer \in PostId /\ answer # Nobody
        BY SocialAssumption DEF There, PostId, Caller, SocialInv, SocialTypeOK
      <4> QED BY <2>3, <4>1 DEF Verify
    <3> DEFINE new == [pc |-> pc, action |-> a, post |-> post]
    <3>2. new \in [pc : Pc, action : Action \cup {Nobody}, post : PostId \cup {Nobody}]
      BY DEF Pc
    <3>3. /\ new.pc = pc /\ new.action = a /\ new.post = post
          /\ UNCHANGED <<entry, posts, gone, misnamed>>
      BY <2>3 DEF Verify
    <3>4. new.pc \notin {"write", "check", "report"}
      BY <3>3
    <3>5. call' = [call EXCEPT ![c] = new]
      BY <3>1
    <3> HIDE DEF new
    <3> QED BY <3>1, <3>2, <3>3, <3>4, <3>5, LeavesKeeps
  <2>4. ASSUME NEW c \in Caller,
               \/ Posted(c) \/ PostFails(c) \/ Confirm(c)
               \/ RelayWrites(c) \/ RelayReports(c)
               \/ Verified(c) \/ Crashed(c) \/ Again(c)
        PROVE  SocialInv'
    BY <2>4, CallerKeeps
  <2>5. ASSUME NEW p \in posts, TakeDown(p)
        PROVE  SocialInv'
    BY <2>5 DEF TakeDown, SocialInv, SocialTypeOK, CallersSound, PostsSound, SuccessIsReal, Owns
  <2> QED
    BY <2>1, <2>2, <2>3, <2>4, <2>5 DEF SocialNext
<1> QED
  BY <1>1, <1>2, PTL DEF SocialSpec

\* Over the API and the relay together an action is written once at most, whatever
\* verify requests name; and a row that no verification has given another post says
\* success, and names an id, only of a post that was made for its action.
THEOREM SocialActionsAreSound == SocialSpec => []ActionsAreSound
<1>1. SocialInv => ActionsAreSound
  <2> SUFFICES ASSUME SocialInv, NEW a \in Action
               PROVE  Cardinality({p \in posts : p[1] = a}) <= 1
    BY DEF SocialInv, ActionsAreSound, OneWritePerKey
  <2> DEFINE P == {p \in posts : p[1] = a}
  <2>1. CASE P = {}
    BY <2>1, FS_EmptySet
  <2>2. CASE P # {}
    <3>1. PICK p \in P : P = {p}
      BY <2>2 DEF SocialInv, PostsSound
    <3>2. Cardinality({p}) = 1
      BY FS_Singleton
    <3> QED BY <3>1, <3>2
  <2> QED BY <2>1, <2>2
<1> QED
  BY <1>1, SocialInvariance, PTL

----------------------------------------------------------------------------
(* The control plane: accounts *)

\* A step that leaves the billing side alone keeps its part of the invariant.
LEMMA BillingKept ==
  ASSUME ControlInv, UNCHANGED billingVars,
         account' \in [Person -> [role : Role \cup {"none"}, disabled : BOOLEAN, password : 1..Passwords]],
         sessions' \subseteq [user : Person, password : 1..Passwords],
         OwnerRemains', SessionsAreCurrent', AccountsStartEnabled'
  PROVE  ControlInv'
<1>1. ControlTypeOK'
  BY DEF ControlInv, ControlIsSound, ControlTypeOK, billingVars
<1>2. BillingIsLastHeard' /\ CustomerIsKnown' /\ CustomersAreMade'
  BY DEF ControlInv, ControlIsSound, BillingIsLastHeard, Normalised, Future, CustomerIsKnown,
     CustomersAreMade, billingVars
<1> QED
  BY <1>1, <1>2 DEF ControlInv, ControlIsSound

\* A session that is opened is of an enabled account and of its password.
LEMMA LoginKeeps ==
  ASSUME ControlInv, NEW p \in Person, Login(p)
  PROVE  ControlInv'
<1>1. /\ sessions' \subseteq [user : Person, password : 1..Passwords]
      /\ account' \in [Person -> [role : Role \cup {"none"}, disabled : BOOLEAN, password : 1..Passwords]]
  BY DEF ControlInv, ControlIsSound, ControlTypeOK, Login, NewSession
<1>2. OwnerRemains' /\ AccountsStartEnabled'
  BY DEF ControlInv, ControlIsSound, OwnerRemains, AccountsStartEnabled, Exists, Login
<1>3. SessionsAreCurrent'
  BY DEF ControlInv, ControlIsSound, SessionsAreCurrent, Exists, Login, NewSession
<1> QED
  BY <1>1, <1>2, <1>3, BillingKept DEF Login

\* Logging out only removes sessions.
LEMMA LogoutKeeps ==
  ASSUME ControlInv, NEW p \in Person, Logout(p)
  PROVE  ControlInv'
<1>1. sessions' \subseteq sessions /\ account' = account
  BY DEF Logout, WithoutSessionsOf
<1>2. /\ sessions' \subseteq [user : Person, password : 1..Passwords]
      /\ account' \in [Person -> [role : Role \cup {"none"}, disabled : BOOLEAN, password : 1..Passwords]]
  BY <1>1 DEF ControlInv, ControlIsSound, ControlTypeOK
<1>3. OwnerRemains' /\ AccountsStartEnabled' /\ SessionsAreCurrent'
  BY <1>1 DEF ControlInv, ControlIsSound, OwnerRemains, AccountsStartEnabled, SessionsAreCurrent, Exists
<1> QED
  BY <1>2, <1>3, BillingKept DEF Logout

\* An owner with a session is enabled, and stays one when it makes an account.
LEMMA CreateUserKeeps ==
  ASSUME ControlInv, NEW o \in Person, NEW p \in Person, NEW role \in Role, CreateUser(o, p, role)
  PROVE  ControlInv'
<1>1. /\ sessions' = sessions /\ o # p
      /\ account[o].role = "owner" /\ ~account[o].disabled /\ account[p].role = "none"
  BY ControlAssumption DEF ControlInv, ControlIsSound, SessionsAreCurrent, CreateUser, IsOwner, SignedIn, Exists
<1>2. /\ account' \in [Person -> [role : Role \cup {"none"}, disabled : BOOLEAN, password : 1..Passwords]]
      /\ \A q \in Person \ {p} : account'[q] = account[q]
      /\ account'[p].role = role /\ account'[p].disabled = account[p].disabled
      /\ account'[p].password = account[p].password
  BY DEF ControlInv, ControlIsSound, ControlTypeOK, CreateUser
<1>3. OwnerRemains' /\ AccountsStartEnabled'
  BY <1>1, <1>2, ControlAssumption DEF ControlInv, OwnerRemains, AccountsStartEnabled, Exists
<1>4. \A s \in sessions : s.user \in Person
  BY DEF ControlInv, ControlIsSound, ControlTypeOK
<1>5. SessionsAreCurrent'
  BY <1>1, <1>2, <1>4 DEF ControlInv, ControlIsSound, SessionsAreCurrent, Exists
<1>6. sessions' \subseteq [user : Person, password : 1..Passwords]
  BY <1>1 DEF ControlInv, ControlIsSound, ControlTypeOK
<1> QED
  BY <1>2, <1>3, <1>5, <1>6, BillingKept DEF CreateUser

\* The owner that changes an account is an enabled owner afterwards: itself if it
\* changes another, and if it changes itself because it may not demote itself.
LEMMA UpdateUserKeeps ==
  ASSUME ControlInv, NEW o \in Person, NEW p \in Person, NEW role \in Role, NEW disabled \in BOOLEAN,
         UpdateUser(o, p, role, disabled)
  PROVE  ControlInv'
<1>1. /\ account[o].role = "owner" /\ ~account[o].disabled
      /\ account[p].role # "none"
      /\ o = p => role = "owner" /\ ~disabled
  BY DEF ControlInv, ControlIsSound, SessionsAreCurrent, UpdateUser, IsOwner, SignedIn, Exists
<1>2. /\ account' \in [Person -> [role : Role \cup {"none"}, disabled : BOOLEAN, password : 1..Passwords]]
      /\ \A q \in Person \ {p} : account'[q] = account[q]
      /\ account'[p].role = role /\ account'[p].disabled = disabled
      /\ account'[p].password = account[p].password
  <2>1. /\ account \in [Person -> [role : Role \cup {"none"}, disabled : BOOLEAN, password : 1..Passwords]]
        /\ account' = [account EXCEPT ![p].role = role, ![p].disabled = disabled]
    BY DEF ControlInv, ControlIsSound, ControlTypeOK, UpdateUser
  <2>2. /\ account[p].disabled \in BOOLEAN /\ account[p].password \in 1..Passwords
        /\ account[p] = [role |-> account[p].role, disabled |-> account[p].disabled,
                         password |-> account[p].password]
    BY <2>1
  <2> DEFINE changed == [[account[p] EXCEPT !.role = role] EXCEPT !.disabled = disabled]
  <2>3. /\ changed \in [role : Role \cup {"none"}, disabled : BOOLEAN, password : 1..Passwords]
        /\ changed.role = role /\ changed.disabled = disabled
        /\ changed.password = account[p].password
    BY <2>2
  <2>4. account' = [account EXCEPT ![p] = changed]
    BY <2>1
  <2> DEFINE Accounts == [role : Role \cup {"none"}, disabled : BOOLEAN, password : 1..Passwords]
  <2>5. account \in [Person -> Accounts] /\ changed \in Accounts
    BY <2>1, <2>3
  <2>6. ASSUME account \in [Person -> Accounts], changed \in Accounts
        PROVE  /\ account' \in [Person -> Accounts] /\ account'[p] = changed
               /\ \A q \in Person \ {p} : account'[q] = account[q]
    <3> HIDE DEF changed, Accounts
    <3> QED BY <2>4, <2>6
  <2> QED BY <2>3, <2>5, <2>6
<1>3. OwnerRemains'
  <2>1. account'[o].role = "owner" /\ ~account'[o].disabled
    BY <1>1, <1>2
  <2> QED BY <2>1 DEF OwnerRemains
<1>4. AccountsStartEnabled'
  BY <1>1, <1>2, ControlAssumption DEF ControlInv, AccountsStartEnabled, Exists
<1>5. /\ sessions' \subseteq sessions
      /\ \A s \in sessions' : s.user \in Person /\ (disabled => s.user # p)
  BY DEF ControlInv, ControlIsSound, ControlTypeOK, UpdateUser, WithoutSessionsOf
<1>6. SessionsAreCurrent'
  BY <1>1, <1>2, <1>5, ControlAssumption DEF ControlInv, ControlIsSound, SessionsAreCurrent, Exists
<1>7. sessions' \subseteq [user : Person, password : 1..Passwords]
  BY <1>5 DEF ControlInv, ControlIsSound, ControlTypeOK
<1> QED
  BY <1>2, <1>3, <1>4, <1>6, <1>7, BillingKept DEF UpdateUser

\* A password that changes takes the sessions of its user with it.
LEMMA SetPasswordKeeps ==
  ASSUME ControlInv, NEW o \in Person, NEW p \in Person, SetPassword(o, p)
  PROVE  ControlInv'
<1>1. /\ account' \in [Person -> [role : Role \cup {"none"}, disabled : BOOLEAN, password : 1..Passwords]]
      /\ \A q \in Person \ {p} : account'[q] = account[q]
      /\ account'[p].role = account[p].role /\ account'[p].disabled = account[p].disabled
  BY ControlAssumption DEF ControlInv, ControlIsSound, ControlTypeOK, SetPassword
<1>2. /\ sessions' \subseteq sessions
      /\ \A s \in sessions' : s.user \in Person \ {p}
  BY DEF ControlInv, ControlIsSound, ControlTypeOK, SetPassword, WithoutSessionsOf
<1>3. OwnerRemains' /\ AccountsStartEnabled'
  BY <1>1 DEF ControlInv, ControlIsSound, OwnerRemains, AccountsStartEnabled, Exists
<1>4. SessionsAreCurrent'
  BY <1>1, <1>2 DEF ControlInv, ControlIsSound, SessionsAreCurrent, Exists
<1>5. sessions' \subseteq [user : Person, password : 1..Passwords]
  BY <1>2 DEF ControlInv, ControlIsSound, ControlTypeOK
<1> QED
  BY <1>1, <1>3, <1>4, <1>5, BillingKept DEF SetPassword

----------------------------------------------------------------------------
(* The control plane: billing *)

\* What a billing state says of the subscription.
Said(b) == [status |-> b.status, trial |-> b.trial, period |-> b.period]

\* Normalising is of the type, keeps the customer, and is stable: a trial that is
\* over is canceled once and for all.
LEMMA NormalisedKeeps ==
  ASSUME ControlInv, NEW b \in Billing
  PROVE  /\ Normalised(b) \in Billing /\ Normalised(b).customer = b.customer
         /\ Said(b) \in {heard, Normalised(heard)} => Said(Normalised(b)) \in {heard, Normalised(heard)}
<1>1. heard \in Subscription
  BY DEF ControlInv, ControlIsSound, ControlTypeOK
<1>2. Normalised(b) = IF b.status = "trialing" /\ ~Future(b.trial)
         THEN [status |-> "canceled", trial |-> b.trial, period |-> b.period, customer |-> b.customer] ELSE b
  BY DEF Normalised, Billing
<1>3. Normalised(heard) = IF heard.status = "trialing" /\ ~Future(heard.trial)
         THEN [status |-> "canceled", trial |-> heard.trial, period |-> heard.period] ELSE heard
  BY <1>1 DEF Normalised, Subscription
<1>4. Normalised(b) \in Billing /\ Normalised(b).customer = b.customer
  BY <1>2 DEF Billing, Status
<1>5. ASSUME Said(b) = heard
      PROVE  Said(Normalised(b)) = Normalised(heard)
  <2>1. heard.status = b.status /\ heard.trial = b.trial /\ heard.period = b.period
    BY <1>5 DEF Said
  <2>2. CASE b.status = "trialing" /\ ~Future(b.trial)
    BY <2>1, <2>2, <1>2, <1>3 DEF Said
  <2>3. CASE ~(b.status = "trialing" /\ ~Future(b.trial))
    BY <2>1, <2>3, <1>2, <1>3, <1>5
  <2> QED BY <2>2, <2>3
<1>6. ASSUME Said(b) = Normalised(heard), Said(b) # heard
      PROVE  Said(Normalised(b)) = Normalised(heard)
  <2>1. b.status = "canceled"
    BY <1>3, <1>6 DEF Said
  <2> QED BY <2>1, <1>2, <1>6
<1> QED
  BY <1>4, <1>5, <1>6

\* A step that stores the billing as it is, normalised, or with another customer
\* that has been made, keeps the invariant, if it brings no customer back to
\* nothing.
LEMMA StoreKeeps ==
  ASSUME ControlInv, NEW c \in Checkout \cup {Unset},
         UNCHANGED <<accountVars, now, events, heard>>,
         billing' \in {billing, [Normalised(billing) EXCEPT !.customer = c]},
         checkout' \in [Checkout -> [pc : {"idle", "customer", "session", "ended"},
                                     customer : Checkout \cup {Unset}, read : Billing]],
         customers' \in [Checkout -> {"none", "made", "session", "subscribed"}],
         \A q \in Checkout : customers[q] # "none" => customers'[q] # "none",
         c # Unset => customers'[c] # "none",
         \A q \in Checkout : checkout'[q].pc = "session" =>
            checkout'[q].customer # Unset /\ customers'[checkout'[q].customer] # "none"
  PROVE  ControlInv'
<1>1. /\ billing \in Billing /\ Normalised(billing) \in Billing
      /\ Said(Normalised(billing)) \in {heard, Normalised(heard)} /\ Said(billing) \in {heard, Normalised(heard)}
  BY NormalisedKeeps DEF ControlInv, ControlIsSound, ControlTypeOK, BillingIsLastHeard, Said
<1>2. /\ billing' \in Billing
      /\ Said(billing') \in {Said(billing), Said(Normalised(billing))}
      /\ billing'.customer \in {billing.customer, c}
  <2>1. CASE billing' = billing
    BY <2>1, <1>1
  <2>2. CASE billing' = [Normalised(billing) EXCEPT !.customer = c]
    BY <2>2, <1>1 DEF Said, Billing
  <2> QED BY <2>1, <2>2
<1>3. ControlTypeOK'
  BY <1>2 DEF ControlInv, ControlIsSound, ControlTypeOK, accountVars
<1>4. OwnerRemains' /\ SessionsAreCurrent' /\ AccountsStartEnabled'
  BY DEF ControlInv, ControlIsSound, OwnerRemains, SessionsAreCurrent, AccountsStartEnabled, Exists, accountVars
<1>5. BillingIsLastHeard'
  <2>1. heard' = heard /\ Normalised(heard)' = Normalised(heard)
    BY DEF Normalised, Future
  <2> QED BY <2>1, <1>1, <1>2 DEF BillingIsLastHeard, Said
<1>6. CustomerIsKnown'
  BY <1>2, <1>1 DEF ControlInv, ControlIsSound, CustomerIsKnown, Billing
<1>7. CustomersAreMade'
  <2>1. \A e \in events : e.customer \in Checkout
    BY DEF ControlInv, ControlIsSound, ControlTypeOK
  <2> QED BY <2>1 DEF ControlInv, CustomersAreMade
<1> QED
  BY <1>3, <1>4, <1>5, <1>6, <1>7 DEF ControlInv, ControlIsSound

\* The checkout stores no more than the customer, whatever it has waited for.
LEMMA CheckoutKeeps ==
  ASSUME ControlInv, NEW q \in Checkout,
         \/ \E o \in Person : StartCheckout(q, o)
         \/ CustomerMade(q) \/ SessionMade(q) \/ CheckoutFails(q)
  PROVE  ControlInv'
<1>0. /\ billing \in Billing /\ Normalised(billing) \in Billing
      /\ Normalised(billing).customer = billing.customer
      /\ checkout \in [Checkout -> [pc : {"idle", "customer", "session", "ended"},
                                   customer : Checkout \cup {Unset}, read : Billing]]
      /\ customers \in [Checkout -> {"none", "made", "session", "subscribed"}]
      /\ \A r \in Checkout : checkout[r].pc = "session" =>
            checkout[r].customer # Unset /\ customers[checkout[r].customer] # "none"
      /\ billing.customer # Unset => customers[billing.customer] # "none"
  BY NormalisedKeeps DEF ControlInv, ControlIsSound, ControlTypeOK, CustomersAreMade, CustomerIsKnown
<1>1. CASE \E o \in Person : StartCheckout(q, o)
  <2> DEFINE c == billing.customer
  <2>1. /\ billing' = Normalised(billing)
        /\ checkout' = [checkout EXCEPT ![q] =
             [pc |-> IF c = Unset THEN "customer" ELSE "session", customer |-> c, read |-> Normalised(billing)]]
        /\ UNCHANGED <<accountVars, now, customers, events, heard>>
    BY <1>1 DEF StartCheckout
  <2>2. c \in Checkout \cup {Unset} /\ billing' = [Normalised(billing) EXCEPT !.customer = c]
    BY <2>1, <1>0 DEF Billing
  <2>3. checkout' \in [Checkout -> [pc : {"idle", "customer", "session", "ended"},
                                   customer : Checkout \cup {Unset}, read : Billing]]
    BY <2>1, <2>2, <1>0
  <2>4. \A r \in Checkout : checkout'[r].pc = "session" =>
            checkout'[r].customer # Unset /\ customers[checkout'[r].customer] # "none"
    <3>1. /\ \A r \in Checkout \ {q} : checkout'[r] = checkout[r]
          /\ checkout'[q].pc = "session" => c # Unset
          /\ checkout'[q].customer = c
      BY <2>1, <1>0
    <3> QED BY <3>1, <1>0
  <2> QED BY <2>1, <2>2, <2>3, <2>4, <1>0, StoreKeeps
<1>2. CASE CustomerMade(q)
  <2>1. /\ billing' = [Normalised(billing) EXCEPT !.customer = q]
        /\ customers' = [customers EXCEPT ![q] = "made"]
        /\ checkout' = [checkout EXCEPT ![q].pc = "session", ![q].customer = q]
        /\ UNCHANGED <<accountVars, now, events, heard>>
    BY <1>2 DEF CustomerMade, SaveCustomer
  <2>2. /\ customers' \in [Checkout -> {"none", "made", "session", "subscribed"}]
        /\ customers'[q] = "made" /\ \A r \in Checkout : customers[r] # "none" => customers'[r] # "none"
    BY <2>1, <1>0
  <2>3. /\ checkout' \in [Checkout -> [pc : {"idle", "customer", "session", "ended"},
                                   customer : Checkout \cup {Unset}, read : Billing]]
        /\ checkout'[q].customer = q /\ \A r \in Checkout \ {q} : checkout'[r] = checkout[r]
    BY <2>1, <1>0
  <2>4. q # Unset
    BY ControlAssumption
  <2>5. \A r \in Checkout : checkout'[r].pc = "session" =>
            checkout'[r].customer # Unset /\ customers'[checkout'[r].customer] # "none"
    BY <2>2, <2>3, <2>4, <1>0
  <2> QED BY <2>1, <2>2, <2>3, <2>5, StoreKeeps
<1>3. CASE SessionMade(q)
  <2> DEFINE c == checkout[q].customer
  <2>1. /\ billing' = [Normalised(billing) EXCEPT !.customer = c]
        /\ customers' = [customers EXCEPT ![c] = IF @ = "made" THEN "session" ELSE @]
        /\ checkout' = [checkout EXCEPT ![q].pc = "ended"]
        /\ UNCHANGED <<accountVars, now, events, heard>>
        /\ c \in Checkout /\ customers[c] # "none"
    BY <1>0, <1>3 DEF SessionMade, SaveCustomer
  <2>2. /\ customers' \in [Checkout -> {"none", "made", "session", "subscribed"}]
        /\ \A r \in Checkout : customers[r] # "none" => customers'[r] # "none"
    BY <2>1, <1>0
  <2>3. /\ checkout' \in [Checkout -> [pc : {"idle", "customer", "session", "ended"},
                                   customer : Checkout \cup {Unset}, read : Billing]]
        /\ checkout'[q].pc = "ended" /\ \A r \in Checkout \ {q} : checkout'[r] = checkout[r]
    BY <2>1, <1>0
  <2>4. \A r \in Checkout : checkout'[r].pc = "session" =>
            checkout'[r].customer # Unset /\ customers'[checkout'[r].customer] # "none"
    BY <2>2, <2>3, <1>0
  <2> QED BY <2>1, <2>2, <2>3, <2>4, StoreKeeps
<1>4. CASE CheckoutFails(q)
  <2>1. /\ billing' = billing
        /\ customers' \in {customers, [customers EXCEPT ![q] = "made"]}
        /\ checkout' = [checkout EXCEPT ![q].pc = "ended"]
        /\ UNCHANGED <<accountVars, now, events, heard>>
    BY <1>4 DEF CheckoutFails
  <2>2. /\ customers' \in [Checkout -> {"none", "made", "session", "subscribed"}]
        /\ \A r \in Checkout : customers[r] # "none" => customers'[r] # "none"
    BY <2>1, <1>0
  <2>3. /\ checkout' \in [Checkout -> [pc : {"idle", "customer", "session", "ended"},
                                   customer : Checkout \cup {Unset}, read : Billing]]
        /\ checkout'[q].pc = "ended" /\ \A r \in Checkout \ {q} : checkout'[r] = checkout[r]
    BY <2>1, <1>0
  <2>4. \A r \in Checkout : checkout'[r].pc = "session" =>
            checkout'[r].customer # Unset /\ customers'[checkout'[r].customer] # "none"
    BY <2>2, <2>3, <1>0
  <2> QED BY <2>1, <2>2, <2>3, <2>4, StoreKeeps
<1> QED
  BY <1>1, <1>2, <1>3, <1>4

\* An event is stored as it is, and is what was heard last; a completed checkout
\* stores only its customer.
LEMMA WebhookKeeps ==
  ASSUME ControlInv, NEW e \in events, Webhook(e)
  PROVE  ControlInv'
<1>1. e.customer \in Checkout /\ customers[e.customer] # "none"
  BY DEF ControlInv, ControlIsSound, ControlTypeOK, CustomersAreMade
<1>2. CASE e.kind = "completed"
  <2>1. /\ billing' = [Normalised(billing) EXCEPT !.customer = e.customer]
        /\ UNCHANGED <<accountVars, now, events, heard, checkout, customers>>
    BY <1>2 DEF Webhook
  <2> QED BY <2>1, <1>1, StoreKeeps DEF ControlInv, ControlIsSound, ControlTypeOK, CustomersAreMade
<1>3. CASE e.kind # "completed"
  <2>1. /\ billing' = [status |-> e.status, trial |-> e.trial, period |-> e.period, customer |-> e.customer]
        /\ heard' = [status |-> e.status, trial |-> e.trial, period |-> e.period]
        /\ UNCHANGED <<accountVars, now, events, checkout, customers>>
    BY <1>3 DEF Webhook
  <2>2. e.status \in Status /\ e.trial \in Dates /\ e.period \in Dates
    BY <1>3 DEF ControlInv, ControlIsSound, ControlTypeOK
  <2>3. ControlTypeOK'
    BY <2>1, <2>2, <1>1 DEF ControlInv, ControlIsSound, ControlTypeOK, accountVars, Billing, Subscription
  <2>4. BillingIsLastHeard' /\ CustomerIsKnown'
    BY <2>1, <1>1 DEF BillingIsLastHeard, CustomerIsKnown
  <2>5. OwnerRemains' /\ SessionsAreCurrent' /\ AccountsStartEnabled' /\ CustomersAreMade'
    BY <2>1 DEF ControlInv, ControlIsSound, OwnerRemains, SessionsAreCurrent, AccountsStartEnabled,
       CustomersAreMade, Exists, accountVars
  <2> QED BY <2>3, <2>4, <2>5 DEF ControlInv, ControlIsSound
<1> QED BY <1>2, <1>3

\* Stripe reports of customers that have been made.
LEMMA StripeKeeps ==
  ASSUME ControlInv, NEW c \in Checkout, Subscribe(c) \/ Change(c)
  PROVE  ControlInv'
<1>1. customers[c] \in {"session", "subscribed"} /\ UNCHANGED <<accountVars, billing, now, checkout, heard>>
  BY DEF Subscribe, Change
<1>2. /\ customers' \in [Checkout -> {"none", "made", "session", "subscribed"}]
      /\ \A r \in Checkout : customers[r] # "none" => customers'[r] # "none"
  BY DEF ControlInv, ControlIsSound, ControlTypeOK, Subscribe, Change
<1>3. \A e \in events' \ events : e.customer = c
  BY DEF Subscribe, Change, Report
<1>4. events' \subseteq [kind : {"completed"}, customer : Checkout] \cup
                       [kind : {"subscription"}, customer : Checkout,
                        status : Status, trial : Dates, period : Dates]
  <2>1. \A status \in Status, t, d \in Dates : Report(c, status, t, d) \in
          [kind : {"subscription"}, customer : Checkout, status : Status, trial : Dates, period : Dates]
    BY DEF Report
  <2>2. now + 1 \in Dates /\ Unset \in Dates
    BY DEF ControlInv, ControlIsSound, ControlTypeOK, Dates
  <2>3. {"trialing", "active", "past_due", "canceled"} \subseteq Status
    BY DEF Status
  <2>4. [kind |-> "completed", customer |-> c] \in [kind : {"completed"}, customer : Checkout]
    OBVIOUS
  <2>5. CASE Subscribe(c)
    BY <2>1, <2>2, <2>3, <2>4, <2>5 DEF ControlInv, ControlIsSound, ControlTypeOK, Subscribe
  <2>6. CASE Change(c)
    BY <2>1, <2>2, <2>3, <2>6 DEF ControlInv, ControlIsSound, ControlTypeOK, Change
  <2> QED BY <2>5, <2>6
<1>5. ControlTypeOK'
  BY <1>1, <1>2, <1>4 DEF ControlInv, ControlIsSound, ControlTypeOK, accountVars
<1>6. OwnerRemains' /\ SessionsAreCurrent' /\ AccountsStartEnabled' /\ BillingIsLastHeard'
  BY <1>1 DEF ControlInv, ControlIsSound, OwnerRemains, SessionsAreCurrent, AccountsStartEnabled,
     Exists, BillingIsLastHeard, Normalised, Future, accountVars
<1>7. CustomerIsKnown'
  BY <1>1, <1>2 DEF ControlInv, ControlIsSound, ControlTypeOK, CustomerIsKnown, Billing
<1>8. CustomersAreMade'
  <2>1. customers'[c] # "none"
    BY <1>1, <1>2
  <2>2. \A e \in events : e.customer \in Checkout /\ customers'[e.customer] # "none"
    BY <1>2 DEF ControlInv, ControlIsSound, ControlTypeOK, CustomersAreMade
  <2>3. \A q \in Checkout : checkout'[q].pc = "session" =>
            checkout'[q].customer # Unset /\ customers'[checkout'[q].customer] # "none"
    BY <1>1, <1>2 DEF ControlInv, ControlIsSound, ControlTypeOK, CustomersAreMade
  <2> QED BY <2>1, <2>2, <2>3, <1>3 DEF CustomersAreMade
<1> QED
  BY <1>5, <1>6, <1>7, <1>8 DEF ControlInv, ControlIsSound

\* Time makes a trial end, and what was stored may then be what was heard.
LEMMA TimeKeeps ==
  ASSUME ControlInv, TimePasses
  PROVE  ControlInv'
<1>1. now \in Nat /\ now' = now + 1 /\ UNCHANGED <<accountVars, billing, checkout, customers, events, heard>>
  BY DEF ControlInv, ControlIsSound, ControlTypeOK, TimePasses
<1>2. ControlTypeOK'
  BY <1>1 DEF ControlInv, ControlIsSound, ControlTypeOK, accountVars
<1>3. BillingIsLastHeard'
  <2>1. heard \in Subscription
    BY DEF ControlInv, ControlIsSound, ControlTypeOK
  <2>2. \A t \in Dates : Future(t)' => Future(t)
    BY <1>1, ControlAssumption DEF Future, Dates
  <2>3. Normalised(heard) \in {heard, Normalised(heard)'}
    BY <2>1, <2>2, <1>1 DEF Normalised, Subscription
  <2> QED BY <2>3, <1>1 DEF ControlInv, ControlIsSound, BillingIsLastHeard
<1>4. OwnerRemains' /\ SessionsAreCurrent' /\ AccountsStartEnabled' /\ CustomerIsKnown' /\ CustomersAreMade'
  BY <1>1 DEF ControlInv, ControlIsSound, OwnerRemains, SessionsAreCurrent, AccountsStartEnabled,
     Exists, CustomerIsKnown, CustomersAreMade, accountVars
<1> QED
  BY <1>2, <1>3, <1>4 DEF ControlInv, ControlIsSound

\* The first account is an enabled owner, and its trial is what has been heard.
LEMMA BootstrapKeeps ==
  ASSUME ControlInv, NEW p \in Person, Bootstrap(p)
  PROVE  ControlInv'
<1>1. /\ \A q \in Person : account[q].role = "none" /\ ~account[q].disabled
      /\ sessions = {} /\ now \in Nat
      /\ account \in [Person -> [role : Role \cup {"none"}, disabled : BOOLEAN, password : 1..Passwords]]
  BY DEF ControlInv, ControlIsSound, ControlTypeOK, SessionsAreCurrent, AccountsStartEnabled, Bootstrap, Exists
<1>2. /\ account' \in [Person -> [role : Role \cup {"none"}, disabled : BOOLEAN, password : 1..Passwords]]
      /\ \A q \in Person \ {p} : account'[q] = account[q]
      /\ account'[p].role = "owner" /\ ~account'[p].disabled /\ account'[p].password = account[p].password
  BY <1>1, ControlAssumption DEF Bootstrap
<1>3. sessions' = {[user |-> p, password |-> account[p].password]}
  BY <1>1 DEF Bootstrap, NewSession
<1>4. OwnerRemains' /\ SessionsAreCurrent' /\ AccountsStartEnabled'
  BY <1>1, <1>2, <1>3 DEF OwnerRemains, SessionsAreCurrent, AccountsStartEnabled, Exists
<1>5. /\ billing' = [status |-> "trialing", trial |-> now + 1, period |-> Unset, customer |-> Unset]
      /\ heard' = [status |-> "trialing", trial |-> now + 1, period |-> Unset]
      /\ UNCHANGED <<now, checkout, customers, events>>
  BY DEF Bootstrap
<1>6. billing' \in Billing /\ heard' \in Subscription
  BY <1>1, <1>5 DEF Billing, Subscription, Dates, Status
<1>7. ControlTypeOK'
  <2>1. sessions' \subseteq [user : Person, password : 1..Passwords]
    BY <1>1, <1>3
  <2> QED BY <2>1, <1>2, <1>5, <1>6 DEF ControlInv, ControlIsSound, ControlTypeOK
<1>8. BillingIsLastHeard' /\ CustomerIsKnown' /\ CustomersAreMade'
  BY <1>5 DEF ControlInv, BillingIsLastHeard, CustomerIsKnown, CustomersAreMade
<1> QED
  BY <1>4, <1>7, <1>8 DEF ControlInv, ControlIsSound

\* The inductive invariant of the control plane.
THEOREM ControlInvariance == ControlSpec => []ControlInv
<1>1. ControlInit => ControlInv
  <2> SUFFICES ASSUME ControlInit PROVE ControlInv
    OBVIOUS
  <2>1. billing \in Billing /\ heard \in Subscription
    BY DEF ControlInit, Billing, Subscription, Dates, Status
  <2>2. ControlTypeOK
    BY <2>1, ControlAssumption DEF ControlInit, ControlTypeOK
  <2>3. BillingIsLastHeard /\ CustomerIsKnown /\ CustomersAreMade
    BY DEF ControlInit, BillingIsLastHeard, CustomerIsKnown, CustomersAreMade
  <2>4. OwnerRemains /\ SessionsAreCurrent /\ AccountsStartEnabled
    BY DEF ControlInit, OwnerRemains, SessionsAreCurrent, AccountsStartEnabled, Exists
  <2> QED BY <2>2, <2>3, <2>4 DEF ControlInv, ControlIsSound
<1>2. ControlInv /\ [ControlNext]_controlVars => ControlInv'
  <2> SUFFICES ASSUME ControlInv, [ControlNext]_controlVars
               PROVE  ControlInv'
    OBVIOUS
  <2>1. CASE UNCHANGED controlVars
    BY <2>1, BillingKept DEF controlVars, accountVars, ControlInv, ControlIsSound, ControlTypeOK,
       OwnerRemains, SessionsAreCurrent, AccountsStartEnabled, Exists
  <2>2. CASE \E p \in Person : Bootstrap(p) \/ Login(p) \/ Logout(p)
    BY <2>2, BootstrapKeeps, LoginKeeps, LogoutKeeps
  <2>3. CASE \E o, p \in Person :
               \/ SetPassword(o, p)
               \/ \E role \in Role :
                     \/ CreateUser(o, p, role)
                     \/ \E disabled \in BOOLEAN : UpdateUser(o, p, role, disabled)
    BY <2>3, SetPasswordKeeps, CreateUserKeeps, UpdateUserKeeps
  <2>4. CASE \E q \in Checkout :
               \/ \E o \in Person : StartCheckout(q, o)
               \/ CustomerMade(q) \/ SessionMade(q) \/ CheckoutFails(q)
               \/ Subscribe(q) \/ Change(q)
    BY <2>4, CheckoutKeeps, StripeKeeps
  <2>5. CASE \E e \in events : Webhook(e)
    BY <2>5, WebhookKeeps
  <2>6. CASE ReadBilling
    <3>1. /\ billing' = Normalised(billing) /\ billing \in Billing /\ Normalised(billing) \in Billing
          /\ Normalised(billing).customer = billing.customer
          /\ UNCHANGED <<accountVars, now, checkout, customers, events, heard>>
      BY <2>6, NormalisedKeeps DEF ReadBilling, ControlInv, ControlIsSound, ControlTypeOK
    <3>2. billing' = [Normalised(billing) EXCEPT !.customer = billing.customer]
          /\ billing.customer \in Checkout \cup {Unset}
      BY <3>1 DEF Billing
    <3> QED
      BY <3>1, <3>2, StoreKeeps DEF ControlInv, ControlIsSound, ControlTypeOK, CustomersAreMade, CustomerIsKnown
  <2>7. CASE TimePasses
    BY <2>7, TimeKeeps
  <2> QED
    BY <2>1, <2>2, <2>3, <2>4, <2>5, <2>6, <2>7 DEF ControlNext
<1> QED
  BY <1>1, <1>2, PTL DEF ControlSpec

\* However requests, webhooks and time interleave: there is an enabled owner, a
\* session is of an enabled account and its present password, the subscription is
\* what was last heard of it, and a stored customer exists.
THEOREM ControlPlaneIsSound == ControlSpec => []ControlIsSound
<1>1. ControlInv => ControlIsSound
  BY DEF ControlInv
<1> QED
  BY <1>1, ControlInvariance, PTL

----------------------------------------------------------------------------
(* The ingest: pairing *)

\* A batch that does not change stays sound while no row is inserted.
LEMMA BatchKept ==
  ASSUME NEW o \in Request, UNCHANGED <<rows, raced>>, batch'[o] = batch[o], BatchSound(o)
  PROVE  BatchSound(o)'
<1>1. RowsOf(batch[o].user)' = RowsOf(batch[o].user)
  BY DEF RowsOf
<1>2. Disjoint(batch[o].user, batch[o].recs)' <=> Disjoint(batch[o].user, batch[o].recs)
  BY <1>1 DEF Disjoint
<1> QED
  BY <1>1, <1>2 DEF BatchSound

\* A step of pairing leaves the batches and the rows alone.
LEMMA BatchesKept ==
  ASSUME IngestInv, UNCHANGED batchVars,
         pair' \in [Attempt -> [pc : {"idle", "claim", "insert", "ended"}, code : Code \cup {Null}]],
         code' \in [Code -> [used : BOOLEAN, expired : BOOLEAN]],
         device' \in [Attempt -> {"none", "paired", "revoked"}],
         CodesAreHeld'
  PROVE  IngestInv'
<1>1. IngestTypeOK'
  BY DEF IngestInv, IngestTypeOK, batchVars
<1>2. BatchesSound' /\ RowsAreSingle' /\ RowsAreOwn'
  <2>1. UNCHANGED <<enabled, rows, batch, raced>>
    BY DEF batchVars
  <2>2. BatchesSound'
    BY <2>1, BatchKept DEF IngestInv, BatchesSound
  <2>3. RowsAreSingle' /\ RowsAreOwn'
    BY <2>1 DEF IngestInv, RowsAreSingle, RowsAreOwn
  <2> QED BY <2>2, <2>3
<1> QED
  BY <1>1, <1>2 DEF IngestInv

\* A code is looked up by a request that holds nothing yet.
LEMMA LookupKeeps ==
  ASSUME IngestInv, NEW q \in Attempt, NEW c \in Code, Lookup(q, c)
  PROVE  IngestInv'
<1>1. /\ pair' \in [Attempt -> [pc : {"idle", "claim", "insert", "ended"}, code : Code \cup {Null}]]
      /\ pair'[q].pc = "claim" /\ pair'[q].code = c /\ \A r \in Attempt \ {q} : pair'[r] = pair[r]
      /\ code' = code /\ device' = device /\ device[q] = "none"
  BY DEF IngestInv, IngestTypeOK, CodesAreHeld, Lookup
<1>2. ~Holds(q)' /\ \A r \in Attempt \ {q} : Holds(r)' <=> Holds(r)
  BY <1>1 DEF Holds
<1>3. CodesAreHeld'
  BY <1>1, <1>2 DEF IngestInv, CodesAreHeld
<1> QED
  BY <1>1, <1>3, BatchesKept DEF Lookup, IngestInv, IngestTypeOK

\* A code that is claimed was not used, so nobody holds it.
LEMMA ClaimKeeps ==
  ASSUME IngestInv, NEW q \in Attempt, Claim(q)
  PROVE  IngestInv'
<1> DEFINE c == pair[q].code
<1>0. c \in Code /\ pair[q].pc = "claim" /\ device[q] = "none" /\ device' = device
  BY DEF IngestInv, CodesAreHeld, Claim
<1>1. /\ pair' \in [Attempt -> [pc : {"idle", "claim", "insert", "ended"}, code : Code \cup {Null}]]
      /\ code' \in [Code -> [used : BOOLEAN, expired : BOOLEAN]]
      /\ pair'[q].code = c /\ \A r \in Attempt \ {q} : pair'[r] = pair[r]
      /\ \A d \in Code : code[d].used => code'[d].used
  <2>1. CASE /\ code' = [code EXCEPT ![c].used = TRUE]
             /\ pair' = [pair EXCEPT ![q].pc = "insert"]
    <3>1. /\ pair \in [Attempt -> [pc : {"idle", "claim", "insert", "ended"}, code : Code \cup {Null}]]
          /\ code \in [Code -> [used : BOOLEAN, expired : BOOLEAN]]
      BY DEF IngestInv, IngestTypeOK
    <3>2. /\ pair' \in [Attempt -> [pc : {"idle", "claim", "insert", "ended"}, code : Code \cup {Null}]]
          /\ pair'[q].code = c /\ \A r \in Attempt \ {q} : pair'[r] = pair[r]
      BY <2>1, <3>1
    <3>3. code' \in [Code -> [used : BOOLEAN, expired : BOOLEAN]]
      BY <2>1, <3>1, <1>0
    <3>4. \A d \in Code : code[d].used => code'[d].used
      BY <2>1, <3>1, <1>0
    <3> QED BY <3>2, <3>3, <3>4
  <2>2. CASE code' = code /\ pair' = [pair EXCEPT ![q].pc = "ended"]
    BY <2>2, <1>0 DEF IngestInv, IngestTypeOK
  <2> QED BY <2>1, <2>2 DEF Claim
<1>2. \/ pair'[q].pc = "ended"
      \/ pair'[q].pc = "insert" /\ ~code[c].used /\ code'[c].used
  BY <1>0 DEF IngestInv, IngestTypeOK, Claim
<1>3. \A r \in Attempt \ {q} : Holds(r)' <=> Holds(r)
  BY <1>0, <1>1 DEF Holds
<1>4. Holds(q)' => ~code[c].used /\ code'[c].used
  BY <1>0, <1>2 DEF Holds
<1>5. CodesAreHeld'
  <2>1. \A r \in Attempt : Holds(r)' => pair'[r].code \in Code /\ code'[pair'[r].code].used
    BY <1>0, <1>1, <1>3, <1>4 DEF IngestInv, CodesAreHeld
  <2>2. \A r \in Attempt : pair'[r].pc # "idle" => pair'[r].code \in Code
    BY <1>0, <1>1 DEF IngestInv, CodesAreHeld
  <2>3. \A r \in Attempt : pair'[r].pc \in {"idle", "claim"} => device'[r] = "none"
    BY <1>0, <1>1, <1>2 DEF IngestInv, CodesAreHeld
  <2>4. \A r \in Attempt \ {q} : Holds(r)' /\ Holds(q)' => pair'[r].code # c
    BY <1>1, <1>3, <1>4 DEF IngestInv, CodesAreHeld
  <2>5. \A r, t \in Attempt : Holds(r)' /\ Holds(t)' /\ pair'[r].code = pair'[t].code => r = t
    <3> SUFFICES ASSUME NEW r \in Attempt, NEW t \in Attempt, Holds(r)', Holds(t)',
                        pair'[r].code = pair'[t].code, r # t
                 PROVE  FALSE
      OBVIOUS
    <3>1. CASE r # q /\ t # q
      BY <3>1, <1>1, <1>3 DEF IngestInv, CodesAreHeld
    <3>2. CASE r = q \/ t = q
      BY <3>2, <1>1, <2>4
    <3> QED BY <3>1, <3>2
  <2> QED BY <2>1, <2>2, <2>3, <2>5 DEF CodesAreHeld
<1> QED
  BY <1>0, <1>1, <1>5, BatchesKept DEF Claim, IngestInv, IngestTypeOK

\* What a request holds it keeps as a device, or gives up; codes expire, and
\* devices that are revoked stay.
LEMMA PairedKeeps ==
  ASSUME IngestInv,
         \/ \E q \in Attempt : Issue(q)
         \/ \E c \in Code : Expire(c)
         \/ \E D \in SUBSET Attempt : Revoke(D)
  PROVE  IngestInv'
<1>0. /\ pair \in [Attempt -> [pc : {"idle", "claim", "insert", "ended"}, code : Code \cup {Null}]]
      /\ code \in [Code -> [used : BOOLEAN, expired : BOOLEAN]]
      /\ device \in [Attempt -> {"none", "paired", "revoked"}]
  BY DEF IngestInv, IngestTypeOK
<1> DEFINE Kept ==
      /\ pair' \in [Attempt -> [pc : {"idle", "claim", "insert", "ended"}, code : Code \cup {Null}]]
      /\ code' \in [Code -> [used : BOOLEAN, expired : BOOLEAN]]
      /\ device' \in [Attempt -> {"none", "paired", "revoked"}]
      /\ \A r \in Attempt : pair'[r].code = pair[r].code
      /\ \A r \in Attempt : pair'[r].pc = pair[r].pc \/ (pair[r].pc = "insert" /\ pair'[r].pc = "ended")
      /\ \A d \in Code : code'[d].used = code[d].used
      /\ \A r \in Attempt : device[r] = "none" =>
            device'[r] = "none" \/ (pair[r].pc = "insert" /\ pair'[r].pc = "ended")
<1>1. Kept
  <2>1. ASSUME NEW q \in Attempt, Issue(q)
        PROVE  Kept
    <3>1. pair' = [pair EXCEPT ![q].pc = "ended"] /\ code' = code /\ pair[q].pc = "insert"
      BY <2>1 DEF Issue
    <3>2. device' \in [Attempt -> {"none", "paired", "revoked"}] /\ \A r \in Attempt \ {q} : device'[r] = device[r]
      BY <2>1, <1>0 DEF Issue
    <3> QED BY <3>1, <3>2, <1>0
  <2>2. ASSUME NEW c \in Code, Expire(c)
        PROVE  Kept
    BY <2>2, <1>0 DEF Expire
  <2>3. ASSUME NEW D \in SUBSET Attempt, Revoke(D)
        PROVE  Kept
    BY <2>3, <1>0 DEF Revoke
  <2> QED BY <2>1, <2>2, <2>3
<1>2. \A r \in Attempt : Holds(r)' => Holds(r)
  BY <1>1 DEF Holds
<1>3. CodesAreHeld'
  BY <1>1, <1>2 DEF IngestInv, CodesAreHeld
<1>4. UNCHANGED batchVars
  BY DEF Issue, Expire, Revoke
<1> QED
  BY <1>1, <1>3, <1>4, BatchesKept

----------------------------------------------------------------------------
(* The ingest: batches *)

\* A step of a batch that inserts nothing: the pairing and the rows stay, and so
\* do the other batches.
LEMMA BatchKeeps ==
  ASSUME IngestInv, UNCHANGED <<pairVars, rows, raced>>, NEW b \in Request,
         batch' \in [Request -> [pc : {"idle", "check", "lookup", "insert", "ended"},
                                 user : Users, recs : Left, known : Nat]],
         \A o \in Request \ {b} : batch'[o] = batch[o],
         batch'[b].pc \in {"lookup", "insert"} =>
            \A i \in DOMAIN batch'[b].recs : UserOf[Source[batch'[b].recs[i]]] = batch'[b].user,
         batch'[b].pc = "insert" =>
            /\ \A i, j \in DOMAIN batch'[b].recs :
                  i # j => Keys[batch'[b].recs[i]] \cap Keys[batch'[b].recs[j]] = {}
            /\ batch'[b].known <= Cardinality(RowsOf(batch'[b].user))
            /\ batch'[b].user \notin raced => Disjoint(batch'[b].user, batch'[b].recs)
  PROVE  IngestInv'
<1>1. IngestTypeOK'
  BY DEF IngestInv, IngestTypeOK, pairVars
<1>2. CodesAreHeld'
  BY DEF IngestInv, CodesAreHeld, Holds, pairVars
<1>3. RowsAreSingle' /\ RowsAreOwn'
  BY DEF IngestInv, RowsAreSingle, RowsAreOwn
<1>5. BatchesSound'
  <2> SUFFICES ASSUME NEW o \in Request
               PROVE  BatchSound(o)'
    BY DEF BatchesSound
  <2>1. (Cardinality(RowsOf(batch[o].user)))' = Cardinality(RowsOf(batch'[o].user))
    BY DEF RowsOf
  <2>2. CASE o = b
    BY <2>1, <2>2 DEF BatchSound, Disjoint, RowsOf
  <2>3. CASE o # b
    BY <2>3, BatchKept DEF IngestInv, BatchesSound
  <2> QED BY <2>2, <2>3
<1> QED
  BY <1>1, <1>2, <1>3, <1>5 DEF IngestInv

\* Part of what is left of a batch is what is left of it.
LEMMA RestrictLeft ==
  ASSUME NEW recs \in Left, NEW keep \in SUBSET DOMAIN recs
  PROVE  /\ Restrict(recs, keep) \in Left
         /\ DOMAIN Restrict(recs, keep) = keep
         /\ \A i \in keep : Restrict(recs, keep)[i] = recs[i] /\ recs[i] \in Record
<1>1. PICK D \in SUBSET (1..MaxRecords) : recs \in [D -> Record]
  BY DEF Left
<1>2. DOMAIN recs = D /\ keep \in SUBSET (1..MaxRecords)
  BY <1>1
<1>3. Restrict(recs, keep) \in [keep -> Record]
  BY <1>1, <1>2 DEF Restrict
<1> QED
  BY <1>1, <1>2, <1>3 DEF Restrict, Left

\* A batch that arrives is left with the first record of each identity.
LEMMA ArrivesKeeps ==
  ASSUME IngestInv, NEW b \in Request, NEW recs \in Batches,
         FromCollector(b, recs) \/ \E d \in Attempt : FromDevice(b, d, recs)
  PROVE  IngestInv'
<1>1. recs \in Left
  BY IngestAssumption DEF Batches, Left
<1>2. Distinct(recs) \in Left
  BY <1>1, RestrictLeft DEF Distinct
<1>3. Nothing \in Left
  BY DEF Nothing, Left
<1>4. CASE FromCollector(b, recs)
  <2>1. batch' = [batch EXCEPT ![b].pc = "check", ![b].recs = Distinct(recs)]
    BY <1>4 DEF FromCollector
  <2>2. /\ batch' \in [Request -> [pc : {"idle", "check", "lookup", "insert", "ended"},
                                  user : Users, recs : Left, known : Nat]]
        /\ batch'[b].pc = "check" /\ \A o \in Request \ {b} : batch'[o] = batch[o]
    BY <2>1, <1>2 DEF IngestInv, IngestTypeOK
  <2> QED BY <2>2, <1>4, BatchKeeps DEF FromCollector
<1>5. ASSUME NEW d \in Attempt, FromDevice(b, d, recs)
      PROVE  IngestInv'
  <2>1. pair[d].code \in Code
    BY <1>5 DEF FromDevice, IngestInv, CodesAreHeld, Holds
  <2>2. DeviceUser(d) \in Users
    BY <2>1 DEF DeviceUser, Users
  <2>3. batch' = [batch EXCEPT ![b].pc = "check", ![b].user = DeviceUser(d), ![b].recs = Distinct(recs)]
    BY <1>5 DEF FromDevice
  <2>4. /\ batch' \in [Request -> [pc : {"idle", "check", "lookup", "insert", "ended"},
                                  user : Users, recs : Left, known : Nat]]
        /\ batch'[b].pc = "check" /\ \A o \in Request \ {b} : batch'[o] = batch[o]
    BY ZenonT(60), <2>2, <2>3, <1>2 DEF IngestInv, IngestTypeOK
  <2> QED BY <2>4, <1>5, BatchKeeps DEF FromDevice
<1> QED
  BY <1>4, <1>5

\* What passes the checks of the sources is of the one user that is left.
LEMMA CheckSourcesKeeps ==
  ASSUME IngestInv, NEW b \in Request, CheckSources(b)
  PROVE  IngestInv'
<1> DEFINE recs == batch[b].recs
           claimed(r) == IF batch[b].user = Null THEN UserOf[Source[r]] ELSE batch[b].user
           good == {i \in DOMAIN recs :
                      Source[recs[i]] \in enabled /\ UserOf[Source[recs[i]]] = claimed(recs[i])}
           users == {claimed(recs[i]) : i \in good}
<1>0. recs \in Left /\ batch[b].user \in Users /\ UNCHANGED <<pairVars, rows, raced>>
  BY DEF IngestInv, IngestTypeOK, CheckSources
<1>1. ASSUME NEW u \in users, users = {u},
             batch' = [batch EXCEPT ![b].pc = "lookup", ![b].user = u, ![b].recs = Restrict(recs, good)]
      PROVE  IngestInv'
  <2> DEFINE left == Restrict(recs, good)
  <2>1. left \in Left /\ DOMAIN left = good /\ \A i \in good : left[i] = recs[i] /\ recs[i] \in Record
    BY <1>0, RestrictLeft
  <2>2. \A i \in good : UserOf[Source[recs[i]]] = u
    <3> SUFFICES ASSUME NEW i \in good PROVE UserOf[Source[recs[i]]] = u
      OBVIOUS
    <3>1. claimed(recs[i]) \in users
      OBVIOUS
    <3>2. claimed(recs[i]) = u
      BY <3>1, <1>1
    <3>3. UserOf[Source[recs[i]]] = claimed(recs[i])
      OBVIOUS
    <3> QED BY <3>2, <3>3
  <2>3. u \in Users
    <3>1. PICK i \in good : TRUE
      BY <1>1
    <3> QED BY <3>1, <2>1, <2>2 DEF Users
  <2> HIDE DEF left, users, claimed
  <2>4. /\ batch' \in [Request -> [pc : {"idle", "check", "lookup", "insert", "ended"},
                                  user : Users, recs : Left, known : Nat]]
        /\ \A o \in Request \ {b} : batch'[o] = batch[o]
        /\ batch'[b].pc = "lookup" /\ batch'[b].user = u /\ batch'[b].recs = left
    <3>1. batch' = [batch EXCEPT ![b].pc = "lookup", ![b].user = u, ![b].recs = left]
      BY <1>1 DEF left
    <3>2. left \in Left
      BY <2>1
    <3> QED BY <3>1, <3>2, <2>3 DEF IngestInv, IngestTypeOK
  <2>5. \A i \in DOMAIN left : UserOf[Source[left[i]]] = u
    BY <2>1, <2>2
  <2> QED BY <1>0, <2>4, <2>5, BatchKeeps
<1>2. ASSUME batch' = [batch EXCEPT ![b].pc = "ended", ![b].recs = Nothing]
      PROVE  IngestInv'
  <2>1. Nothing \in Left
    BY DEF Nothing, Left
  <2>2. /\ batch' \in [Request -> [pc : {"idle", "check", "lookup", "insert", "ended"},
                                  user : Users, recs : Left, known : Nat]]
        /\ batch'[b].pc = "ended" /\ \A o \in Request \ {b} : batch'[o] = batch[o]
    BY <1>2, <2>1 DEF IngestInv, IngestTypeOK
  <2> QED BY <1>0, <2>2, BatchKeeps
<1> QED
  BY <1>1, <1>2 DEF CheckSources

\* A batch has finitely many positions.
LEMMA LeftFinite ==
  ASSUME NEW recs \in Left
  PROVE  IsFiniteSet(DOMAIN recs)
<1>1. DOMAIN recs \in SUBSET (1..MaxRecords)
  BY DEF Left
<1>2. IsFiniteSet(1..MaxRecords)
  BY FS_Interval, IngestAssumption
<1> QED
  BY <1>1, <1>2, FS_Subset

\* What a batch has of a kind of key is finite.
LEMMA ValuesFinite ==
  ASSUME NEW recs \in Left, NEW kind
  PROVE  IsFiniteSet(Values(recs, kind))
<1> DEFINE T == {KeysOf(recs[i], kind) : i \in DOMAIN recs}
           f == [i \in DOMAIN recs |-> KeysOf(recs[i], kind)]
<1>1. PICK D \in SUBSET (1..MaxRecords) : recs \in [D -> Record]
  BY DEF Left
<1>2. IsFiniteSet(DOMAIN recs)
  BY LeftFinite
<1>3. f \in Surjection(DOMAIN recs, T)
  BY DEF Surjection
<1>4. IsFiniteSet(T)
  BY <1>2, <1>3, FS_Surjection
<1>5. \A i \in DOMAIN recs : IsFiniteSet(KeysOf(recs[i], kind))
  BY <1>1, FS_Subset, IngestAssumption DEF KeysOf
<1> QED
  BY <1>4, <1>5, FS_UNION DEF Values

\* A user whose rows share no key has at most one row for each value of a batch:
\* no more rows are found than the lookup asks for, so every row is.
LEMMA LookupIsComplete ==
  ASSUME IngestInv, NEW u, NEW recs \in Left, NEW some, Found(u, recs, some), u \notin raced,
         NEW row \in RowsOf(u), NEW i \in DOMAIN recs, Keys[row[2]] \cap Keys[recs[i]] # {}
  PROVE  row \in some
<1>0. recs[i] \in Record /\ row \in rows /\ row[1] = u
  BY DEF Left, RowsOf
<1>1. PICK key \in Keys[row[2]] \cap Keys[recs[i]] : key[1] \in Kind
  BY <1>0, IngestAssumption
<1> DEFINE kind == key[1]
           S == Hits(u, recs, kind)
           T == Values(recs, kind)
           f == [x \in S |-> CHOOSE v \in T : v \in KeysOf(x[2], kind)]
<1>2. row \in S
  <2>1. key \in KeysOf(row[2], kind) /\ key \in KeysOf(recs[i], kind)
    BY DEF KeysOf
  <2>2. key \in T
    BY <2>1 DEF Values
  <2> QED BY <2>1, <2>2 DEF Hits
<1>3. \A x \in S : f[x] \in T /\ f[x] \in Keys[x[2]]
  <2> SUFFICES ASSUME NEW x \in S PROVE f[x] \in T /\ f[x] \in Keys[x[2]]
    OBVIOUS
  <2>1. \E v \in T : v \in KeysOf(x[2], kind)
    BY DEF Hits
  <2>2. f[x] \in T /\ f[x] \in KeysOf(x[2], kind)
    BY <2>1
  <2> QED BY <2>2 DEF KeysOf
<1>4. f \in Injection(S, T)
  <2>1. f \in [S -> T]
    BY <1>3
  <2>2. ASSUME NEW x \in S, NEW y \in S, f[x] = f[y], x # y
        PROVE  FALSE
    <3>1. x \in rows /\ y \in rows /\ x[1] = u /\ y[1] = u
      BY DEF Hits, RowsOf
    <3>2. Keys[x[2]] \cap Keys[y[2]] = {}
      BY <2>2, <3>1 DEF IngestInv, RowsAreSingle
    <3> QED BY <1>3, <2>2, <3>2
  <2> HIDE DEF f
  <2> QED BY <2>1, <2>2 DEF Injection, IsInjective
<1>5. Cardinality(S) <= Cardinality(T)
  <2> HIDE DEF f
  <2> QED BY <1>4, ValuesFinite, FS_Injection
<1> QED
  BY <1>1, <1>2, <1>5 DEF Found

\* What is left after the lookup has no key in common with a row of the user, and
\* no two records of it have one.
LEMMA LookUpRowsKeeps ==
  ASSUME IngestInv, NEW b \in Request, NEW some, NEW keep, LookUpRows(b, some, keep)
  PROVE  IngestInv'
<1> DEFINE recs == batch[b].recs
           u == batch[b].user
           left == Restrict(recs, keep)
<1>0. /\ recs \in Left /\ u \in Users /\ keep \in SUBSET DOMAIN recs
      /\ Found(u, recs, some) /\ IsFresh(recs, some, keep)
      /\ UNCHANGED <<pairVars, rows, raced>>
      /\ \A i \in DOMAIN recs : UserOf[Source[recs[i]]] = u
  BY DEF IngestInv, IngestTypeOK, BatchesSound, BatchSound, LookUpRows
<1>1. left \in Left /\ DOMAIN left = keep /\ \A i \in keep : left[i] = recs[i]
  BY <1>0, RestrictLeft
<1>2. IsFiniteSet(RowsOf(u)) /\ Cardinality(RowsOf(u)) \in Nat
  BY FS_Subset, FS_CardinalityType DEF IngestInv, IngestTypeOK, RowsOf
<1>3. u \notin raced => Disjoint(u, left)
  BY <1>0, <1>1, LookupIsComplete DEF Disjoint, IsFresh
<1>4. \A i, j \in keep : i # j => Keys[left[i]] \cap Keys[left[j]] = {}
  <2>1. \A i \in keep : i \in Nat
    BY <1>0 DEF Left
  <2>2. \A i, j \in keep : i < j => Keys[recs[i]] \cap Keys[recs[j]] = {}
    BY <1>0 DEF IsFresh
  <2> QED BY <2>1, <2>2, <1>1
<1>5. PICK pc \in {"ended", "insert"} :
        batch' = [batch EXCEPT ![b].pc = pc, ![b].recs = left, ![b].known = Cardinality(RowsOf(u))]
  BY DEF LookUpRows
<1> HIDE DEF left, recs, u
<1>6. /\ batch' \in [Request -> [pc : {"idle", "check", "lookup", "insert", "ended"},
                                user : Users, recs : Left, known : Nat]]
      /\ \A o \in Request \ {b} : batch'[o] = batch[o]
      /\ batch'[b].pc = pc /\ batch'[b].user = u /\ batch'[b].recs = left
      /\ batch'[b].known = Cardinality(RowsOf(u))
  <2>1. /\ batch \in [Request -> [pc : {"idle", "check", "lookup", "insert", "ended"},
                                 user : Users, recs : Left, known : Nat]]
        /\ batch[b].user = u
    BY DEF IngestInv, IngestTypeOK, u
  <2> DEFINE n == Cardinality(RowsOf(u))
  <2>2. n \in Nat
    BY <1>2
  <2>3. batch' = [batch EXCEPT ![b].pc = pc, ![b].recs = left, ![b].known = n]
    BY <1>5
  <2> HIDE DEF n
  <2>4. /\ batch' \in [Request -> [pc : {"idle", "check", "lookup", "insert", "ended"},
                                  user : Users, recs : Left, known : Nat]]
        /\ \A o \in Request \ {b} : batch'[o] = batch[o]
        /\ batch'[b].pc = pc /\ batch'[b].user = u /\ batch'[b].recs = left /\ batch'[b].known = n
    BY <1>1, <2>1, <2>2, <2>3
  <2> QED BY <2>4 DEF n
<1>7. \A i \in DOMAIN left : UserOf[Source[left[i]]] = u
  BY <1>0, <1>1
<1>8. batch'[b].known <= Cardinality(RowsOf(batch'[b].user))
  BY <1>2, <1>6
<1> QED
  BY <1>0, <1>1, <1>3, <1>4, <1>6, <1>7, <1>8, BatchKeeps

\* What is inserted keeps the rows of its user apart, unless others have come since
\* the lookup; a batch that has looked before finds more rows than it knows of,
\* or the same ones.
LEMMA InsertRowsKeeps ==
  ASSUME IngestInv, NEW b \in Request, InsertRows(b)
  PROVE  IngestInv'
<1> DEFINE recs == batch[b].recs
           u == batch[b].user
           new == {<<u, recs[i], b>> : i \in DOMAIN recs}
<1>0. /\ recs \in Left /\ u \in Users /\ UNCHANGED pairVars /\ Nothing \in Left /\ batch[b].pc = "insert"
      /\ IsFiniteSet(rows) /\ rows \subseteq Users \X Record \X Request
      /\ \A i \in DOMAIN recs : UserOf[Source[recs[i]]] = u /\ recs[i] \in Record
      /\ \A i, j \in DOMAIN recs : i # j => Keys[recs[i]] \cap Keys[recs[j]] = {}
      /\ u \notin raced /\ batch[b].known = Cardinality(RowsOf(u)) => Disjoint(u, recs)
  <2>1. /\ recs \in Left /\ u \in Users /\ UNCHANGED pairVars /\ batch[b].pc = "insert"
        /\ IsFiniteSet(rows) /\ rows \subseteq Users \X Record \X Request
    BY DEF IngestInv, IngestTypeOK, InsertRows
  <2>2. Nothing \in Left
    BY DEF Nothing, Left
  <2>3. \A i \in DOMAIN recs : recs[i] \in Record
    BY <2>1 DEF Left
  <2>4. BatchSound(b)
    BY DEF IngestInv, BatchesSound
  <2> QED BY <2>1, <2>2, <2>3, <2>4 DEF BatchSound
<1>1. /\ batch' \in [Request -> [pc : {"idle", "check", "lookup", "insert", "ended"},
                                user : Users, recs : Left, known : Nat]]
      /\ \A o \in Request \ {b} : batch'[o] = batch[o]
      /\ batch'[b].pc = "ended"
  BY <1>0 DEF IngestInv, IngestTypeOK, InsertRows
<1>2. CASE UNCHANGED <<rows, raced>>
  BY <1>0, <1>1, <1>2, BatchKeeps
<1>3. CASE /\ rows' = rows \cup new
           /\ raced' = IF Cardinality(RowsOf(u)) = batch[b].known THEN raced ELSE raced \cup {u}
  <2>1. IsFiniteSet(rows')
    <3> DEFINE f == [i \in DOMAIN recs |-> <<u, recs[i], b>>]
    <3>1. f \in Surjection(DOMAIN recs, new)
      BY DEF Surjection
    <3>2. IsFiniteSet(DOMAIN recs)
      BY <1>0, LeftFinite
    <3>3. IsFiniteSet(new)
      BY <3>1, <3>2, FS_Surjection
    <3> QED BY <1>0, <1>3, <3>3, FS_Union
  <2>2. IngestTypeOK'
    BY <1>0, <1>1, <1>3, <2>1 DEF IngestInv, IngestTypeOK, pairVars
  <2>3. CodesAreHeld'
    BY <1>0 DEF IngestInv, CodesAreHeld, Holds, pairVars
  <2>4. \A x \in new : \E i \in DOMAIN recs : x[1] = u /\ x[2] = recs[i] /\ x = <<u, recs[i], b>>
    OBVIOUS
  <2>5. RowsAreOwn'
    BY <1>0, <1>3, <2>4 DEF IngestInv, RowsAreOwn
  <2>6. raced \subseteq raced' /\ (u \notin raced' => Disjoint(u, recs))
    BY <1>0, <1>3
  <2>7. RowsAreSingle'
    <3> SUFFICES ASSUME NEW x \in rows', NEW y \in rows', x # y, x[1] = y[1], x[1] \notin raced'
                 PROVE  Keys[x[2]] \cap Keys[y[2]] = {}
      BY DEF RowsAreSingle
    <3>1. CASE x \in rows /\ y \in rows
      BY <3>1, <2>6 DEF IngestInv, RowsAreSingle
    <3>2. CASE x \in new /\ y \in new
      BY <3>2, <2>4, <1>0
    <3>3. CASE x \in rows /\ y \in new
      BY <3>3, <2>4, <2>6 DEF Disjoint, RowsOf
    <3>4. CASE x \in new /\ y \in rows
      BY <3>4, <2>4, <2>6 DEF Disjoint, RowsOf
    <3> QED BY <3>1, <3>2, <3>3, <3>4, <1>3
  <2>8. BatchesSound'
    <3> SUFFICES ASSUME NEW o \in Request
                 PROVE  BatchSound(o)'
      BY DEF BatchesSound
    <3>0. BatchSound(o)
      BY DEF IngestInv, BatchesSound
    <3>1. CASE o = b
      BY <3>1, <1>1 DEF BatchSound
    <3>2. CASE o # b
      <4> DEFINE v == batch[o].user
                 R == {row \in rows : row[1] = v}
                 Q == {row \in rows' : row[1] = v}
      <4>1. batch'[o] = batch[o] /\ batch[o].known \in Nat
        BY <3>2, <1>1 DEF IngestInv, IngestTypeOK
      <4>2. R \subseteq Q /\ IsFiniteSet(Q)
        BY <1>3, <2>1, FS_Subset
      <4>3. /\ Cardinality(R) \in Nat /\ Cardinality(Q) \in Nat /\ Cardinality(R) <= Cardinality(Q)
            /\ Cardinality(R) = Cardinality(Q) => R = Q
        BY <4>2, FS_Subset, FS_CardinalityType
      <4> DEFINE recsOf == batch[o].recs
      <4>4. /\ batch[o].pc \in {"lookup", "insert"} =>
                 \A i \in DOMAIN recsOf : UserOf[Source[recsOf[i]]] = v
            /\ batch[o].pc = "insert" =>
                 /\ \A i, j \in DOMAIN recsOf : i # j => Keys[recsOf[i]] \cap Keys[recsOf[j]] = {}
                 /\ batch[o].known <= Cardinality(R)
                 /\ v \notin raced /\ batch[o].known = Cardinality(R) =>
                      \A row \in R : \A i \in DOMAIN recsOf : Keys[row[2]] \cap Keys[recsOf[i]] = {}
        BY <3>0 DEF BatchSound, Disjoint, RowsOf
      <4> SUFFICES /\ batch[o].pc \in {"lookup", "insert"} =>
                        \A i \in DOMAIN recsOf : UserOf[Source[recsOf[i]]] = v
                   /\ batch[o].pc = "insert" =>
                        /\ \A i, j \in DOMAIN recsOf : i # j => Keys[recsOf[i]] \cap Keys[recsOf[j]] = {}
                        /\ batch[o].known <= Cardinality(Q)
                        /\ v \notin raced' /\ batch[o].known = Cardinality(Q) =>
                             \A row \in Q : \A i \in DOMAIN recsOf : Keys[row[2]] \cap Keys[recsOf[i]] = {}
        BY <4>1 DEF BatchSound, Disjoint, RowsOf
      <4> HIDE DEF Q, R, v, recsOf
      <4>5. batch[o].pc = "insert" => batch[o].known <= Cardinality(Q)
        BY <4>1, <4>3, <4>4
      <4>6. batch[o].pc = "insert" /\ v \notin raced' /\ batch[o].known = Cardinality(Q)
              => v \notin raced /\ batch[o].known = Cardinality(R) /\ R = Q
        BY <4>1, <4>3, <4>4, <2>6
      <4> QED BY <4>4, <4>5, <4>6
    <3> QED BY <3>1, <3>2
  <2> QED BY <2>2, <2>3, <2>5, <2>7, <2>8 DEF IngestInv
<1> QED
  BY <1>2, <1>3 DEF InsertRows

\* The inductive invariant of the ingest.
THEOREM IngestInvariance == IngestSpec => []IngestInv
<1>1. IngestInit => IngestInv
  <2> SUFFICES ASSUME IngestInit PROVE IngestInv
    OBVIOUS
  <2>1. Nothing \in Left /\ Null \in Users
    BY DEF Nothing, Left, Users
  <2>2. IngestTypeOK
    BY <2>1, FS_EmptySet DEF IngestInit, IngestTypeOK
  <2> QED
    BY <2>2 DEF IngestInit, IngestInv, CodesAreHeld, Holds, BatchesSound, BatchSound, RowsAreSingle, RowsAreOwn
<1>2. IngestInv /\ [IngestNext]_ingestVars => IngestInv'
  <2> SUFFICES ASSUME IngestInv, [IngestNext]_ingestVars
               PROVE  IngestInv'
    OBVIOUS
  <2>1. CASE UNCHANGED ingestVars
    BY <2>1, BatchesKept DEF ingestVars, pairVars, IngestInv, IngestTypeOK, CodesAreHeld, Holds
  <2>2. CASE \E s \in Sources : Switch(s)
    <3>1. UNCHANGED <<pairVars, rows, batch, raced>>
      BY <2>2 DEF Switch
    <3>2. IngestTypeOK' /\ CodesAreHeld'
      BY <3>1 DEF pairVars, IngestInv, IngestTypeOK, CodesAreHeld, Holds
    <3>3. BatchesSound' /\ RowsAreSingle' /\ RowsAreOwn'
      BY <3>1 DEF IngestInv, BatchesSound, BatchSound, Disjoint, RowsOf, RowsAreSingle, RowsAreOwn
    <3> QED BY <3>2, <3>3 DEF IngestInv
  <2>3. CASE \E q \in Attempt, c \in Code : Lookup(q, c)
    BY <2>3, LookupKeeps
  <2>4. CASE \/ \E q \in Attempt : Claim(q) \/ Issue(q)
             \/ \E c \in Code : Expire(c)
             \/ \E D \in SUBSET Attempt : Revoke(D)
    BY <2>4, ClaimKeeps, PairedKeeps
  <2>5. CASE \E b \in Request, recs \in Batches :
               FromCollector(b, recs) \/ \E d \in Attempt : FromDevice(b, d, recs)
    BY <2>5, ArrivesKeeps
  <2>6. CASE \E b \in Request, some \in SUBSET rows, keep \in SUBSET (1..MaxRecords) : LookUpRows(b, some, keep)
    BY <2>6, LookUpRowsKeeps
  <2>7. CASE \E b \in Request : CheckSources(b) \/ InsertRows(b)
    BY <2>7, CheckSourcesKeeps, InsertRowsKeeps
  <2> QED
    BY <2>1, <2>2, <2>3, <2>4, <2>5, <2>6, <2>7 DEF IngestNext
<1> QED
  BY <1>1, <1>2, PTL DEF IngestSpec

\* A code pairs one device at most; unless two batches of a user have overlapped,
\* no two rows of the user share a key, which the bound of the lookup does not
\* endanger; and a row is of a source of its user.
THEOREM IngestSafety == IngestSpec => []IngestIsSound
<1>1. IngestInv => IngestIsSound
  <2> SUFFICES ASSUME IngestInv, NEW c \in Code
               PROVE  Cardinality({q \in Attempt : device[q] # "none" /\ pair[q].code = c}) <= 1
    BY DEF IngestInv, IngestIsSound, PairedOnce
  <2> DEFINE P == {q \in Attempt : device[q] # "none" /\ pair[q].code = c}
  <2>1. CASE P = {}
    BY <2>1, FS_EmptySet
  <2>2. CASE P # {}
    <3>1. PICK p \in P : P = {p}
      BY <2>2 DEF IngestInv, CodesAreHeld, Holds
    <3>2. Cardinality({p}) = 1
      BY FS_Singleton
    <3> QED BY <3>1, <3>2
  <2> QED BY <2>1, <2>2
<1> QED
  BY <1>1, IngestInvariance, PTL
=============================================================================
