-------------------------- MODULE Sessions_proofs --------------------------
(***************************************************************************)
(* Proofs about sessions: every token in a client's hands stems from a     *)
(* recorded login, and no request that comes after the deletion of a user  *)
(* was acknowledged is served for that user.                               *)
(***************************************************************************)
EXTENDS Sessions, TLAPS

Handler == {New, CutOff} \union InProgress \union Done

(* The operations by name.                                                 *)
LEMMA Operations ==
    /\ Guarded = {"profile", "verify", "readUser", "deleteUser", "uploadJson"}
    /\ Operation = Guarded \union {"login", "refresh"}
BY DEF Guarded, Required, Operation

-----------------------------------------------------------------------------
(* A handler at one of its awaits is in progress.                          *)
LEMMA HeldType ==
    ASSUME NEW h \in Handler, h.at \in Step
    PROVE  h \in InProgress
<1>1. h # New
  <2>1. New.at \notin Step
    BY DEF New, Step
  <2> QED
    BY <2>1
<1>2. h # CutOff
  <2>1. CutOff.at \notin Step
    BY DEF CutOff, Step
  <2> QED
    BY <2>1
<1>3. h \notin Done
  BY DEF Done, Step
<1> QED
  BY <1>1, <1>2, <1>3 DEF Handler

(* Starting, going on and answering keep all handlers typed.               *)
LEMMA StartType ==
    ASSUME call \in [Request -> Handler], NEW r \in Request,
           NEW o \in Operation, NEW step \in Step, NEW u \in User,
           NEW target \in User, NEW token \in SUBSET Token,
           Start(r, o, step, u, target, token)
    PROVE  call' \in [Request -> Handler]
<1>1. [at |-> step, op |-> o, sub |-> u, target |-> target, token |-> token]
            \in Handler
  BY DEF Handler, InProgress
<1> QED
  BY <1>1 DEF Start

(* A handler that goes on keeps its locals.                                *)
LEMMA GotoType ==
    ASSUME call \in [Request -> Handler], NEW r \in Request,
           call[r].at \in Step, NEW step \in Step, Goto(r, step)
    PROVE  call' \in [Request -> Handler]
<1>1. call[r] \in InProgress
  BY HeldType
<1>2. [call[r] EXCEPT !.at = step] \in Handler
  BY <1>1 DEF InProgress, Handler
<1> QED
  BY <1>2 DEF Goto

(* A reply is a typed final state.                                         *)
LEMMA ReplyType ==
    ASSUME call \in [Request -> Handler], NEW r \in Request,
           NEW o \in Operation, NEW u \in User, NEW target \in User,
           NEW success \in BOOLEAN, Reply(r, o, u, target, success)
    PROVE  call' \in [Request -> Handler]
<1>1. [at |-> "done", op |-> o, sub |-> u, target |-> target, ok |-> success]
            \in Handler
  BY DEF Handler, Done
<1> QED
  BY <1>1 DEF Reply

(* So is the answer of a handler in progress.                              *)
LEMMA AnswerType ==
    ASSUME call \in [Request -> Handler], NEW r \in Request,
           call[r].at \in Step, NEW success \in BOOLEAN, Answer(r, success)
    PROVE  call' \in [Request -> Handler]
<1>1. call[r] \in InProgress
  BY HeldType
<1>2. /\ call[r].op \in Operation /\ call[r].sub \in User
      /\ call[r].target \in User
  BY <1>1 DEF InProgress
<1> QED
  BY <1>2, ReplyType DEF Answer

(* The tokens a request signs are typed.                                   *)
LEMMA SignedType ==
    ASSUME NEW r \in Request, NEW u \in User, NEW login \in Request
    PROVE  Signed(r, u, login) \in SUBSET Token
BY DEF Signed, Token

(* Stores, tokens and handlers keep their types.                           *)
THEOREM SessionsTypeCorrect == Spec => []TypeOK
<1>1. Init => TypeOK
  BY SessionsAssumption DEF Init, TypeOK
<1>2. ASSUME TypeOK, [Next]_vars
      PROVE  TypeOK'
  <2> USE <1>2
  <2>0. /\ call \in [Request -> Handler]
        /\ deleted \in SUBSET User /\ files \in SUBSET Request
        /\ history \in SUBSET Request /\ tokens \in SUBSET Token
        /\ expired \in SUBSET tokens
        /\ before \in [Request -> SUBSET Request]
        /\ faults \in 0 .. MaxFaults
    BY DEF TypeOK, Handler
  <2> DEFINE Calls == call' \in [Request -> Handler]
             Stored == /\ deleted' \in SUBSET User /\ files' \in SUBSET Request
                       /\ history' \in SUBSET Request
             Signing == /\ tokens' \in SUBSET Token
                        /\ expired' \in SUBSET tokens'
             Came == before' \in [Request -> SUBSET Request]
             Faulty == faults' \in 0 .. MaxFaults
             Typed == Calls /\ Stored /\ Signing /\ Came /\ Faulty
  <2>1. /\ UNCHANGED stores => Stored
        /\ UNCHANGED <<tokens, expired>> => Signing
        /\ UNCHANGED before => Came
        /\ UNCHANGED faults => Faulty
        /\ UNCHANGED call => Calls
    BY <2>0 DEF stores
  <2>2. ASSUME NEW r \in Request, NEW o, Arrives(r, o)
        PROVE  Came
    <3> DEFINE answered == {q \in Request : call[q].at = "done"}
    <3>1. answered \in SUBSET Request
      OBVIOUS
    <3>2. before' = [before EXCEPT ![r] = answered]
      BY <2>2 DEF Arrives
    <3> HIDE DEF answered
    <3> QED
      BY <2>0, <3>1, <3>2
  <2>3. ASSUME NEW r \in Request, call[r].at \in Step,
               \/ \E step \in Step : Goto(r, step)
               \/ \E success \in BOOLEAN : Answer(r, success)
        PROVE  Calls
    BY <2>0, <2>3, GotoType, AnswerType
  <2>4. ASSUME NEW r \in Request, NEW o \in Operation, NEW u \in User,
               NEW target \in User,
               \/ \E step \in Step, token \in SUBSET Token :
                    Start(r, o, step, u, target, token)
               \/ \E success \in BOOLEAN : Reply(r, o, u, target, success)
        PROVE  Calls
    BY <2>0, <2>4, StartType, ReplyType
  <2> HIDE DEF Calls, Stored, Signing, Came, Faulty
  <2>5. ASSUME NEW r \in Request, NEW u \in User, Login(r, u)
        PROVE  Typed
    <3>1. Calls
      BY <2>4, <2>5, Operations DEF Login, Step
    <3> QED
      BY <2>1, <2>2, <2>5, <3>1 DEF Login
  <2>6. ASSUME NEW r \in Request, NEW t \in tokens, Refresh(r, t)
        PROVE  Typed
    <3>1. t.sub \in User /\ t.login \in Request
      BY <2>0 DEF Token
    <3>2. Signed(r, t.sub, t.login) \in SUBSET Token
      BY <3>1, SignedType
    <3>3. Signing
      BY <2>0, <2>6, <3>2 DEF Refresh, Signing
    <3>4. Calls
      BY <2>4, <2>6, <3>1, Operations DEF Refresh
    <3> QED
      BY <2>1, <2>2, <2>6, <3>3, <3>4 DEF Refresh
  <2>7. ASSUME NEW r \in Request, NEW t \in tokens, NEW o \in Guarded,
               NEW target \in User, Admit(r, t, o, target)
        PROVE  Typed
    <3>1. t \in Token /\ t.sub \in User
      BY <2>0 DEF Token
    <3>2. /\ (IF o = "uploadJson" THEN "uploadFile" ELSE "handler") \in Step
          /\ (IF o = "verify" THEN {t} ELSE {}) \in SUBSET Token
      BY <3>1 DEF Step
    <3>3. Calls
      BY <2>4, <2>7, <3>1, <3>2, Operations DEF Admit
    <3> QED
      BY <2>1, <2>2, <2>7, <3>3 DEF Admit
  <2>8. ASSUME NEW r \in Request, ReadUser(r) \/ ValidatePassword(r)
        PROVE  Typed
    <3>1. Calls
      BY <2>3, <2>8 DEF ReadUser, ValidatePassword, Step
    <3> QED
      BY <2>1, <2>8, <3>1 DEF ReadUser, ValidatePassword
  <2>9. ASSUME NEW r \in Request, UploadFile(r)
        PROVE  Typed
    <3>1. Calls
      BY <2>3, <2>9 DEF UploadFile, Step
    <3>2. Stored
      BY <2>0, <2>9 DEF UploadFile, Stored
    <3> QED
      BY <2>1, <2>9, <3>1, <3>2 DEF UploadFile
  <2>10. ASSUME NEW r \in Request, CreateLoginHistory(r)
         PROVE  Typed
    <3>1. Calls
      BY <2>3, <2>10 DEF CreateLoginHistory, Step
    <3>2. Stored
      BY <2>0, <2>10 DEF CreateLoginHistory, Stored
    <3> QED
      BY <2>1, <2>10, <3>1, <3>2 DEF CreateLoginHistory
  <2>11. ASSUME NEW r \in Request, GetUrl(r)
         PROVE  Typed
    <3>1. call[r].at \in Step
      BY <2>11 DEF GetUrl, Step
    <3>2. call[r] \in InProgress
      BY <2>0, <3>1, HeldType
    <3>3. Signed(r, call[r].sub, r) \in SUBSET Token
      BY <3>2, SignedType DEF InProgress
    <3>4. Signing
      BY <2>0, <2>11, <3>3 DEF GetUrl, Signing
    <3>5. Calls
      BY <2>3, <2>11, <3>1 DEF GetUrl
    <3> QED
      BY <2>1, <2>11, <3>4, <3>5 DEF GetUrl
  <2>12. ASSUME NEW r \in Request, Read(r)
         PROVE  Typed
    <3>1. /\ Live(call[r].sub) \in BOOLEAN /\ Live(call[r].target) \in BOOLEAN
          /\ (call[r].token \cap expired = {}) \in BOOLEAN
      BY DEF Live
    <3>2. Calls
      BY <2>3, <2>12, <3>1 DEF Read, Step
    <3> QED
      BY <2>1, <2>12, <3>2 DEF Read
  <2>13. ASSUME NEW r \in Request, Find(r)
         PROVE  Typed
    <3>1. Calls
      BY <2>3, <2>13 DEF Find, Step
    <3> QED
      BY <2>1, <2>13, <3>1 DEF Find
  <2>14. ASSUME NEW r \in Request, Save(r)
         PROVE  Typed
    <3>1. call[r].at \in Step
      BY <2>14 DEF Save, Step
    <3>2. call[r].target \in User
      BY <2>0, <3>1, HeldType DEF InProgress
    <3>3. Stored
      BY <2>0, <2>14, <3>2 DEF Save, Stored
    <3>4. Calls
      BY <2>3, <2>14, <3>1 DEF Save
    <3> QED
      BY <2>1, <2>14, <3>3, <3>4 DEF Save
  <2>15. ASSUME NEW t \in tokens, Expire(t)
         PROVE  Typed
    <3>1. Signing
      BY <2>0, <2>15 DEF Expire, Signing
    <3> QED
      BY <2>1, <2>15, <3>1 DEF Expire
  <2>16. ASSUME NEW r \in Request, QueryFails(r)
         PROVE  Typed
    <3>1. Faulty
      BY <2>0, <2>16, SessionsAssumption DEF QueryFails, Faulty
    <3>2. Calls
      BY <2>3, <2>16 DEF QueryFails
    <3> QED
      BY <2>1, <2>16, <3>1, <3>2 DEF QueryFails
  <2>17. ASSUME Crash
         PROVE  Typed
    <3>1. Faulty
      BY <2>0, <2>17, SessionsAssumption DEF Crash, Faulty
    <3>2. CutOff \in Handler
      BY DEF Handler
    <3>3. Calls
      BY <2>0, <2>17, <3>2 DEF Crash, Calls
    <3> QED
      BY <2>1, <2>17, <3>1, <3>3 DEF Crash
  <2>18. ASSUME UNCHANGED vars
         PROVE  Typed
    BY <2>1, <2>18 DEF vars, stores
  <2>19. Typed
    <3> HIDE DEF Typed
    <3>1. ASSUME NEW r \in Request, Submit(r)
          PROVE  Typed
      <4>1. \A t \in tokens : t.sub \in User
        BY <2>0 DEF Token
      <4> QED
        BY <2>5, <2>6, <2>7, <3>1, <4>1, Operations DEF Submit
    <3> QED
      BY <2>8, <2>9, <2>10, <2>11, <2>12, <2>13, <2>14, <2>15, <2>16, <2>17,
         <2>18, <3>1 DEF Next, Continue
  <2> QED
    BY <2>19 DEF Calls, Stored, Signing, Came, Faulty, TypeOK, Handler
<1> QED
  BY <1>1, <1>2, PTL DEF Spec

-----------------------------------------------------------------------------
(* Which operation a handler at an await is serving, and for whom.         *)
LoginStep == {"readUser", "validatePassword", "createLoginHistory", "getUrl"}
Serves(h) ==
    /\ h.at \in LoginStep => h.op = "login"
    /\ h.at = "uploadFile" => h.op \in {"login", "uploadJson"}
    /\ h.at = "handler" => h.op \in Guarded
    /\ h.at = "save" => h.op = "deleteUser"
    /\ h.at \in Step /\ h.op = "login" => h.sub = h.target
ServesInv == \A r \in Request : Serves(call[r])

(* What a login has behind it before its tokens leave the server.          *)
Behind(r, step) ==
    /\ step \in {"createLoginHistory", "getUrl"} => r \in files
    /\ step = "getUrl" => r \in history
BehindInv == \A r \in Request : Behind(r, call[r].at)

(* What a step may do to a request: nothing; admit it, for a user that is  *)
(* live then; answer it at once, which only a refresh does with success;   *)
(* move it on; answer it, a deletion having been saved; or cut it off.     *)
Same(q) == call'[q] = call[q] /\ before'[q] = before[q]
Came(q) ==
    /\ call[q] = New
    /\ before'[q] = {p \in Request : call[p].at = "done"}
Begins(q) ==
    /\ Came(q)
    /\ call'[q].at \in Step \ {"createLoginHistory", "getUrl"}
    /\ Live(call'[q].sub)
    /\ Serves(call'[q])
RepliedAtOnce(q) ==
    /\ Came(q)
    /\ call'[q].at = "done"
    /\ call'[q].ok => call'[q].op = "refresh"
Proceeds(q) ==
    /\ call[q].at \in Step
    /\ before'[q] = before[q]
    /\ call'[q].at \in Step
    /\ call'[q].op = call[q].op /\ call'[q].sub = call[q].sub
    /\ call'[q].target = call[q].target
    /\ Serves(call'[q])
    /\ Behind(q, call[q].at)'
Ends(q) ==
    /\ call[q].at \in Step
    /\ before'[q] = before[q]
    /\ call'[q].at = "done"
    /\ call'[q].op = call[q].op /\ call'[q].sub = call[q].sub
    /\ call'[q].target = call[q].target
    /\ call'[q].ok /\ call[q].op = "deleteUser" => call[q].target \in deleted'
IsCut(q) ==
    /\ call[q].at \in Step
    /\ before'[q] = before[q]
    /\ call'[q] = CutOff

Treats(q) ==
    \/ Same(q) \/ Begins(q) \/ RepliedAtOnce(q) \/ Proceeds(q) \/ Ends(q)
    \/ IsCut(q)

(* One request is written by a step of a handler, and the others are not.  *)
LEMMA OthersSame ==
    ASSUME TypeOK, NEW r \in Request, NEW q \in Request, q # r,
           \/ \E step : Goto(r, step)
           \/ \E success : Answer(r, success)
           \/ \E o, u, target, success : Reply(r, o, u, target, success)
           \/ \E o, step, u, target, token :
                Start(r, o, step, u, target, token),
           UNCHANGED before \/ \E o : Arrives(r, o)
    PROVE  Same(q)
<1>1. call'[q] = call[q]
  BY DEF TypeOK, Goto, Answer, Reply, Start
<1>2. before'[q] = before[q]
  BY DEF TypeOK, Arrives
<1> QED
  BY <1>1, <1>2 DEF Same

(* The state an answer leaves.                                             *)
LEMMA AnswerState ==
    ASSUME TypeOK, NEW r \in Request, NEW success, Answer(r, success)
    PROVE  /\ call'[r].at = "done" /\ call'[r].ok = success
           /\ call'[r].op = call[r].op /\ call'[r].sub = call[r].sub
           /\ call'[r].target = call[r].target
BY DEF TypeOK, Answer, Reply

(* That of a reply to a request just come.                                 *)
LEMMA ReplyState ==
    ASSUME TypeOK, NEW r \in Request, NEW o, NEW u, NEW target, NEW success,
           Reply(r, o, u, target, success)
    PROVE  /\ call'[r].at = "done" /\ call'[r].ok = success
           /\ call'[r].op = o /\ call'[r].sub = u /\ call'[r].target = target
BY DEF TypeOK, Reply

(* The state a request starts in.                                          *)
LEMMA StartState ==
    ASSUME TypeOK, NEW r \in Request, NEW o, NEW step, NEW u, NEW target,
           NEW token, Start(r, o, step, u, target, token)
    PROVE  /\ call'[r].at = step /\ call'[r].op = o
           /\ call'[r].sub = u /\ call'[r].target = target
BY DEF TypeOK, Start

(* A handler that goes on keeps what it serves.                            *)
LEMMA GotoState ==
    ASSUME TypeOK, NEW r \in Request, call[r].at \in Step, NEW step,
           Goto(r, step)
    PROVE  /\ call'[r].at = step /\ call'[r].op = call[r].op
           /\ call'[r].sub = call[r].sub /\ call'[r].target = call[r].target
<1>1. call[r] \in InProgress
  BY HeldType DEF TypeOK, Handler
<1>2. call'[r] = [call[r] EXCEPT !.at = step]
  BY DEF TypeOK, Goto
<1> QED
  BY <1>1, <1>2 DEF InProgress

(* Every step treats every request in one of these ways.                   *)
LEMMA EveryStepTreats ==
    ASSUME TypeOK, ServesInv, BehindInv, [Next]_vars, NEW q \in Request
    PROVE  Treats(q)
<1>0. Serves(call[q]) /\ Behind(q, call[q].at)
  BY DEF ServesInv, BehindInv
<1>1. ASSUME NEW r \in Request, q = r, NEW success, Answer(r, success),
             call[r].at \in Step, UNCHANGED before,
             success /\ call[r].op = "deleteUser" => call[r].target \in deleted'
      PROVE  Ends(q)
  BY <1>1, AnswerState DEF Ends
<1>2. ASSUME NEW r \in Request, q = r, NEW step \in Step, Goto(r, step),
             call[r].at \in Step, UNCHANGED before,
             Serves(call'[r]), Behind(r, step)'
      PROVE  Proceeds(q)
  <2>1. /\ call'[q].at = step /\ call'[q].op = call[q].op
        /\ call'[q].sub = call[q].sub /\ call'[q].target = call[q].target
    BY <1>2, GotoState
  <2>2. Behind(q, call[q].at)'
    BY <1>2, <2>1 DEF Behind
  <2> QED
    BY <1>2, <2>1, <2>2 DEF Proceeds
<1>3. ASSUME NEW r \in Request, NEW o, Arrives(r, o), q = r
      PROVE  Came(q)
  BY <1>3 DEF Arrives, Came, TypeOK
<1>4. ASSUME NEW r \in Request, NEW u \in User, Login(r, u)
      PROVE  Treats(q)
  <2>1. CASE q # r
    BY <1>4, <2>1, OthersSame DEF Login, Treats
  <2>2. CASE q = r /\ Live(u)
    <3>1. Came(q)
      BY <1>3, <1>4, <2>2 DEF Login
    <3>2. Start(r, "login", "readUser", u, u, {})
      BY <1>4, <2>2 DEF Login
    <3>3. /\ call'[q].at = "readUser" /\ call'[q].op = "login"
          /\ call'[q].sub = u /\ call'[q].target = u
      BY <2>2, <3>2, StartState
    <3>4. Begins(q)
      BY <2>2, <3>1, <3>3 DEF Begins, Serves, Step, LoginStep
    <3> QED
      BY <3>4 DEF Treats
  <2>3. CASE q = r /\ ~ Live(u)
    <3>1. RepliedAtOnce(q)
      BY <1>3, <1>4, <2>3, ReplyState DEF Login, RepliedAtOnce
    <3> QED
      BY <3>1 DEF Treats
  <2> QED
    BY <2>1, <2>2, <2>3
<1>5. ASSUME NEW r \in Request, NEW t \in tokens, Refresh(r, t)
      PROVE  Treats(q)
  <2>1. CASE q # r
    BY <1>5, <2>1, OthersSame DEF Refresh, Treats
  <2>2. CASE q = r
    <3>1. RepliedAtOnce(q)
      BY <1>3, <1>5, <2>2, ReplyState DEF Refresh, RepliedAtOnce
    <3> QED
      BY <3>1 DEF Treats
  <2> QED
    BY <2>1, <2>2
<1>6. ASSUME NEW r \in Request, NEW t \in tokens, NEW o \in Guarded,
             NEW target \in User, Admit(r, t, o, target)
      PROVE  Treats(q)
  <2> DEFINE step == IF o = "uploadJson" THEN "uploadFile" ELSE "handler"
             Passes == t \notin expired /\ Live(t.sub) /\ Permitted(o, t.sub)
  <2>1. CASE q # r
    BY <1>6, <2>1, OthersSame DEF Admit, Treats
  <2>2. CASE q = r /\ Passes
    <3>1. Came(q)
      BY <1>3, <1>6, <2>2 DEF Admit
    <3>2. Start(r, o, step, t.sub, target, IF o = "verify" THEN {t} ELSE {})
      BY <1>6, <2>2 DEF Admit
    <3>3. call'[q].at = step /\ call'[q].op = o /\ call'[q].sub = t.sub
      BY <2>2, <3>2, StartState
    <3>4. Begins(q)
      BY <2>2, <3>1, <3>3, Operations DEF Begins, Serves, Step, LoginStep
    <3> QED
      BY <3>4 DEF Treats
  <2>3. CASE q = r /\ ~ Passes
    <3>1. Reply(r, o, t.sub, target, FALSE)
      BY <1>6, <2>3 DEF Admit
    <3>2. RepliedAtOnce(q)
      BY <1>3, <1>6, <2>3, <3>1, ReplyState DEF Admit, RepliedAtOnce
    <3> QED
      BY <3>2 DEF Treats
  <2> QED
    BY <2>1, <2>2, <2>3
<1>7. ASSUME NEW r \in Request,
             \/ ReadUser(r) \/ ValidatePassword(r) \/ UploadFile(r)
             \/ CreateLoginHistory(r) \/ GetUrl(r)
      PROVE  Treats(q)
  <2>0. UNCHANGED before /\ call[r].at \in LoginStep \union {"uploadFile"}
    BY <1>7 DEF ReadUser, ValidatePassword, UploadFile, CreateLoginHistory,
         GetUrl, LoginStep
  <2>1. CASE q # r
    BY <1>7, <2>0, <2>1, OthersSame
       DEF ReadUser, ValidatePassword, UploadFile, CreateLoginHistory, GetUrl,
           Treats
  <2>2. CASE q = r /\ \E success : Answer(r, success)
    <3>1. call[r].op # "deleteUser" /\ call[r].at \in Step
      BY <1>0, <2>0, <2>2 DEF Serves, LoginStep, Step
    <3>2. Ends(q)
      BY <1>1, <2>0, <2>2, <3>1
    <3> QED
      BY <3>2 DEF Treats
  <2>3. ASSUME q = r, NEW step \in LoginStep \union {"uploadFile"},
               Goto(r, step), call[r].op = "login", Behind(r, step)'
        PROVE  Treats(q)
    <3>1. call[r].at \in Step /\ step \in Step
      BY <2>0 DEF LoginStep, Step
    <3>2. call[r].sub = call[r].target
      BY <1>0, <2>3, <3>1 DEF Serves
    <3>3. Serves(call'[r])
      BY <2>3, <3>1, <3>2, GotoState DEF Serves, LoginStep, Step
    <3>4. Proceeds(q)
      BY <1>2, <2>0, <2>3, <3>1, <3>3
    <3> QED
      BY <3>4 DEF Treats
  <2>4. CASE q = r /\ ReadUser(r)
    <3>1. call[r].op = "login"
      BY <1>0, <2>4 DEF ReadUser, Serves, LoginStep
    <3> QED
      BY <2>2, <2>3, <2>4, <3>1 DEF ReadUser, Behind, LoginStep
  <2>5. CASE q = r /\ ValidatePassword(r)
    <3>1. call[r].op = "login"
      BY <1>0, <2>5 DEF ValidatePassword, Serves, LoginStep
    <3> QED
      BY <2>2, <2>3, <2>5, <3>1 DEF ValidatePassword, Behind
  <2>6. CASE q = r /\ UploadFile(r)
    BY <2>2, <2>3, <2>6 DEF UploadFile, Behind, LoginStep
  <2>7. CASE q = r /\ CreateLoginHistory(r)
    <3>1. call[r].op = "login" /\ r \in files
      BY <1>0, <2>7 DEF CreateLoginHistory, Serves, Behind, LoginStep
    <3> QED
      BY <2>3, <2>7, <3>1 DEF CreateLoginHistory, Behind, LoginStep
  <2>8. CASE q = r /\ GetUrl(r)
    BY <2>2, <2>8 DEF GetUrl
  <2> QED
    BY <1>7, <2>1, <2>4, <2>5, <2>6, <2>7, <2>8
<1>8. ASSUME NEW r \in Request, Read(r)
      PROVE  Treats(q)
  <2>1. CASE q # r
    BY <1>8, <2>1, OthersSame DEF Read, Treats
  <2>2. CASE q = r
    <3>1. Ends(q)
      BY <1>1, <1>8, <2>2 DEF Read, Step
    <3> QED
      BY <3>1 DEF Treats
  <2> QED
    BY <2>1, <2>2
<1>9. ASSUME NEW r \in Request, Find(r)
      PROVE  Treats(q)
  <2>1. CASE q # r
    BY <1>9, <2>1, OthersSame DEF Find, Treats
  <2>2. CASE q = r /\ Answer(r, FALSE)
    <3>1. Ends(q)
      BY <1>1, <1>9, <2>2 DEF Find, Step
    <3> QED
      BY <3>1 DEF Treats
  <2>3. CASE q = r /\ Goto(r, "save")
    <3>1. call[r].at \in Step /\ "save" \in Step
      BY <1>9 DEF Find, Step
    <3>2. call'[r].at = "save" /\ call'[r].op = "deleteUser"
      BY <1>9, <2>3, <3>1, GotoState DEF Find
    <3>3. Serves(call'[r]) /\ Behind(r, "save")'
      BY <3>2 DEF Serves, Behind, LoginStep
    <3>4. Proceeds(q)
      BY <1>2, <1>9, <2>3, <3>1, <3>3 DEF Find
    <3> QED
      BY <3>4 DEF Treats
  <2> QED
    BY <1>9, <2>1, <2>2, <2>3 DEF Find
<1>10. ASSUME NEW r \in Request, Save(r)
       PROVE  Treats(q)
  <2>1. CASE q # r
    BY <1>10, <2>1, OthersSame DEF Save, Treats
  <2>2. CASE q = r
    <3>1. Ends(q)
      BY <1>1, <1>10, <2>2 DEF Save, Step
    <3> QED
      BY <3>1 DEF Treats
  <2> QED
    BY <2>1, <2>2
<1>11. ASSUME NEW r \in Request, QueryFails(r)
       PROVE  Treats(q)
  <2>1. CASE q # r
    BY <1>11, <2>1, OthersSame DEF QueryFails, Treats
  <2>2. CASE q = r
    <3>1. Ends(q)
      BY <1>1, <1>11, <2>2 DEF QueryFails
    <3> QED
      BY <3>1 DEF Treats
  <2> QED
    BY <2>1, <2>2
<1>12. ASSUME Crash
       PROVE  Treats(q)
  BY <1>12 DEF Crash, Active, Treats, Same, IsCut
<1>13. ASSUME UNCHANGED vars \/ \E t \in tokens : Expire(t)
       PROVE  Treats(q)
  BY <1>13 DEF vars, Expire, Treats, Same
<1>14. ASSUME NEW r \in Request, Submit(r)
       PROVE  Treats(q)
  <2>1. \A t \in tokens : t.sub \in User
    BY DEF TypeOK, Token
  <2> QED
    BY <1>4, <1>5, <1>6, <1>14, <2>1, Operations DEF Submit
<1> QED
  BY <1>7, <1>8, <1>9, <1>10, <1>11, <1>12, <1>13, <1>14 DEF Next, Continue


(* The stores only grow.                                                   *)
LEMMA StoresGrow ==
    ASSUME [Next]_vars
    PROVE  /\ deleted \subseteq deleted' /\ files \subseteq files'
           /\ history \subseteq history'
<1> DEFINE Grow == /\ deleted \subseteq deleted' /\ files \subseteq files'
                   /\ history \subseteq history'
<1>1. ASSUME UNCHANGED stores
      PROVE  Grow
  BY <1>1 DEF stores
<1> HIDE DEF Grow
<1>2. ASSUME NEW r \in Request, Submit(r)
      PROVE  Grow
  BY <1>1, <1>2 DEF Submit, Login, Refresh, Admit
<1>3. ASSUME NEW r \in Request,
             ReadUser(r) \/ ValidatePassword(r) \/ GetUrl(r) \/ Read(r) \/ Find(r)
      PROVE  Grow
  BY <1>1, <1>3 DEF ReadUser, ValidatePassword, GetUrl, Read, Find
<1>4. ASSUME NEW r \in Request, UploadFile(r)
      PROVE  Grow
  BY <1>4 DEF UploadFile, Grow
<1>5. ASSUME NEW r \in Request, CreateLoginHistory(r)
      PROVE  Grow
  BY <1>5 DEF CreateLoginHistory, Grow
<1>6. ASSUME NEW r \in Request, Save(r)
      PROVE  Grow
  BY <1>6 DEF Save, Grow
<1>7. ASSUME \/ \E r \in Request : QueryFails(r)
             \/ \E t \in tokens : Expire(t)
             \/ Crash
      PROVE  Grow
  BY <1>1, <1>7 DEF QueryFails, Expire, Crash
<1>8. ASSUME UNCHANGED vars
      PROVE  Grow
  BY <1>1, <1>8 DEF vars, stores
<1>9. Grow
  BY <1>2, <1>3, <1>4, <1>5, <1>6, <1>7, <1>8 DEF Next, Continue
<1> QED
  BY <1>9 DEF Grow

(* What handlers serve and have behind them, whatever the step.            *)
LEMMA StepServes ==
    ASSUME TypeOK, ServesInv, BehindInv, [Next]_vars
    PROVE  ServesInv' /\ BehindInv'
<1>1. ASSUME NEW q \in Request
      PROVE  Serves(call'[q]) /\ Behind(q, call[q].at)'
  <2>0. Treats(q) /\ Serves(call[q]) /\ Behind(q, call[q].at)
    BY EveryStepTreats DEF ServesInv, BehindInv
  <2>1. CASE Same(q)
    BY <2>0, <2>1, StoresGrow DEF Same, Behind
  <2>2. CASE Begins(q)
    BY <2>2 DEF Begins, Behind
  <2>3. CASE RepliedAtOnce(q) \/ Ends(q)
    BY <2>3 DEF RepliedAtOnce, Ends, Serves, Behind, Step, LoginStep
  <2>4. CASE Proceeds(q)
    BY <2>4 DEF Proceeds
  <2>5. CASE IsCut(q)
    <3>1. CutOff.at = "cut off"
      BY DEF CutOff
    <3>2. call'[q].at = "cut off"
      BY <2>5, <3>1 DEF IsCut
    <3> QED
      BY <3>2 DEF Serves, Behind, Step, LoginStep
  <2> QED
    BY <2>0, <2>1, <2>2, <2>3, <2>4, <2>5 DEF Treats
<1> QED
  BY <1>1 DEF ServesInv, BehindInv

(* The state before any request satisfies them too.                        *)
LEMMA InitServes == Init => ServesInv /\ BehindInv
<1>1. New.at = "new"
  BY DEF New
<1>2. ASSUME Init, NEW r \in Request
      PROVE  Serves(call[r]) /\ Behind(r, call[r].at)
  <2>1. call[r].at = "new"
    BY <1>1, <1>2 DEF Init
  <2> QED
    BY <2>1 DEF Serves, Behind, Step, LoginStep
<1> QED
  BY <1>2 DEF ServesInv, BehindInv

-----------------------------------------------------------------------------
(* An answered request stays as it was answered.                           *)
LEMMA AnsweredStays ==
    ASSUME TypeOK, ServesInv, BehindInv, [Next]_vars, NEW q \in Request,
           call[q].at = "done"
    PROVE  call'[q] = call[q]
<1>1. Treats(q)
  BY EveryStepTreats
<1>2. New.at = "new"
  BY DEF New
<1>3. call[q].at \notin Step /\ call[q] # New
  BY <1>2 DEF Step
<1> QED
  BY <1>1, <1>3 DEF Treats, Same, Begins, RepliedAtOnce, Proceeds, Ends, IsCut, Came

(* Tokens are signed by a login that is complete, and by a refresh for the *)
(* login of the token it was called with.                                  *)
LEMMA TokensSigned ==
    ASSUME TypeOK, ServesInv, BehindInv, [Next]_vars, NEW n \in tokens'
    PROVE  \/ \E t \in tokens : n.sub = t.sub /\ n.login = t.login
           \/ /\ n.login \in Request
              /\ n.login \in history' \cap files'
              /\ call'[n.login] = [at |-> "done", op |-> "login",
                                   sub |-> n.sub, target |-> n.sub,
                                   ok |-> TRUE]
<1> DEFINE Stems == \/ \E t \in tokens : n.sub = t.sub /\ n.login = t.login
                    \/ /\ n.login \in Request
                       /\ n.login \in history' \cap files'
                       /\ call'[n.login] = [at |-> "done", op |-> "login",
                                            sub |-> n.sub, target |-> n.sub,
                                            ok |-> TRUE]
<1>1. ASSUME n \in tokens
      PROVE  Stems
  BY <1>1
<1>2. ASSUME UNCHANGED tokens
      PROVE  Stems
  BY <1>1, <1>2
<1>3. ASSUME NEW r, NEW u, NEW login, n \in Signed(r, u, login)
      PROVE  n.sub = u /\ n.login = login
  BY <1>3 DEF Signed
<1>4. ASSUME NEW r \in Request, NEW t \in tokens, Refresh(r, t)
      PROVE  Stems
  <2>1. n \in tokens \/ n \in Signed(r, t.sub, t.login)
    BY <1>4 DEF Refresh
  <2> QED
    BY <1>1, <1>3, <2>1
<1>5. ASSUME NEW r \in Request, GetUrl(r)
      PROVE  Stems
  <2>1. call[r].at = "getUrl" /\ UNCHANGED stores
    BY <1>5 DEF GetUrl
  <2>2. /\ call[r].op = "login" /\ call[r].sub = call[r].target
        /\ r \in files /\ r \in history
    BY <2>1 DEF ServesInv, BehindInv, Serves, Behind, LoginStep, Step
  <2>3. CASE n \notin tokens
    <3>1. n \in Signed(r, call[r].sub, r) /\ Answer(r, TRUE)
      BY <1>5, <2>3 DEF GetUrl
    <3>2. n.sub = call[r].sub /\ n.login = r
      BY <1>3, <3>1
    <3>3. call'[r] = [at |-> "done", op |-> call[r].op, sub |-> call[r].sub,
                      target |-> call[r].target, ok |-> TRUE]
      BY <3>1 DEF Answer, Reply, TypeOK
    <3> QED
      BY <2>1, <2>2, <3>2, <3>3 DEF stores
  <2> QED
    BY <1>1, <2>3
<1> HIDE DEF Stems
<1>6. ASSUME NEW r \in Request, Submit(r)
      PROVE  Stems
  BY <1>2, <1>4, <1>6 DEF Submit, Login, Admit
<1>7. ASSUME NEW r \in Request, Continue(r)
      PROVE  Stems
  BY <1>2, <1>5, <1>7 DEF Continue, ReadUser, ValidatePassword, UploadFile,
     CreateLoginHistory, Read, Find, Save
<1>8. ASSUME \/ \E r \in Request : QueryFails(r)
             \/ \E t \in tokens : Expire(t)
             \/ Crash
             \/ UNCHANGED vars
      PROVE  Stems
  BY <1>2, <1>8 DEF QueryFails, Expire, Crash, vars
<1>9. Stems
  BY <1>6, <1>7, <1>8 DEF Next
<1> QED
  BY <1>9 DEF Stems

(* Every token stems from a login that login_history records.              *)
THEOREM SessionsRecorded == Spec => []SessionsAreRecorded
<1>1. Init => SessionsAreRecorded
  BY DEF Init, SessionsAreRecorded
<1>2. ASSUME TypeOK, ServesInv, BehindInv, SessionsAreRecorded, [Next]_vars
      PROVE  SessionsAreRecorded'
  <2>1. ASSUME NEW n \in tokens'
        PROVE  /\ n.login \in history' \cap files'
               /\ call'[n.login] = [at |-> "done", op |-> "login",
                                    sub |-> n.sub, target |-> n.sub,
                                    ok |-> TRUE]
    <3>1. ASSUME NEW t \in tokens, n.sub = t.sub, n.login = t.login
          PROVE  /\ n.login \in history' \cap files'
                 /\ call'[n.login] = [at |-> "done", op |-> "login",
                                      sub |-> n.sub, target |-> n.sub,
                                      ok |-> TRUE]
      <4>1. /\ t.login \in history \cap files
            /\ call[t.login] = [at |-> "done", op |-> "login", sub |-> t.sub,
                                target |-> t.sub, ok |-> TRUE]
        BY <1>2 DEF SessionsAreRecorded
      <4>2. t.login \in Request /\ call[t.login].at = "done"
        BY <1>2, <4>1 DEF TypeOK
      <4>3. call'[t.login] = call[t.login]
        BY <1>2, <4>2, AnsweredStays
      <4> QED
        BY <1>2, <3>1, <4>1, <4>3, StoresGrow
    <3> QED
      BY <1>2, <3>1, TokensSigned
  <2> QED
    BY <2>1 DEF SessionsAreRecorded
<1> QED
  BY <1>1, <1>2, InitServes, StepServes, SessionsTypeCorrect, PTL DEF Spec

-----------------------------------------------------------------------------
(* What DeletedNotServed rests on: an acknowledged deletion is saved; who  *)
(* was answered before a request came stays answered; and a handler at     *)
(* work for a user, or done for one, found the user before any deletion it *)
(* comes after.                                                            *)
DeletionsSaved ==
    \A d \in Request : Succeeded(d, "deleteUser") => call[d].target \in deleted
BeforeAnswered ==
    \A r \in Request : \A d \in before[r] : call[d].at = "done"
Serving(r) ==
    \/ call[r].at \in Step
    \/ call[r].at = "done" /\ call[r].ok /\ call[r].op # "refresh"
FoundLive ==
    \A r \in Request : Serving(r) =>
        \A d \in before[r] :
            Succeeded(d, "deleteUser") => call[r].sub # call[d].target
DeletedInv == DeletionsSaved /\ BeforeAnswered /\ FoundLive

(* A deletion acknowledged after a step was acknowledged before, or is     *)
(* saved by the step.                                                      *)
LEMMA StepSaves ==
    ASSUME TypeOK, ServesInv, BehindInv, DeletionsSaved, [Next]_vars
    PROVE  DeletionsSaved'
<1>1. ASSUME NEW d \in Request, Succeeded(d, "deleteUser")'
      PROVE  call'[d].target \in deleted'
  <2>0. Treats(d)
    BY EveryStepTreats
  <2>1. CASE Same(d)
    BY <1>1, <2>1, StoresGrow DEF Same, Succeeded, DeletionsSaved
  <2>2. ~ Begins(d)
    BY <1>1 DEF Begins, Succeeded, Step
  <2>3. ~ RepliedAtOnce(d)
    BY <1>1 DEF RepliedAtOnce, Succeeded
  <2>4. ~ Proceeds(d)
    BY <1>1 DEF Proceeds, Succeeded, Step
  <2>5. CASE Ends(d)
    BY <1>1, <2>5 DEF Ends, Succeeded
  <2>6. ~ IsCut(d)
    <3>1. CutOff.at = "cut off"
      BY DEF CutOff
    <3> QED
      BY <1>1, <3>1 DEF IsCut, Succeeded
  <2> QED
    BY <2>0, <2>1, <2>2, <2>3, <2>4, <2>5, <2>6 DEF Treats
<1> QED
  BY <1>1 DEF DeletionsSaved

(* A request that comes after a deletion was acknowledged is never served  *)
(* for the deleted user.                                                   *)
THEOREM DeletionRespected == Spec => []DeletedNotServed
<1>0. New.at = "new" /\ CutOff.at = "cut off"
  BY DEF New, CutOff
<1>1. Init => DeletedInv
  BY <1>0 DEF Init, DeletedInv, DeletionsSaved, BeforeAnswered, FoundLive,
     Succeeded
<1>2. ASSUME TypeOK, ServesInv, BehindInv, DeletedInv, [Next]_vars
      PROVE  DeletedInv'
  <2> USE <1>2
  <2>1. DeletionsSaved'
    BY StepSaves DEF DeletedInv
  <2>2. ASSUME NEW r \in Request, NEW d \in before'[r]
        PROVE  d \in Request /\ call[d].at = "done" /\ call'[d] = call[d]
    <3>0. Treats(r)
      BY EveryStepTreats
    <3>1. d \in Request /\ call[d].at = "done"
      <4>1. CASE before'[r] = before[r]
        BY <4>1 DEF DeletedInv, BeforeAnswered, TypeOK
      <4>2. CASE Came(r)
        BY <4>2 DEF Came
      <4> QED
        BY <3>0, <4>1, <4>2 DEF Treats, Same, Begins, RepliedAtOnce, Proceeds,
           Ends, IsCut
    <3> QED
      BY <3>1, AnsweredStays
  <2>3. BeforeAnswered'
    BY <2>2 DEF BeforeAnswered
  <2>4. ASSUME NEW r \in Request, Serving(r)', NEW d \in before'[r],
               Succeeded(d, "deleteUser")'
        PROVE  call'[r].sub # call'[d].target
    <3>0. Treats(r)
      BY EveryStepTreats
    <3>1. /\ d \in Request /\ Succeeded(d, "deleteUser")
          /\ call'[d].target = call[d].target
      BY <2>2, <2>4 DEF Succeeded
    <3>2. ASSUME Serving(r), before'[r] = before[r],
                 call'[r].sub = call[r].sub
          PROVE  call'[r].sub # call'[d].target
      BY <2>4, <3>1, <3>2 DEF DeletedInv, FoundLive
    <3>3. CASE Same(r)
      BY <2>4, <3>2, <3>3 DEF Same, Serving
    <3>4. CASE Begins(r)
      <4>1. call[d].target \in deleted
        BY <3>1 DEF DeletedInv, DeletionsSaved
      <4> QED
        BY <3>1, <3>4, <4>1 DEF Begins, Live
    <3>5. ~ RepliedAtOnce(r)
      BY <2>4 DEF RepliedAtOnce, Serving, Step
    <3>6. CASE Proceeds(r) \/ Ends(r)
      BY <3>2, <3>6 DEF Proceeds, Ends, Serving
    <3>7. ~ IsCut(r)
      BY <1>0, <2>4 DEF IsCut, Serving, Step
    <3> QED
      BY <3>0, <3>3, <3>4, <3>5, <3>6, <3>7 DEF Treats
  <2>5. FoundLive'
    BY <2>4 DEF FoundLive
  <2> QED
    BY <2>1, <2>3, <2>5 DEF DeletedInv
<1>3. TypeOK /\ ServesInv /\ DeletedInv => DeletedNotServed
  <2>1. ASSUME TypeOK, DeletedInv, NEW d \in Request, NEW r \in Request,
               Succeeded(d, "deleteUser"), d \in before[r],
               NEW o \in Guarded \union {"login"}, Succeeded(r, o)
        PROVE  call[r].sub # call[d].target
    <3>1. o # "refresh"
      BY Operations
    <3>2. Serving(r)
      BY <2>1, <3>1 DEF Serving, Succeeded
    <3> QED
      BY <2>1, <3>2 DEF DeletedInv, FoundLive
  <2> QED
    BY <2>1 DEF DeletedNotServed
<1> QED
  BY <1>1, <1>2, <1>3, InitServes, StepServes, SessionsTypeCorrect, PTL
     DEF Spec

=============================================================================
