-------------------------- MODULE OTPSystem_proofs --------------------------
(***************************************************************************)
(* Proofs about the contract: its state is well typed, no window is open   *)
(* over an absent commitment, every accepted password has an activation of *)
(* its own, activations follow a registration and registrations a removal  *)
(* from the blacklist, a commitment is replaced by its opening only, the   *)
(* index counts what was accepted, and the contract implements the         *)
(* abstract device.                                                        *)
(***************************************************************************)
EXTENDS OTPSystem, FiniteSetTheorems, TLAPS

USE DEF Time, Role, Event, OTPData

(* Emitting an event keeps every log a sequence of events.                 *)
LEMMA EmitType ==
    ASSUME log \in [UserId -> Seq(Event)],
           NEW users, NEW event \in Event, Emit(users, event)
    PROVE  log' \in [UserId -> Seq(Event)]
BY DEF Emit

(* Storage keeps its types: each handler writes values of the type it      *)
(* declares, and the index is never anything but a natural number.         *)
THEOREM TypeCorrect == Spec => []TypeOK
<1>1. Init => TypeOK
  BY ContractAssumption DEF Init, TypeOK, EmptyRecord
<1>2. TypeOK /\ [Next]_vars => TypeOK'
  <2> SUFFICES ASSUME TypeOK, [Next]_vars PROVE TypeOK'
    OBVIOUS
  <2>1. ASSUME NEW u \in UserId, NEW sender \in Account,
               NEW commitment \in Digest, NEW recovered \in Account,
               RegisterUser(u, commitment, recovered, sender)
        PROVE  TypeOK'
    BY <2>1, EmitType, 0 \in Nat, 1 \in Nat DEF RegisterUser, TypeOK
  <2>2. ASSUME NEW u \in UserId, NEW sender \in Account,
               NEW start \in Time, NEW end \in Time,
               UpdateOtpWindow(u, start, end, sender)
        PROVE  TypeOK'
    BY <2>2, EmitType DEF UpdateOtpWindow, TypeOK
  <2>3. ASSUME NEW u \in UserId, NEW sender \in Account,
               NEW index \in 0 .. MaxEvents, NEW otp \in Otp,
               NEW commitment \in Digest, NEW recovered \in Account,
               VerifyOtp(u, index, otp, commitment, recovered, sender)
        PROVE  TypeOK'
    BY <2>3, EmitType DEF VerifyOtp, TypeOK
  <2>4. ASSUME NEW users \in SUBSET UserId, NEW sender \in Account,
               ResetManyOtps(users, sender)
        PROVE  TypeOK'
    <3>1. log' \in [UserId -> Seq(Event)]
      <4>1. "OtpReset" \in Event
        BY DEF Event
      <4> QED
        BY <2>4, <4>1, EmitType DEF ResetManyOtps, TypeOK
    <3>2. otpRecords' \in [UserId -> OTPData]
      <4>1. EmptyRecord \in OTPData
        BY ContractAssumption DEF EmptyRecord, OTPData
      <4> QED
        BY <2>4, <4>1 DEF ResetManyOtps, TypeOK
    <3> QED
      BY <2>4, <3>1, <3>2 DEF ResetManyOtps, TypeOK
  <2>5. ASSUME NEW u \in UserId, NEW sender \in Account,
               BlacklistUser(u, sender) \/ RemoveUserFromBlacklist(u, sender)
        PROVE  TypeOK'
    BY <2>5, EmitType DEF BlacklistUser, RemoveUserFromBlacklist, TypeOK
  <2>6. ASSUME NEW role \in Role, NEW account \in Account,
               NEW sender \in Account,
               \/ GrantRole(role, account, sender)
               \/ RevokeRole(role, account, sender)
        PROVE  TypeOK'
    BY <2>6 DEF GrantRole, RevokeRole, TypeOK
  <2>7. CASE Tick
    BY <2>7, ContractAssumption DEF Tick, TypeOK
  <2>8. CASE UNCHANGED vars
    BY <2>8 DEF vars, TypeOK
  <2> QED
    BY <2>1, <2>2, <2>3, <2>4, <2>5, <2>6, <2>7, <2>8
       DEF Next, RegisterCall, UpdateWindowCall, VerifyCall, RoleCall
<1> QED
  BY <1>1, <1>2, PTL DEF Spec

-----------------------------------------------------------------------------
(* Windows.  WindowOK is inductive together with the types.                *)
THEOREM WindowCorrect == Spec => []WindowOK
<1>1. Init => WindowOK
  BY DEF Init, WindowOK, WindowClosed, EmptyRecord
<1>2. TypeOK /\ WindowOK /\ [Next]_vars => WindowOK'
  <2> SUFFICES ASSUME TypeOK, WindowOK, [Next]_vars,
                      NEW v \in UserId
               PROVE  /\ \/ WindowClosed(v)'
                         \/ otpRecords'[v].startTime < otpRecords'[v].endTime
                      /\ otpRecords'[v].commitmentValue = Zero
                            => WindowClosed(v)'
                      /\ otpRecords'[v].index = 0
                            => otpRecords'[v] = EmptyRecord
    BY DEF WindowOK
  <2> DEFINE Left == otpRecords'[v] = otpRecords[v]
             Emptied == otpRecords'[v] = EmptyRecord
             Closed == WindowClosed(v)' /\ otpRecords'[v].index # 0
             Opened == /\ otpRecords'[v].startTime < otpRecords'[v].endTime
                       /\ otpRecords'[v].commitmentValue # Zero
                       /\ otpRecords'[v].index # 0
             Fate == Left \/ Emptied \/ Closed \/ Opened
  <2>1. ASSUME NEW u \in UserId, NEW sender \in Account,
               NEW commitment \in Digest, NEW recovered \in Account,
               RegisterUser(u, commitment, recovered, sender)
        PROVE  Fate
    BY <2>1 DEF RegisterUser, TypeOK, WindowClosed
  <2>2. ASSUME NEW u \in UserId, NEW sender \in Account,
               NEW start \in Time, NEW end \in Time,
               UpdateOtpWindow(u, start, end, sender)
        PROVE  Fate
    <3>1. CASE v = u
      <4>1. otpRecords[u].commitmentValue # Zero /\ start < end
        BY <2>2 DEF UpdateOtpWindow, CanUpdateOtpWindow
      <4>2. otpRecords[u].index # 0
        BY <4>1 DEF EmptyRecord, WindowOK
      <4> QED
        BY <2>2, <3>1, <4>1, <4>2 DEF UpdateOtpWindow, TypeOK
    <3>2. CASE v # u
      BY <2>2, <3>2 DEF UpdateOtpWindow, TypeOK
    <3> QED
      BY <3>1, <3>2
  <2>3. ASSUME NEW u \in UserId, NEW sender \in Account,
               NEW index \in 0 .. MaxEvents, NEW otp \in Otp,
               NEW commitment \in Digest, NEW recovered \in Account,
               VerifyOtp(u, index, otp, commitment, recovered, sender)
        PROVE  Fate
    BY <2>3 DEF VerifyOtp, TypeOK, WindowClosed
  <2>4. ASSUME NEW users \in SUBSET UserId, NEW sender \in Account,
               ResetManyOtps(users, sender)
        PROVE  Fate
    BY <2>4 DEF ResetManyOtps
  <2>5. ASSUME NEW u \in UserId, NEW sender \in Account,
               BlacklistUser(u, sender) \/ RemoveUserFromBlacklist(u, sender)
        PROVE  Fate
    BY <2>5 DEF BlacklistUser, RemoveUserFromBlacklist
  <2>6. ASSUME NEW role \in Role, NEW account \in Account,
               NEW sender \in Account,
               \/ GrantRole(role, account, sender)
               \/ RevokeRole(role, account, sender)
        PROVE  Fate
    BY <2>6 DEF GrantRole, RevokeRole
  <2>7. ASSUME Tick \/ UNCHANGED vars
        PROVE  Fate
    BY <2>7 DEF Tick, vars
  <2>8. Fate
    <3> HIDE DEF Fate
    <3> QED
      BY <2>1, <2>2, <2>3, <2>4, <2>5, <2>6, <2>7
         DEF Next, RegisterCall, UpdateWindowCall, VerifyCall, RoleCall
  <2>9. CASE Left
    BY <2>9 DEF WindowOK, WindowClosed
  <2>10. CASE Emptied
    BY <2>10 DEF EmptyRecord, WindowClosed
  <2>11. CASE Closed \/ Opened
    BY <2>11
  <2> QED
    BY <2>8, <2>9, <2>10, <2>11
<1> QED
  BY <1>1, <1>2, TypeCorrect, PTL DEF Spec

-----------------------------------------------------------------------------
(* Event logs.  Appending an event changes nothing about earlier positions *)
(* of a log; the position after it sees the event itself first.            *)
LEMMA PrecedesEarlier ==
    ASSUME NEW a, NEW Cancels, NEW l \in Seq(Event), NEW event \in Event,
           NEW j \in 1 .. Len(l) + 1, Precedes(a, Cancels, l, j)
    PROVE  Precedes(a, Cancels, Append(l, event), j)
<1>1. \A m \in 1 .. j - 1 : Append(l, event)[m] = l[m]
  OBVIOUS
<1>2. PICK k \in 1 .. j - 1 :
        /\ l[k] = a
        /\ \A m \in k + 1 .. j - 1 : l[m] \notin Cancels
  BY DEF Precedes
<1>3. \A m \in k + 1 .. j - 1 : m \in 1 .. j - 1
  OBVIOUS
<1> QED
  BY <1>1, <1>2, <1>3 DEF Precedes

(* What precedes the end of a log precedes the end of the longer log,      *)
(* unless the event appended cancels it.                                   *)
LEMMA PrecedesKept ==
    ASSUME NEW a, NEW Cancels, NEW l \in Seq(Event), NEW event \in Event,
           Precedes(a, Cancels, l, Len(l) + 1), event \notin Cancels
    PROVE  Precedes(a, Cancels, Append(l, event), Len(l) + 2)
<1>1. PICK k \in 1 .. Len(l) :
        /\ l[k] = a
        /\ \A m \in k + 1 .. Len(l) : l[m] \notin Cancels
  BY DEF Precedes
<1>2. \A m \in k + 1 .. Len(l) + 1 : Append(l, event)[m] \notin Cancels
  BY <1>1
<1>3. Append(l, event)[k] = a
  BY <1>1
<1> QED
  BY <1>2, <1>3 DEF Precedes

(* An appended event precedes the new end of the log.                      *)
LEMMA PrecedesLast ==
    ASSUME NEW a \in Event, NEW Cancels, NEW l \in Seq(Event)
    PROVE  Precedes(a, Cancels, Append(l, a), Len(l) + 2)
<1>1. Append(l, a)[Len(l) + 1] = a
  OBVIOUS
<1> QED
  BY <1>1 DEF Precedes

(* An activation no closing event follows: what an open window stands for. *)
Activated(l) == Precedes("OtpActivated", Closing, l, Len(l) + 1)
EachActivated(l) ==
    \A j \in 1 .. Len(l) :
        l[j] = "OtpVerified" => Precedes("OtpActivated", Closing, l, j)

(* A log whose verifications are all activated stays so when an event is   *)
(* appended that is no verification, or one the log is activated for.      *)
LEMMA EachActivatedAppend ==
    ASSUME NEW l \in Seq(Event), NEW event \in Event, EachActivated(l),
           event = "OtpVerified" => Activated(l)
    PROVE  EachActivated(Append(l, event))
<1> SUFFICES ASSUME NEW j \in 1 .. Len(l) + 1,
                    Append(l, event)[j] = "OtpVerified"
             PROVE  Precedes("OtpActivated", Closing, Append(l, event), j)
  BY DEF EachActivated
<1>1. CASE j \in 1 .. Len(l)
  <2>1. l[j] = "OtpVerified"
    BY <1>1
  <2> QED
    BY <1>1, <2>1, PrecedesEarlier DEF EachActivated
<1>2. CASE j = Len(l) + 1
  BY <1>2, PrecedesEarlier DEF Activated
<1> QED
  BY <1>1, <1>2

(* A window that is not closed was activated after the last registration,  *)
(* verification and reset.                                                 *)
ActivationInv ==
    \A u \in UserId : /\ EachActivated(log[u])
                      /\ WindowClosed(u) \/ Activated(log[u])

(* How one step may treat user v: it leaves the window alone and emits no  *)
(* closing event, closes it, or opens it and says so.                      *)
Fair(v, event) ==
    /\ log'[v] = Append(log[v], event)
    /\ event = "OtpVerified" => ~ WindowClosed(v)
    /\ \/ WindowClosed(v)'
       \/ event = "OtpActivated"
       \/ event \notin Closing /\ otpRecords'[v] = otpRecords[v]

(* A step that treats a user so keeps the user's part of ActivationInv.    *)
LEMMA FairStep ==
    ASSUME TypeOK, ActivationInv, NEW v \in UserId,
           NEW event \in Event, Fair(v, event)
    PROVE  /\ EachActivated(log'[v])
           /\ WindowClosed(v)' \/ Activated(log'[v])
<1>1. log[v] \in Seq(Event)
  BY DEF TypeOK
<1>2. EachActivated(log'[v])
  BY <1>1, EachActivatedAppend DEF Fair, ActivationInv
<1>3. Len(log'[v]) + 1 = Len(log[v]) + 2
  BY <1>1 DEF Fair
<1>4. CASE event = "OtpActivated"
  BY <1>1, <1>2, <1>3, <1>4, PrecedesLast DEF Fair, Activated
<1>5. CASE event \notin Closing /\ otpRecords'[v] = otpRecords[v]
  BY <1>1, <1>2, <1>3, <1>5, PrecedesKept
     DEF Fair, Activated, ActivationInv, WindowClosed
<1> QED
  BY <1>2, <1>4, <1>5 DEF Fair

(* One activation admits at most one password.  verifyOtp's time require   *)
(* holds only in a window that is not closed, and every handler that moves *)
(* the record to a state without a pending activation closes the window.   *)
THEOREM ActivationCorrect == Spec => []VerifiedNeedsActivation
<1>1. Init => ActivationInv
  BY DEF Init, ActivationInv, EachActivated, WindowClosed, EmptyRecord
<1>2. TypeOK /\ ActivationInv /\ [Next]_vars => ActivationInv'
  <2> SUFFICES ASSUME TypeOK, ActivationInv, [Next]_vars,
                      NEW v \in UserId
               PROVE  /\ EachActivated(log'[v])
                      /\ WindowClosed(v)' \/ Activated(log'[v])
    BY DEF ActivationInv
  <2> DEFINE Left == otpRecords'[v] = otpRecords[v] /\ log'[v] = log[v]
             Fate == Left \/ \E event \in Event : Fair(v, event)
  <2>1. ASSUME NEW u \in UserId, NEW sender \in Account,
               NEW commitment \in Digest, NEW recovered \in Account,
               RegisterUser(u, commitment, recovered, sender)
        PROVE  Fate
    <3>1. CASE v = u
      <4>1. Fair(v, "UserRegistered")
        BY <2>1, <3>1 DEF RegisterUser, Emit, TypeOK, Fair, WindowClosed
      <4> QED
        BY <4>1
    <3>2. CASE v # u
      BY <2>1, <3>2 DEF RegisterUser, Emit, TypeOK
    <3> QED
      BY <3>1, <3>2
  <2>2. ASSUME NEW u \in UserId, NEW sender \in Account,
               NEW start \in Time, NEW end \in Time,
               UpdateOtpWindow(u, start, end, sender)
        PROVE  Fate
    <3>1. CASE v = u
      <4>1. Fair(v, "OtpActivated")
        BY <2>2, <3>1 DEF UpdateOtpWindow, Emit, TypeOK, Fair
      <4> QED
        BY <4>1
    <3>2. CASE v # u
      BY <2>2, <3>2 DEF UpdateOtpWindow, Emit, TypeOK
    <3> QED
      BY <3>1, <3>2
  <2>3. ASSUME NEW u \in UserId, NEW sender \in Account,
               NEW index \in 0 .. MaxEvents, NEW otp \in Otp,
               NEW commitment \in Digest, NEW recovered \in Account,
               VerifyOtp(u, index, otp, commitment, recovered, sender)
        PROVE  Fate
    <3>1. CASE v = u
      <4>1. ~ WindowClosed(u)
        BY <2>3 DEF VerifyOtp, CanVerifyOtp, TypeOK, WindowClosed
      <4>2. Fair(v, "OtpVerified")
        BY <2>3, <3>1, <4>1 DEF VerifyOtp, Emit, TypeOK, Fair, WindowClosed
      <4> QED
        BY <4>2
    <3>2. CASE v # u
      BY <2>3, <3>2 DEF VerifyOtp, Emit, TypeOK
    <3> QED
      BY <3>1, <3>2
  <2>4. ASSUME NEW users \in SUBSET UserId, NEW sender \in Account,
               ResetManyOtps(users, sender)
        PROVE  Fate
    <3>1. CASE v \in users
      <4>1. Fair(v, "OtpReset")
        BY <2>4, <3>1
           DEF ResetManyOtps, Emit, TypeOK, Fair, WindowClosed, EmptyRecord
      <4> QED
        BY <4>1
    <3>2. CASE v \notin users
      BY <2>4, <3>2 DEF ResetManyOtps, Emit, TypeOK
    <3> QED
      BY <3>1, <3>2
  <2>5. ASSUME NEW u \in UserId, NEW sender \in Account,
               BlacklistUser(u, sender) \/ RemoveUserFromBlacklist(u, sender)
        PROVE  Fate
    <3> PICK event \in {"UserBlacklisted", "UserRemovedFromBlacklist"} :
             Emit({u}, event) /\ UNCHANGED otpRecords
      BY <2>5 DEF BlacklistUser, RemoveUserFromBlacklist
    <3>1. CASE v = u
      <4>1. Fair(v, event)
        BY <3>1 DEF Emit, TypeOK, Fair, Closing
      <4> QED
        BY <4>1
    <3>2. CASE v # u
      BY <3>2 DEF Emit, TypeOK
    <3> QED
      BY <3>1, <3>2
  <2>6. ASSUME NEW role \in Role, NEW account \in Account,
               NEW sender \in Account,
               \/ GrantRole(role, account, sender)
               \/ RevokeRole(role, account, sender)
        PROVE  Fate
    BY <2>6 DEF GrantRole, RevokeRole
  <2>7. ASSUME Tick \/ UNCHANGED vars
        PROVE  Fate
    BY <2>7 DEF Tick, vars
  <2>8. Fate
    <3> HIDE DEF Fate
    <3> QED
      BY <2>1, <2>2, <2>3, <2>4, <2>5, <2>6, <2>7
         DEF Next, RegisterCall, UpdateWindowCall, VerifyCall, RoleCall
  <2>9. CASE Left
    BY <2>9 DEF ActivationInv, WindowClosed
  <2> QED
    BY <2>8, <2>9, FairStep
<1>3. ActivationInv => VerifiedNeedsActivation
  BY DEF ActivationInv, EachActivated, VerifiedNeedsActivation
<1> QED
  BY <1>1, <1>2, <1>3, TypeCorrect, PTL DEF Spec

-----------------------------------------------------------------------------
(* What one step may do to user v: the record, the flag and the log change *)
(* together, as one of the contract's functions changes them.              *)
FlagKept(v) == blacklisted'[v] = blacklisted[v]
RecordKept(v) == otpRecords'[v] = otpRecords[v]
Logs(v, event) == log'[v] = Append(log[v], event)

Untouched(v) == RecordKept(v) /\ FlagKept(v) /\ log'[v] = log[v]

Registers(v) ==
    /\ Logs(v, "UserRegistered") /\ FlagKept(v)
    /\ ~ blacklisted[v]
    /\ otpRecords[v].commitmentValue = Zero
    /\ otpRecords'[v].index = 1

Activates(v) ==
    /\ Logs(v, "OtpActivated") /\ FlagKept(v)
    /\ otpRecords[v].commitmentValue # Zero
    /\ otpRecords'[v].commitmentValue = otpRecords[v].commitmentValue
    /\ otpRecords'[v].index = otpRecords[v].index

Verifies(v) ==
    /\ Logs(v, "OtpVerified") /\ FlagKept(v)
    /\ otpRecords[v].commitmentValue # Zero
    /\ otpRecords[v].startTime <= now
    /\ now <= otpRecords[v].endTime
    /\ otpRecords'[v].index = otpRecords[v].index + 1
    /\ WindowClosed(v)'

Resets(v) ==
    /\ Logs(v, "OtpReset") /\ FlagKept(v)
    /\ otpRecords'[v] = EmptyRecord

Blacklists(v) ==
    /\ Logs(v, "UserBlacklisted") /\ RecordKept(v)
    /\ blacklisted'[v] = TRUE

Readmits(v) ==
    /\ Logs(v, "UserRemovedFromBlacklist") /\ RecordKept(v)
    /\ blacklisted'[v] = FALSE

Treats(v) ==
    \/ Untouched(v)
    \/ Registers(v)
    \/ Activates(v)
    \/ Verifies(v)
    \/ Resets(v)
    \/ Blacklists(v)
    \/ Readmits(v)

(* Every step treats every user in one of these ways: a function that is   *)
(* called for another user leaves this one untouched.                      *)
LEMMA EveryStepTreats ==
    ASSUME TypeOK, [Next]_vars, NEW v \in UserId
    PROVE  Treats(v)
<1>1. ASSUME NEW u \in UserId, NEW sender \in Account,
             NEW commitment \in Digest, NEW recovered \in Account,
             RegisterUser(u, commitment, recovered, sender)
      PROVE  Untouched(v) \/ Registers(v)
  BY <1>1 DEF RegisterUser, CanRegisterUser, Emit, TypeOK, Untouched,
              Registers, FlagKept, RecordKept, Logs
<1>2. ASSUME NEW u \in UserId, NEW sender \in Account,
             NEW start \in Time, NEW end \in Time,
             UpdateOtpWindow(u, start, end, sender)
      PROVE  Untouched(v) \/ Activates(v)
  BY <1>2 DEF UpdateOtpWindow, CanUpdateOtpWindow, Emit, TypeOK, Untouched,
              Activates, FlagKept, RecordKept, Logs
<1>3. ASSUME NEW u \in UserId, NEW sender \in Account,
             NEW index \in 0 .. MaxEvents, NEW otp \in Otp,
             NEW commitment \in Digest, NEW recovered \in Account,
             VerifyOtp(u, index, otp, commitment, recovered, sender)
      PROVE  Untouched(v) \/ Verifies(v)
  <2>1. CASE v = u
    BY <1>3, <2>1, ContractAssumption
       DEF VerifyOtp, CanVerifyOtp, Emit, TypeOK, WindowClosed, Verifies,
           FlagKept, Logs
  <2>2. CASE v # u
    BY <1>3, <2>2 DEF VerifyOtp, Emit, TypeOK, Untouched, FlagKept, RecordKept
  <2> QED
    BY <2>1, <2>2
<1>4. ASSUME NEW users \in SUBSET UserId, NEW sender \in Account,
             ResetManyOtps(users, sender)
      PROVE  Untouched(v) \/ Resets(v)
  BY <1>4 DEF ResetManyOtps, Emit, TypeOK, Untouched, Resets, FlagKept,
              RecordKept, Logs
<1>5. ASSUME NEW u \in UserId, NEW sender \in Account,
             BlacklistUser(u, sender)
      PROVE  Untouched(v) \/ Blacklists(v)
  BY <1>5 DEF BlacklistUser, Emit, TypeOK, Untouched, Blacklists, FlagKept,
              RecordKept, Logs
<1>6. ASSUME NEW u \in UserId, NEW sender \in Account,
             RemoveUserFromBlacklist(u, sender)
      PROVE  Untouched(v) \/ Readmits(v)
  BY <1>6 DEF RemoveUserFromBlacklist, Emit, TypeOK, Untouched, Readmits,
              FlagKept, RecordKept, Logs
<1>7. ASSUME NEW role \in Role, NEW account \in Account,
             NEW sender \in Account,
             \/ GrantRole(role, account, sender)
             \/ RevokeRole(role, account, sender)
      PROVE  Untouched(v)
  BY <1>7 DEF GrantRole, RevokeRole, Untouched, FlagKept, RecordKept
<1>8. ASSUME Tick \/ UNCHANGED vars
      PROVE  Untouched(v)
  BY <1>8 DEF Tick, vars, Untouched, FlagKept, RecordKept
<1> QED
  BY <1>1, <1>2, <1>3, <1>4, <1>5, <1>6, <1>7, <1>8
     DEF Next, RegisterCall, UpdateWindowCall, VerifyCall, RoleCall, Treats

(* A commitment leaves its record through a reset or through a             *)
(* verification inside the window, whatever the callers and their order.   *)
THEOREM ReplacementCorrect == Spec => CommitmentReplacedByOpening
<1>1. TypeOK /\ [Next]_vars => ReplacedByOpening
  BY EveryStepTreats
     DEF ReplacedByOpening, Treats, Untouched, Registers, Activates, Verifies,
         Resets, Blacklists, Readmits, RecordKept
<1> QED
  BY <1>1, TypeCorrect, PTL DEF Spec, CommitmentReplacedByOpening

-----------------------------------------------------------------------------
(* Registrations.  No registration is revoked by anything but a reset, so  *)
(* a record with a commitment has one, and so has every activation.        *)
Registered(l) == Precedes("UserRegistered", {"OtpReset"}, l, Len(l) + 1)
EachRegistered(l) ==
    \A j \in 1 .. Len(l) :
        l[j] = "OtpActivated" => Precedes("UserRegistered", {"OtpReset"}, l, j)

RegistrationInv ==
    \A u \in UserId :
        /\ EachRegistered(log[u])
        /\ otpRecords[u].commitmentValue # Zero => Registered(log[u])

(* A log whose activations all have a registration stays so when an event  *)
(* is appended that is no activation, or one of a registered user.         *)
LEMMA EachRegisteredAppend ==
    ASSUME NEW l \in Seq(Event), NEW event \in Event, EachRegistered(l),
           event = "OtpActivated" => Registered(l)
    PROVE  EachRegistered(Append(l, event))
<1> SUFFICES ASSUME NEW j \in 1 .. Len(l) + 1,
                    Append(l, event)[j] = "OtpActivated"
             PROVE  Precedes("UserRegistered", {"OtpReset"},
                             Append(l, event), j)
  BY DEF EachRegistered
<1>1. CASE j \in 1 .. Len(l)
  <2>1. l[j] = "OtpActivated"
    BY <1>1
  <2> QED
    BY <1>1, <2>1, PrecedesEarlier DEF EachRegistered
<1>2. CASE j = Len(l) + 1
  BY <1>2, PrecedesEarlier DEF Registered
<1> QED
  BY <1>1, <1>2

(* No window is opened for a user without a registration that still        *)
(* stands: updateOtpWindow requires a commitment, and only a reset empties *)
(* the record of a registered user for good.                               *)
THEOREM RegistrationCorrect == Spec => []ActivatedNeedsRegistration
<1>1. Init => RegistrationInv
  BY DEF Init, RegistrationInv, EachRegistered, EmptyRecord
<1>2. TypeOK /\ RegistrationInv /\ [Next]_vars => RegistrationInv'
  <2> SUFFICES ASSUME TypeOK, RegistrationInv, [Next]_vars,
                      NEW v \in UserId
               PROVE  /\ EachRegistered(log'[v])
                      /\ otpRecords'[v].commitmentValue # Zero
                            => Registered(log'[v])
    BY DEF RegistrationInv
  <2>1. log[v] \in Seq(Event)
    BY DEF TypeOK
  <2>2. /\ EachRegistered(log[v])
        /\ otpRecords[v].commitmentValue # Zero => Registered(log[v])
    BY DEF RegistrationInv
  <2>3. ASSUME NEW event \in Event, Logs(v, event), event # "OtpReset",
               otpRecords[v].commitmentValue # Zero \/ RecordKept(v)
        PROVE  otpRecords'[v].commitmentValue # Zero => Registered(log'[v])
    <3>1. Len(log'[v]) + 1 = Len(log[v]) + 2
      BY <2>1, <2>3 DEF Logs
    <3> QED
      BY <2>1, <2>2, <2>3, <3>1, PrecedesKept DEF Logs, RecordKept, Registered
  <2>4. CASE Untouched(v)
    BY <2>2, <2>4 DEF Untouched, RecordKept
  <2>5. CASE Registers(v)
    <3>1. EachRegistered(log'[v])
      BY <2>1, <2>2, <2>5, EachRegisteredAppend DEF Registers, Logs
    <3>2. Len(log'[v]) + 1 = Len(log[v]) + 2
      BY <2>1, <2>5 DEF Registers, Logs
    <3>3. Registered(log'[v])
      BY <2>1, <2>5, <3>2, PrecedesLast DEF Registers, Logs, Registered
    <3> QED
      BY <3>1, <3>3
  <2>6. CASE Activates(v)
    BY <2>1, <2>2, <2>3, <2>6, EachRegisteredAppend DEF Activates, Logs
  <2>7. CASE Verifies(v)
    BY <2>1, <2>2, <2>3, <2>7, EachRegisteredAppend DEF Verifies, Logs
  <2>8. CASE Resets(v)
    BY <2>1, <2>2, <2>8, EachRegisteredAppend DEF Resets, Logs, EmptyRecord
  <2>9. CASE Blacklists(v)
    BY <2>1, <2>2, <2>3, <2>9, EachRegisteredAppend DEF Blacklists, Logs
  <2>10. CASE Readmits(v)
    BY <2>1, <2>2, <2>3, <2>10, EachRegisteredAppend DEF Readmits, Logs
  <2> QED
    BY <2>4, <2>5, <2>6, <2>7, <2>8, <2>9, <2>10, EveryStepTreats DEF Treats
<1>3. RegistrationInv => ActivatedNeedsRegistration
  BY DEF RegistrationInv, EachRegistered, ActivatedNeedsRegistration
<1> QED
  BY <1>1, <1>2, <1>3, TypeCorrect, PTL DEF Spec

-----------------------------------------------------------------------------
(* Blacklisting.  The flag is FALSE only while no blacklisting stands.     *)
Barred(l, j) ==
    Precedes("UserBlacklisted", {"UserRemovedFromBlacklist"}, l, j)
NoneBarred(l) ==
    \A j \in 1 .. Len(l) : l[j] = "UserRegistered" => ~ Barred(l, j)

BlacklistInv ==
    \A u \in UserId :
        /\ NoneBarred(log[u])
        /\ Barred(log[u], Len(log[u]) + 1) => blacklisted[u]

(* Appending an event to a log bars nobody at its earlier positions.       *)
LEMMA BarredEarlier ==
    ASSUME NEW l \in Seq(Event), NEW event \in Event,
           NEW j \in 1 .. Len(l) + 1, Barred(Append(l, event), j)
    PROVE  Barred(l, j)
<1>1. \A m \in 1 .. j - 1 : Append(l, event)[m] = l[m]
  OBVIOUS
<1>2. PICK k \in 1 .. j - 1 :
        /\ Append(l, event)[k] = "UserBlacklisted"
        /\ \A m \in k + 1 .. j - 1 :
                Append(l, event)[m] \notin {"UserRemovedFromBlacklist"}
  BY DEF Barred, Precedes
<1>3. \A m \in k + 1 .. j - 1 : m \in 1 .. j - 1
  OBVIOUS
<1> QED
  BY <1>1, <1>2, <1>3 DEF Barred, Precedes

(* A user is barred after an event that blacklists, or that leaves an      *)
(* earlier bar in place: never after a removal from the blacklist.         *)
LEMMA BarredLater ==
    ASSUME NEW l \in Seq(Event), NEW event \in Event,
           Barred(Append(l, event), Len(l) + 2)
    PROVE  \/ event = "UserBlacklisted"
           \/ /\ event # "UserRemovedFromBlacklist"
              /\ Barred(l, Len(l) + 1)
<1>1. PICK k \in 1 .. Len(l) + 1 :
        /\ Append(l, event)[k] = "UserBlacklisted"
        /\ \A m \in k + 1 .. Len(l) + 1 :
                Append(l, event)[m] \notin {"UserRemovedFromBlacklist"}
  BY DEF Barred, Precedes
<1>2. CASE k = Len(l) + 1
  BY <1>1, <1>2
<1>3. CASE k \in 1 .. Len(l)
  <2>1. event # "UserRemovedFromBlacklist"
    BY <1>1, <1>3
  <2>2. /\ l[k] = "UserBlacklisted"
        /\ \A m \in k + 1 .. Len(l) : l[m] \notin {"UserRemovedFromBlacklist"}
    BY <1>1, <1>3
  <2> QED
    BY <1>3, <2>1, <2>2 DEF Barred, Precedes
<1> QED
  BY <1>2, <1>3

(* A log that registers no barred user stays so when an event is appended  *)
(* that is no registration, or one of a user who is not barred.            *)
LEMMA NoneBarredAppend ==
    ASSUME NEW l \in Seq(Event), NEW event \in Event, NoneBarred(l),
           event = "UserRegistered" => ~ Barred(l, Len(l) + 1)
    PROVE  NoneBarred(Append(l, event))
<1> SUFFICES ASSUME NEW j \in 1 .. Len(l) + 1,
                    Append(l, event)[j] = "UserRegistered",
                    Barred(Append(l, event), j)
             PROVE  FALSE
  BY DEF NoneBarred
<1>1. Barred(l, j)
  BY BarredEarlier
<1>2. CASE j \in 1 .. Len(l)
  BY <1>1, <1>2 DEF NoneBarred
<1>3. CASE j = Len(l) + 1
  BY <1>1, <1>3
<1> QED
  BY <1>2, <1>3

(* No registration of a blacklisted user: registerUser requires the flag   *)
(* to be down, and only removeUserFromBlacklist takes it down.             *)
THEOREM BlacklistCorrect == Spec => []BlacklistBarsRegistration
<1>1. Init => BlacklistInv
  BY DEF Init, BlacklistInv, NoneBarred, Barred, Precedes
<1>2. TypeOK /\ BlacklistInv /\ [Next]_vars => BlacklistInv'
  <2> SUFFICES ASSUME TypeOK, BlacklistInv, [Next]_vars,
                      NEW v \in UserId
               PROVE  /\ NoneBarred(log'[v])
                      /\ Barred(log'[v], Len(log'[v]) + 1) => blacklisted'[v]
    BY DEF BlacklistInv
  <2>1. log[v] \in Seq(Event) /\ blacklisted[v] \in BOOLEAN
    BY DEF TypeOK
  <2>2. /\ NoneBarred(log[v])
        /\ Barred(log[v], Len(log[v]) + 1) => blacklisted[v]
    BY DEF BlacklistInv
  <2>3. CASE Untouched(v)
    BY <2>2, <2>3 DEF Untouched, FlagKept
  <2>4. ASSUME NEW event \in Event, Logs(v, event),
               event = "UserRegistered" => ~ blacklisted[v],
               \/ FlagKept(v)
               \/ event = "UserRemovedFromBlacklist"
               \/ event = "UserBlacklisted" /\ blacklisted'[v],
               event = "UserBlacklisted" => blacklisted'[v]
        PROVE  /\ NoneBarred(log'[v])
               /\ Barred(log'[v], Len(log'[v]) + 1) => blacklisted'[v]
    <3>1. NoneBarred(log'[v])
      BY <2>1, <2>2, <2>4, NoneBarredAppend DEF Logs
    <3>2. Len(log'[v]) + 1 = Len(log[v]) + 2
      BY <2>1, <2>4 DEF Logs
    <3>3. ASSUME Barred(log'[v], Len(log'[v]) + 1)
          PROVE  blacklisted'[v]
      BY <2>1, <2>2, <2>4, <3>2, <3>3, BarredLater DEF Logs, FlagKept
    <3> QED
      BY <3>1, <3>3
  <2>5. CASE Registers(v)
    BY <2>4, <2>5 DEF Registers
  <2>6. CASE Activates(v) \/ Verifies(v) \/ Resets(v)
    BY <2>4, <2>6 DEF Activates, Verifies, Resets
  <2>7. CASE Blacklists(v)
    BY <2>4, <2>7 DEF Blacklists
  <2>8. CASE Readmits(v)
    BY <2>4, <2>8 DEF Readmits
  <2> QED
    BY <2>3, <2>5, <2>6, <2>7, <2>8, EveryStepTreats DEF Treats
<1>3. BlacklistInv => BlacklistBarsRegistration
  BY DEF BlacklistInv, NoneBarred, Barred, BlacklistBarsRegistration
<1> QED
  BY <1>1, <1>2, <1>3, TypeCorrect, PTL DEF Spec

-----------------------------------------------------------------------------
(* Indices.  The registrations of a log that still stand (one at most),    *)
(* the verifications since, and the index the two account for.             *)
Starts(l) ==
    {k \in 1 .. Len(l) :
        /\ l[k] = "UserRegistered"
        /\ \A m \in k + 1 .. Len(l) :
                l[m] \notin {"UserRegistered", "OtpReset"}}
Accepted(l) ==
    {m \in 1 .. Len(l) :
        l[m] = "OtpVerified" /\ \A k \in Starts(l) : k < m}
Count(l) == IF Starts(l) = {} THEN 0 ELSE 1 + Cardinality(Accepted(l))

IndexInv == \A u \in UserId : otpRecords[u].index = Count(log[u])

(* A registration or a reset ends every registration before it.            *)
LEMMA StartsAppend ==
    ASSUME NEW l \in Seq(Event), NEW event \in Event
    PROVE  Starts(Append(l, event)) =
             IF event = "UserRegistered" THEN {Len(l) + 1}
             ELSE IF event = "OtpReset" THEN {}
             ELSE Starts(l)
<1> DEFINE L == Append(l, event)
<1>1. Len(L) = Len(l) + 1 /\ L[Len(l) + 1] = event
  OBVIOUS
<1>2. \A m \in 1 .. Len(l) : L[m] = l[m]
  OBVIOUS
<1>3. CASE event \in {"UserRegistered", "OtpReset"}
  <2>1. \A k \in Starts(L) : k = Len(l) + 1
    BY <1>1, <1>3 DEF Starts
  <2>2. Len(l) + 1 \in Starts(L) <=> event = "UserRegistered"
    BY <1>1, <1>3 DEF Starts
  <2> QED
    BY <1>3, <2>1, <2>2
<1>4. CASE event \notin {"UserRegistered", "OtpReset"}
  <2>1. \A k \in 1 .. Len(l) + 1 : k \in Starts(L) <=> k \in Starts(l)
    <3> SUFFICES ASSUME NEW k \in 1 .. Len(l) + 1
                 PROVE  k \in Starts(L) <=> k \in Starts(l)
      OBVIOUS
    <3>1. CASE k = Len(l) + 1
      BY <1>1, <1>4, <3>1 DEF Starts
    <3>2. CASE k \in 1 .. Len(l)
      <4>1. (\A m \in k + 1 .. Len(l) + 1 :
                L[m] \notin {"UserRegistered", "OtpReset"})
            <=> (\A m \in k + 1 .. Len(l) :
                    l[m] \notin {"UserRegistered", "OtpReset"})
        BY <1>1, <1>2, <1>4, <3>2
      <4> QED
        BY <1>1, <1>2, <3>2, <4>1 DEF Starts
    <3> QED
      BY <3>1, <3>2
  <2>2. /\ \A k \in Starts(L) : k \in 1 .. Len(l) + 1
        /\ \A k \in Starts(l) : k \in 1 .. Len(l) + 1
    BY <1>1 DEF Starts
  <2>3. Starts(L) = Starts(l)
    BY <2>1, <2>2
  <2> QED
    BY <1>4, <2>3
<1> QED
  BY <1>3, <1>4

(* An appended event moves the count as the contract moves the index.      *)
LEMMA CountAppend ==
    ASSUME NEW l \in Seq(Event), NEW event \in Event
    PROVE  Count(Append(l, event)) =
             CASE event = "UserRegistered" -> 1
               [] event = "OtpReset" -> 0
               [] event = "OtpVerified" ->
                    IF Starts(l) = {} THEN 0 ELSE Count(l) + 1
               [] OTHER -> Count(l)
<1> DEFINE L == Append(l, event)
<1>1. Len(L) = Len(l) + 1 /\ L[Len(l) + 1] = event
  OBVIOUS
<1>2. \A m \in 1 .. Len(l) : L[m] = l[m]
  OBVIOUS
<1>3. CASE event = "UserRegistered"
  <2>1. Starts(L) = {Len(l) + 1}
    BY <1>3, StartsAppend
  <2>2. Accepted(L) = {}
    BY <1>1, <2>1 DEF Accepted
  <2>3. Starts(L) # {} /\ Cardinality(Accepted(L)) = 0
    BY <2>1, <2>2, FS_EmptySet
  <2>4. Count(L) = 1
    BY <2>3 DEF Count
  <2> QED
    BY <1>3, <2>4
<1>4. CASE event = "OtpReset"
  BY <1>4, StartsAppend DEF Count
<1>5. CASE event \notin {"UserRegistered", "OtpReset", "OtpVerified"}
  <2>1. Starts(L) = Starts(l)
    BY <1>5, StartsAppend
  <2>2. Accepted(L) = Accepted(l)
    BY <1>1, <1>2, <1>5, <2>1 DEF Accepted
  <2> QED
    BY <1>5, <2>1, <2>2 DEF Count
<1>6. CASE event = "OtpVerified"
  <2>1. Starts(L) = Starts(l)
    BY <1>6, StartsAppend
  <2>2. \A k \in Starts(l) : k < Len(l) + 1
    BY DEF Starts
  <2>3. Accepted(L) = Accepted(l) \union {Len(l) + 1}
    BY <1>1, <1>2, <1>6, <2>1, <2>2 DEF Accepted
  <2>4. IsFiniteSet(Accepted(l)) /\ Len(l) + 1 \notin Accepted(l)
    <3>1. IsFiniteSet(1 .. Len(l))
      BY FS_Interval
    <3> QED
      BY <3>1, FS_Subset DEF Accepted
  <2>5. /\ Cardinality(Accepted(L)) = Cardinality(Accepted(l)) + 1
        /\ Cardinality(Accepted(l)) \in Nat
    BY <2>3, <2>4, FS_AddElement, FS_CardinalityType
  <2> QED
    BY <1>6, <2>1, <2>5 DEF Count
<1> QED
  BY <1>3, <1>4, <1>5, <1>6

(* The index on chain is the number the log accounts for.  A verification  *)
(* counts up because a record with a commitment is registered: its index   *)
(* is not 0 (WindowOK), so a registration stands.                          *)
THEOREM IndexCorrect == Spec => []IndexCountsVerifications
<1>1. Init => IndexInv
  BY DEF Init, IndexInv, Count, Starts, EmptyRecord
<1>2. TypeOK /\ WindowOK /\ IndexInv /\ [Next]_vars => IndexInv'
  <2> SUFFICES ASSUME TypeOK, WindowOK, IndexInv, [Next]_vars,
                      NEW v \in UserId
               PROVE  otpRecords'[v].index = Count(log'[v])
    BY DEF IndexInv
  <2>1. log[v] \in Seq(Event) /\ otpRecords[v].index = Count(log[v])
    BY DEF TypeOK, IndexInv
  <2>2. \A event \in Event : Logs(v, event) =>
            Count(log'[v]) =
              CASE event = "UserRegistered" -> 1
                [] event = "OtpReset" -> 0
                [] event = "OtpVerified" ->
                     IF Starts(log[v]) = {} THEN 0 ELSE Count(log[v]) + 1
                [] OTHER -> Count(log[v])
    BY <2>1, CountAppend DEF Logs
  <2>3. CASE Untouched(v)
    BY <2>1, <2>3 DEF Untouched, RecordKept
  <2>4. CASE Registers(v)
    BY <2>2, <2>4 DEF Registers
  <2>5. CASE Activates(v)
    BY <2>1, <2>2, <2>5 DEF Activates
  <2>6. CASE Verifies(v)
    <3>1. otpRecords[v].index # 0
      BY <2>6 DEF Verifies, WindowOK, EmptyRecord
    <3>2. Starts(log[v]) # {}
      BY <2>1, <3>1 DEF Count
    <3> QED
      BY <2>1, <2>2, <2>6, <3>2 DEF Verifies
  <2>7. CASE Resets(v)
    BY <2>2, <2>7 DEF Resets, EmptyRecord
  <2>8. CASE Blacklists(v) \/ Readmits(v)
    BY <2>1, <2>2, <2>8 DEF Blacklists, Readmits, RecordKept
  <2> QED
    BY <2>3, <2>4, <2>5, <2>6, <2>7, <2>8, EveryStepTreats DEF Treats
<1>3. IndexInv => IndexCountsVerifications
  BY DEF IndexInv, IndexCountsVerifications, Count, Starts, Accepted
<1> QED
  BY <1>1, <1>2, <1>3, TypeCorrect, WindowCorrect, PTL DEF Spec

-----------------------------------------------------------------------------
(* The contract implements the abstract device.                            *)
(* A handler that writes one user's record changes that user's phase and   *)
(* serial number only.                                                     *)
LEMMA PhaseOfOne ==
    ASSUME NEW u \in UserId,
           \A w \in UserId : w # u => otpRecords'[w] = otpRecords[w]
    PROVE  /\ [w \in UserId |-> Phase(w)]' =
                [[w \in UserId |-> Phase(w)] EXCEPT ![u] = Phase(u)']
           /\ [w \in UserId |-> Serial(w)]' =
                [[w \in UserId |-> Serial(w)] EXCEPT ![u] = Serial(u)']
BY DEF Phase, Serial

(* The contract implements the abstract device: every handler enrols,      *)
(* opens, consumes or discards the passwords of the users whose records it *)
(* writes, or changes nothing the device shows.                            *)
THEOREM DeviceRefined == Spec => ImplementsDevice
<1>1. Init => Device!Init
  BY DEF Init, Device!Init, Phase, Serial, EmptyRecord
<1>2. TypeOK /\ [Next]_vars =>
        [Device!Next]_(Device!vars)
  <2> SUFFICES ASSUME TypeOK, [Next]_vars
               PROVE  \/ Device!Next
                      \/ UNCHANGED <<[w \in UserId |-> Phase(w)],
                                     [w \in UserId |-> Serial(w)]>>
    BY DEF Device!vars
  <2> DEFINE Stutter == UNCHANGED <<[w \in UserId |-> Phase(w)],
                                    [w \in UserId |-> Serial(w)]>>
             Mapped == Device!Next \/ Stutter
  <2>1. ASSUME NEW u \in UserId, NEW sender \in Account,
               NEW commitment \in Digest, NEW recovered \in Account,
               RegisterUser(u, commitment, recovered, sender)
        PROVE  Mapped
    <3>1. \A w \in UserId : w # u => otpRecords'[w] = otpRecords[w]
      BY <2>1 DEF RegisterUser, TypeOK
    <3>2. Phase(u) = "absent" /\ Serial(u) = 0
      BY <2>1 DEF RegisterUser, CanRegisterUser, Phase, Serial
    <3>3. otpRecords'[u] = [commitmentValue |-> commitment, index |-> 1,
                            startTime |-> 0, endTime |-> 0]
      BY <2>1 DEF RegisterUser, TypeOK
    <3>4. CASE commitment = Zero
      <4>1. Phase(u)' = "absent" /\ Serial(u)' = 0
        BY <3>3, <3>4 DEF Phase, Serial
      <4> QED
        BY <3>1, <3>2, <4>1, PhaseOfOne
    <3>5. CASE commitment # Zero
      <4>1. Phase(u)' = "locked" /\ Serial(u)' = 1
        BY <3>3, <3>5 DEF Phase, Serial
      <4>2. Device!Enrol(u)
        BY <3>1, <3>2, <4>1, PhaseOfOne DEF Device!Enrol, Device!Become
      <4> QED
        BY <4>2 DEF Device!Next
    <3> QED
      BY <3>4, <3>5
  <2>2. ASSUME NEW u \in UserId, NEW sender \in Account,
               NEW start \in Time, NEW end \in Time,
               UpdateOtpWindow(u, start, end, sender)
        PROVE  Mapped
    <3>1. \A w \in UserId : w # u => otpRecords'[w] = otpRecords[w]
      BY <2>2 DEF UpdateOtpWindow, TypeOK
    <3>2. otpRecords[u].commitmentValue # Zero /\ end # 0
      BY <2>2 DEF UpdateOtpWindow, CanUpdateOtpWindow
    <3>3. /\ otpRecords'[u].commitmentValue = otpRecords[u].commitmentValue
          /\ otpRecords'[u].index = otpRecords[u].index
          /\ otpRecords'[u].endTime = end
      BY <2>2 DEF UpdateOtpWindow, TypeOK
    <3>4. Phase(u) # "absent" /\ Phase(u)' = "open" /\ Serial(u)' = Serial(u)
      BY <3>2, <3>3 DEF Phase, Serial
    <3>5. Device!Open(u)
      BY <3>1, <3>4, PhaseOfOne DEF Device!Open, Device!Become
    <3> QED
      BY <3>5 DEF Device!Next
  <2>3. ASSUME NEW u \in UserId, NEW sender \in Account,
               NEW index \in 0 .. MaxEvents, NEW otp \in Otp,
               NEW commitment \in Digest, NEW recovered \in Account,
               VerifyOtp(u, index, otp, commitment, recovered, sender)
        PROVE  Mapped
    <3>1. \A w \in UserId : w # u => otpRecords'[w] = otpRecords[w]
      BY <2>3 DEF VerifyOtp, TypeOK
    <3>2. otpRecords[u].commitmentValue # Zero
      BY <2>3, ContractAssumption DEF VerifyOtp, CanVerifyOtp
    <3>3. otpRecords[u].endTime # 0
      BY <2>3 DEF VerifyOtp, CanVerifyOtp, TypeOK
    <3>4. Phase(u) = "open" /\ Serial(u) = otpRecords[u].index
      BY <3>2, <3>3 DEF Phase, Serial
    <3>5. otpRecords'[u] =
             [commitmentValue |-> commitment, index |-> Serial(u) + 1,
              startTime |-> 0, endTime |-> 0]
      BY <2>3, <3>4 DEF VerifyOtp, TypeOK
    <3>6. \/ Phase(u)' = "locked" /\ Serial(u)' = Serial(u) + 1
          \/ Phase(u)' = "absent" /\ Serial(u)' = 0
      BY <3>5 DEF Phase, Serial
    <3>7. Device!Consume(u)
      BY <3>1, <3>4, <3>6, PhaseOfOne DEF Device!Consume, Device!Become
    <3> QED
      BY <3>7 DEF Device!Next
  <2>4. ASSUME NEW users \in SUBSET UserId, NEW sender \in Account,
               ResetManyOtps(users, sender)
        PROVE  Mapped
    <3>1. Device!Discard(users)
      BY <2>4 DEF ResetManyOtps, Device!Discard, Phase, Serial, EmptyRecord
    <3> QED
      BY <3>1 DEF Device!Next
  <2>5. ASSUME UNCHANGED otpRecords
        PROVE  Mapped
    BY <2>5 DEF Phase, Serial
  <2>6. Mapped
    <3> HIDE DEF Mapped
    <3>1. CASE Tick \/ UNCHANGED vars
      BY <2>5, <3>1 DEF Tick, vars
    <3>2. ASSUME NEW u \in UserId, NEW sender \in Account,
                 BlacklistUser(u, sender) \/ RemoveUserFromBlacklist(u, sender)
          PROVE  Mapped
      BY <2>5, <3>2 DEF BlacklistUser, RemoveUserFromBlacklist
    <3>3. ASSUME NEW role \in Role, NEW account \in Account,
                 NEW sender \in Account,
                 \/ GrantRole(role, account, sender)
                 \/ RevokeRole(role, account, sender)
          PROVE  Mapped
      BY <2>5, <3>3 DEF GrantRole, RevokeRole
    <3> QED
      BY <2>1, <2>2, <2>3, <2>4, <3>1, <3>2, <3>3
         DEF Next, RegisterCall, UpdateWindowCall, VerifyCall, RoleCall
  <2> QED
    BY <2>6
<1> QED
  BY <1>1, <1>2, TypeCorrect, PTL DEF Spec, ImplementsDevice, Device!Spec

=============================================================================
