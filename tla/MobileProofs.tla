---------------------------- MODULE MobileProofs ----------------------------
(***************************************************************************)
(* Proofs about the mobile apps, for any number of calls under way, of     *)
(* pairs of tokens issued and of codes sent.                               *)
(***************************************************************************)
EXTENDS MobileApps, TLAPS

USE MobileAssumption
USE DEF Tokens, NoToken

(* The records the app, its storage and the server keep.                   *)
FormPcs == {"idle", "sending", "verifying", "provider", "social", "probe", "enter", "leaving",
            "uploading", "identity", "identityStored", "submitting", "profile", "profileStored",
            "prompt", "bioStored", "saving", "saved"}

Disks == [tok : Tokens \cup {NoToken}, step : Steps, bio : BOOLEAN, complete : BOOLEAN]
Auths == [tok : Tokens \cup {NoToken}, step : Steps, bio : BOOLEAN, complete : BOOLEAN, up : BOOLEAN]
Rows  == [pc : CallPcs, tok : Tokens \cup {NoToken}, of : {"poll", "other"}]
Srvs  == [step : Steps, ever : BOOLEAN, profile : BOOLEAN, legal : BOOLEAN, code : 0..MaxCode,
          used : BOOLEAN, issued : 0..MaxToken, live : SUBSET Tokens, fresh : SUBSET Tokens]
Forms == [pc : FormPcs, tok : Tokens \cup {NoToken}, files : SUBSET Files, page : Pages,
          typed : 0..MaxCode, cool : BOOLEAN, resend : BOOLEAN]

Types ==
  /\ app \in {"worker", "client"} /\ disk \in Disks /\ auth \in Auths /\ gate \in GatePcs
  /\ calls \in [Calls -> Rows] /\ swap \in Tokens \cup {NoToken} /\ srv \in Srvs
  /\ form \in Forms /\ unlocked \in BOOLEAN

LEMMA Constants ==
  /\ Blank \in Disks /\ SignedOut \in Auths /\ NotStarted \in Auths /\ NoCall \in Rows /\ NoForm \in Forms
  /\ Blank.tok = NoToken /\ NoCall.pc = "idle" /\ NoForm.pc = "idle"
  /\ SignedOut.up /\ SignedOut.tok = NoToken /\ ~SignedOut.complete /\ SignedOut.step = "none"
  /\ ~NotStarted.up /\ NotStarted.tok = NoToken /\ ~NotStarted.complete /\ NotStarted.step = "none"
  /\ Blank.step = "none" /\ ~Blank.complete
BY DEF Disks, Auths, Rows, Forms, FormPcs, Blank, SignedOut, NotStarted, Store, NoCall, NoForm,
       Steps, CallPcs, Files, Pages

(* One field of a record set to another value.                             *)
LEMMA Moves ==
  /\ \A f \in Forms :
       /\ \A pc \in FormPcs : [f EXCEPT !.pc = pc] \in Forms
       /\ \A files \in SUBSET Files : [f EXCEPT !.files = files] \in Forms
       /\ \A page \in Pages : [f EXCEPT !.page = page] \in Forms
       /\ \A code \in 0..MaxCode : [f EXCEPT !.typed = code] \in Forms
       /\ \A b \in BOOLEAN : [f EXCEPT !.cool = b] \in Forms /\ [f EXCEPT !.resend = b] \in Forms
       /\ \A k \in Tokens \cup {NoToken} : [f EXCEPT !.tok = k] \in Forms
  /\ \A d \in Disks :
       /\ \A k \in Tokens \cup {NoToken} : [d EXCEPT !.tok = k] \in Disks
       /\ \A step \in Steps : [d EXCEPT !.step = step] \in Disks
       /\ \A b \in BOOLEAN : [d EXCEPT !.bio = b] \in Disks /\ [d EXCEPT !.complete = b] \in Disks
  /\ \A a \in Auths :
       /\ \A step \in Steps : [a EXCEPT !.step = step] \in Auths
       /\ \A b \in BOOLEAN : [a EXCEPT !.bio = b] \in Auths /\ [a EXCEPT !.complete = b] \in Auths
  /\ \A x \in Srvs :
       /\ \A step \in Steps : [x EXCEPT !.step = step] \in Srvs
       /\ \A b \in BOOLEAN : /\ [x EXCEPT !.profile = b] \in Srvs /\ [x EXCEPT !.legal = b] \in Srvs
                             /\ [x EXCEPT !.ever = b] \in Srvs /\ [x EXCEPT !.used = b] \in Srvs
       /\ \A code \in 0..MaxCode : [x EXCEPT !.code = code] \in Srvs
       /\ \A n \in 0..MaxToken : [x EXCEPT !.issued = n] \in Srvs
       /\ \A S \in SUBSET Tokens : [x EXCEPT !.live = S] \in Srvs /\ [x EXCEPT !.fresh = S] \in Srvs
<1>1. \A f \in Forms :
       /\ \A pc \in FormPcs : [f EXCEPT !.pc = pc] \in Forms
       /\ \A files \in SUBSET Files : [f EXCEPT !.files = files] \in Forms
       /\ \A page \in Pages : [f EXCEPT !.page = page] \in Forms
       /\ \A code \in 0..MaxCode : [f EXCEPT !.typed = code] \in Forms
       /\ \A b \in BOOLEAN : [f EXCEPT !.cool = b] \in Forms /\ [f EXCEPT !.resend = b] \in Forms
       /\ \A k \in Tokens \cup {NoToken} : [f EXCEPT !.tok = k] \in Forms
  BY DEF Forms
<1>2. \A d \in Disks :
       /\ \A k \in Tokens \cup {NoToken} : [d EXCEPT !.tok = k] \in Disks
       /\ \A step \in Steps : [d EXCEPT !.step = step] \in Disks
       /\ \A b \in BOOLEAN : [d EXCEPT !.bio = b] \in Disks /\ [d EXCEPT !.complete = b] \in Disks
  BY DEF Disks
<1>3. \A a \in Auths :
       /\ \A step \in Steps : [a EXCEPT !.step = step] \in Auths
       /\ \A b \in BOOLEAN : [a EXCEPT !.bio = b] \in Auths /\ [a EXCEPT !.complete = b] \in Auths
  BY DEF Auths
<1>4. \A x \in Srvs :
       /\ \A step \in Steps : [x EXCEPT !.step = step] \in Srvs
       /\ \A b \in BOOLEAN : /\ [x EXCEPT !.profile = b] \in Srvs /\ [x EXCEPT !.legal = b] \in Srvs
                             /\ [x EXCEPT !.ever = b] \in Srvs /\ [x EXCEPT !.used = b] \in Srvs
       /\ \A code \in 0..MaxCode : [x EXCEPT !.code = code] \in Srvs
       /\ \A n \in 0..MaxToken : [x EXCEPT !.issued = n] \in Srvs
       /\ \A S \in SUBSET Tokens : [x EXCEPT !.live = S] \in Srvs /\ [x EXCEPT !.fresh = S] \in Srvs
  BY DEF Srvs
<1> QED BY <1>1, <1>2, <1>3, <1>4

LEMMA AuthMade ==
  \A tok \in Tokens \cup {NoToken}, step \in Steps, bio, complete \in BOOLEAN :
    [up |-> TRUE, tok |-> tok, step |-> step, bio |-> bio, complete |-> complete] \in Auths
BY DEF Auths

LEMMA Fields ==
  /\ Types => /\ disk.tok \in Tokens \cup {NoToken} /\ disk.step \in Steps /\ disk.bio \in BOOLEAN
              /\ disk.complete \in BOOLEAN /\ srv.step \in Steps /\ srv.profile \in BOOLEAN
              /\ srv.code \in 0..MaxCode /\ srv.issued \in 0..MaxToken
              /\ srv.live \subseteq Tokens /\ srv.fresh \subseteq Tokens
              /\ form.tok \in Tokens \cup {NoToken} /\ form.files \subseteq Files
              /\ \A c \in Calls : calls[c] \in Rows
BY DEF Types, Disks, Auths, Srvs, Forms

LEMMA SetAuthType ==
  ASSUME Types, NEW a \in Auths, SetAuth(a)
  PROVE  auth' \in Auths /\ gate' \in GatePcs
BY DEF Types, SetAuth, GateFor, GatePcs

LEMMA InitType == Init => Types
<1> SUFFICES ASSUME Init PROVE Types
  OBVIOUS
<1>1. srv \in Srvs
  BY DEF Init, Srvs, Steps
<1> QED BY <1>1, Constants DEF Init, Types, GatePcs

LEMMA ProcessType ==
  ASSUME Types, Kill \/ Hydrate \/ Leave \/ GateLoads \/ GateRetry \/ GateAccepts
  PROVE  Types'
<1>1. CASE Kill
  BY <1>1, Constants DEF Types, Kill, GatePcs
<1>2. CASE Hydrate
  <2>1. Store(TRUE, disk, HydrateComplete) \in Auths
    BY Fields, AuthMade DEF Store, HydrateComplete
  <2> QED BY <1>2, <2>1, SetAuthType DEF Types, Hydrate
<1>3. CASE Leave
  BY <1>3, Constants, SetAuthType DEF Types, Leave
<1>4. CASE GateLoads \/ GateRetry
  BY <1>4 DEF Types, GateLoads, GateRetry, GatePcs
<1>5. CASE GateAccepts
  <2>1. srv' \in Srvs /\ gate' \in GatePcs
    BY <1>5, Moves DEF Types, GateAccepts, GatePcs
  <2> QED BY <1>5, <2>1 DEF Types, GateAccepts
<1> QED BY <1>1, <1>2, <1>3, <1>4, <1>5

LEMMA ServerType ==
  ASSUME Types, RefreshAnswered \/ RefreshLost \/ Expire \/ Revoke \/ Republish
  PROVE  Types'
<1>1. GiveUp => calls' \in [Calls -> Rows]
  BY DEF GiveUp, Types, Rows, CallPcs
<1>2. CASE RefreshAnswered
  <2>1. srv.issued + 1 \in Tokens /\ srv.issued + 1 \in 0..MaxToken
    BY <1>2, Fields DEF RefreshAnswered
  <2>2. [srv EXCEPT !.live = {}] \in Srvs
    BY Moves DEF Types
  <2>3. Exchange \in Srvs
    BY <2>1, Fields, Moves DEF Exchange, Types
  <2> QED BY <1>1, <1>2, <2>2, <2>3 DEF Types, RefreshAnswered
<1>3. CASE RefreshLost
  BY <1>1, <1>3 DEF Types, RefreshLost
<1>4. CASE Expire \/ Revoke \/ Republish
  <2>1. srv' \in Srvs
    BY <1>4, Fields, Moves DEF Types, Expire, Revoke, Republish
  <2> QED BY <1>4, <2>1 DEF Types, Expire, Revoke, Republish
<1> QED BY <1>2, <1>3, <1>4

LEMMA CallType ==
  ASSUME Types, NEW c \in Calls,
         Ask(c) \/ Answer(c) \/ Drop(c) \/ Refuse(c) \/ ClearAfterRefusal(c) \/ LeaveAfterRefusal(c)
  PROVE  Types'
<1>1. ASSUME NEW pc \in CallPcs PROVE [calls EXCEPT ![c].pc = pc] \in [Calls -> Rows]
  BY DEF Types, Rows
<1>2. [calls EXCEPT ![c] = NoCall] \in [Calls -> Rows]
  BY Constants DEF Types
<1>3. CASE Ask(c)
  <2>1. [pc |-> "sent", tok |-> disk.tok, of |-> "other"] \in Rows
    BY Fields DEF Rows, CallPcs
  <2> QED BY <1>3, <2>1 DEF Types, Ask, Send
<1>4. CASE Answer(c) \/ Drop(c)
  BY <1>2, <1>4 DEF Types, Answer, Drop, Settled
<1>5. CASE Refuse(c)
  BY <1>1, <1>5, Fields DEF Types, Refuse, CallPcs
<1>6. CASE ClearAfterRefusal(c)
  BY <1>1, <1>6, Constants DEF Types, ClearAfterRefusal, CallPcs
<1>7. CASE LeaveAfterRefusal(c)
  BY <1>2, <1>7, Constants, SetAuthType DEF Types, LeaveAfterRefusal, Settled
<1> QED BY <1>3, <1>4, <1>5, <1>6, <1>7

LEMMA SignInType ==
  ASSUME Types, srv.issued < MaxToken
  PROVE  /\ Issue \in Srvs
         /\ \A pc \in FormPcs : SignIn(pc) => Types'
<1>1. srv.issued + 1 \in Tokens /\ srv.issued + 1 \in 0..MaxToken
  BY Fields
<1>2. Issue \in Srvs
  BY <1>1, Fields, Moves DEF Issue, Types
<1>3. ASSUME NEW pc \in FormPcs, SignIn(pc) PROVE Types'
  <2>1. form' \in Forms /\ disk' \in Disks
    BY <1>1, <1>3, Moves, Constants DEF SignIn, Types
  <2> QED BY <1>2, <1>3, <2>1 DEF SignIn, Types
<1> QED BY <1>2, <1>3

LEMMA PhoneType ==
  ASSUME Types, PhoneNext
  PROVE  Types'
<1>1. ASSUME NEW f \in Forms, Only(f) PROVE Types'
  BY <1>1 DEF Only, Types
<1>2. CASE OpenLogin \/ GoBack
  <2>1. [form EXCEPT !.page = "login"] \in Forms /\ [form EXCEPT !.page = "welcome"] \in Forms
        /\ [NoForm EXCEPT !.page = "login"] \in Forms
    BY Moves, Constants DEF Types, Pages
  <2> QED BY <1>1, <1>2, <2>1 DEF OpenLogin, GoBack
<1>3. CASE HandleSendCode \/ HandleVerify
  <2>1. [form EXCEPT !.pc = "sending"] \in Forms /\ [form EXCEPT !.pc = "verifying"] \in Forms
    BY Moves DEF Types, FormPcs
  <2> QED BY <1>1, <1>3, <2>1 DEF HandleSendCode, HandleVerify
<1>4. CASE TypeCode
  <2>1. PICK code \in 0..srv.code : Only([form EXCEPT !.typed = code])
    BY <1>4 DEF TypeCode
  <2>2. code \in 0..MaxCode
    BY Fields
  <2>3. [form EXCEPT !.typed = code] \in Forms
    BY <2>2, Moves DEF Types
  <2> QED BY <1>1, <2>1, <2>3
<1>5. CASE CoolDown \/ HandleResend
  <2>1. [form EXCEPT !.cool = FALSE] \in Forms /\ [form EXCEPT !.resend = TRUE] \in Forms
    BY Moves DEF Types
  <2> QED BY <1>1, <1>5, <2>1 DEF CoolDown, HandleResend
<1>6. CASE SendCodeAnswered \/ ResendAnswered
  <2>1. srv.code < MaxCode => NewCode \in Srvs
    <3>1. srv.code < MaxCode => srv.code + 1 \in 0..MaxCode
      BY Fields
    <3> QED BY <3>1, Moves DEF NewCode, Types
  <2>2. /\ [NoForm EXCEPT !.page = "otp", !.cool = TRUE] \in Forms
        /\ [form EXCEPT !.pc = "idle"] \in Forms
        /\ [form EXCEPT !.resend = FALSE, !.typed = 0, !.cool = TRUE] \in Forms
        /\ [form EXCEPT !.resend = FALSE] \in Forms
    <3> DEFINE f == [form EXCEPT !.resend = FALSE]
               g == [f EXCEPT !.typed = 0]
    <3>1. f \in Forms /\ [form EXCEPT !.pc = "idle"] \in Forms
      BY Moves DEF Types, FormPcs
    <3>2. [form EXCEPT !.resend = FALSE, !.typed = 0, !.cool = TRUE] = [g EXCEPT !.cool = TRUE]
      OBVIOUS
    <3>3. 0 \in 0..MaxCode
      OBVIOUS
    <3> HIDE DEF f
    <3>4. g \in Forms
      BY <3>1, <3>3, Moves
    <3> HIDE DEF g
    <3>5. [g EXCEPT !.cool = TRUE] \in Forms
      BY <3>4, Moves
    <3>6. [NoForm EXCEPT !.page = "otp", !.cool = TRUE] \in Forms
      BY Moves, Constants DEF Pages
    <3> QED BY <3>1, <3>2, <3>5, <3>6 DEF f
  <2> QED BY <1>6, <2>1, <2>2 DEF SendCodeAnswered, ResendAnswered, Types
<1>7. CASE VerifyAnswered
  <2>1. CodeCounts => Issue \in Srvs
    BY SignInType DEF CodeCounts
  <2>2. CodeCounts /\ SignIn("probe") => Types'
    BY SignInType DEF CodeCounts, FormPcs
  <2>3. [form EXCEPT !.pc = "idle"] \in Forms
    BY Moves DEF Types, FormPcs
  <2> QED BY <1>7, <2>1, <2>2, <2>3 DEF VerifyAnswered, Types
<1> QED BY <1>2, <1>3, <1>4, <1>5, <1>6, <1>7 DEF PhoneNext

LEMMA LogOutType ==
  ASSUME Types, LogOut
  PROVE  Types'
<1>1. [NoForm EXCEPT !.pc = "leaving"] \in Forms
  BY Moves, Constants DEF FormPcs
<1> QED BY <1>1, Constants DEF LogOut, Forget, Types

LEMMA WorkerType ==
  ASSUME Types, WorkerNext
  PROVE  Types'
<1>1. \A pc \in FormPcs : Goto(pc) => form' \in Forms
  BY Moves DEF Goto, Types
<1>2. \A step \in Steps : [disk EXCEPT !.step = step] \in Disks /\ [auth EXCEPT !.step = step] \in Auths
  BY Moves DEF Types
<1>3. CASE AskStep
  <2>1. disk' \in Disks
    BY <1>2, <1>3, Fields DEF AskStep, Steps
  <2> QED BY <1>1, <1>3, <2>1 DEF AskStep, Types, FormPcs
<1>4. CASE EnterWorker
  <2>1. [up |-> TRUE, tok |-> form.tok, step |-> disk.step, bio |-> disk.bio, complete |-> FALSE] \in Auths
    BY Fields, AuthMade
  <2> QED BY <1>4, <2>1, SetAuthType, Constants DEF EnterWorker, EnterAs, Types
<1>5. CASE \E f \in Files : AddFile(f) \/ RemoveFile(f)
  <2>1. PICK f \in Files : AddFile(f) \/ RemoveFile(f)
    BY <1>5
  <2>2. form.files \cup {f} \subseteq Files /\ form.files \ {f} \subseteq Files
    BY Fields
  <2>3. form' \in Forms
    BY <2>1, <2>2, Moves DEF AddFile, RemoveFile, Types
  <2> QED BY <2>1, <2>3 DEF AddFile, RemoveFile, Types
<1>6. CASE HandleNext \/ HandleSubmit
  BY <1>1, <1>6 DEF HandleNext, HandleSubmit, Types, FormPcs
<1>7. CASE SubmitIdentity \/ SubmitProfile
  <2>1. srv' \in Srvs
    BY <1>7, Moves DEF SubmitIdentity, SubmitProfile, Types, Steps
  <2>2. form' \in Forms
    BY <1>1, <1>7, Moves DEF SubmitIdentity, SubmitProfile, Types, FormPcs
  <2> QED BY <1>7, <2>1, <2>2 DEF SubmitIdentity, SubmitProfile, Types
<1>8. CASE IdentityStored \/ ProfileStored
  <2>1. disk' \in Disks
    BY <1>2, <1>8 DEF IdentityStored, ProfileStored, StoreStep, StepAfterProfile, Steps
  <2>2. form' \in Forms
    BY <1>1, <1>8 DEF IdentityStored, ProfileStored, StoreStep, FormPcs
  <2> QED BY <1>8, <2>1, <2>2 DEF IdentityStored, ProfileStored, StoreStep, Types
<1>9. CASE IdentityShown \/ ProfileShown
  <2>1. PICK step \in Steps : SetAuth([auth EXCEPT !.step = step])
    BY <1>9 DEF IdentityShown, ProfileShown, ShowStep, StepAfterProfile, Steps
  <2> QED BY <1>2, <1>9, <2>1, SetAuthType, Constants DEF IdentityShown, ProfileShown, ShowStep, Types
<1>10. ASSUME NEW c \in Calls, Poll(c) \/ PollAnswered(c) \/ PollShown(c) PROVE Types'
  <2>1. [calls EXCEPT ![c] = NoCall] \in [Calls -> Rows] /\ [calls EXCEPT ![c].pc = "told"] \in [Calls -> Rows]
    BY Constants DEF Types, Rows, CallPcs
  <2>2. [pc |-> "sent", tok |-> disk.tok, of |-> "poll"] \in Rows
    BY Fields DEF Rows, CallPcs
  <2>3. CASE Poll(c)
    BY <2>2, <2>3 DEF Types, Poll, Send
  <2>4. CASE PollAnswered(c)
    <3>1. disk' \in Disks /\ calls' \in [Calls -> Rows]
      BY <1>2, <2>1, <2>4 DEF PollAnswered, Types, Steps, Settled
    <3> QED BY <2>4, <3>1 DEF PollAnswered, Types
  <2>5. CASE PollShown(c)
    <3>1. [auth EXCEPT !.step = "approved"] \in Auths
      BY <1>2 DEF Steps
    <3> QED BY <2>1, <2>5, <3>1, SetAuthType DEF PollShown, Settled, Types
  <2> QED BY <1>10, <2>3, <2>4, <2>5
<1>11. CASE EnableBiometrics
  <2>1. disk' \in Disks
    BY <1>11, Moves DEF EnableBiometrics, Types
  <2> QED BY <1>1, <1>11, <2>1 DEF EnableBiometrics, Types, FormPcs
<1>12. CASE BiometricsShown \/ Unlock
  <2>1. [auth EXCEPT !.complete = TRUE] \in Auths /\ [auth EXCEPT !.bio = TRUE, !.complete = TRUE] \in Auths
    BY Moves DEF Types
  <2> QED BY <1>12, <2>1, SetAuthType, Constants DEF BiometricsShown, Unlock, Types
<1>13. CASE Approve \/ Reject
  <2>1. srv' \in Srvs
    BY <1>13, Moves DEF Approve, Reject, Types, Steps
  <2> QED BY <1>13, <2>1 DEF Approve, Reject, Types
<1> QED BY <1>3, <1>4, <1>5, <1>6, <1>7, <1>8, <1>9, <1>10, <1>11, <1>12, <1>13, LogOutType
    DEF WorkerNext, WorkerLogsOut

LEMMA ClientType ==
  ASSUME Types, ClientNext
  PROVE  Types'
<1>1. \A pc \in FormPcs : [form EXCEPT !.pc = pc] \in Forms
  BY Moves DEF Types
<1>2. CASE SocialSignIn \/ HandleSave
  BY <1>1, <1>2 DEF SocialSignIn, HandleSave, Types, FormPcs
<1>3. CASE ProviderAnswers
  <2>1. srv.issued < MaxToken /\ SignIn("social") => Types'
    BY SignInType DEF FormPcs
  <2> QED BY <1>1, <1>3, <2>1 DEF ProviderAnswers, Types, FormPcs
<1>4. CASE ProbeProfile \/ PersistSocial
  <2>1. PICK done \in BOOLEAN : StoreComplete(done)
    BY <1>4, Fields DEF ProbeProfile, PersistSocial, ProbeAnswers
  <2>2. disk' \in Disks
    BY <2>1, Moves DEF StoreComplete, Types
  <2> QED BY <1>1, <2>1, <2>2 DEF StoreComplete, Types, FormPcs
<1>5. CASE EnterClient
  <2>1. "none" \in Steps
    BY DEF Steps
  <2>2. [up |-> TRUE, tok |-> form.tok, step |-> "none", bio |-> FALSE, complete |-> disk.complete] \in Auths
    BY <2>1, Fields, AuthMade
  <2> QED BY <1>5, <2>2, SetAuthType, Constants DEF EnterClient, Types
<1>6. CASE CreateProfile
  <2>1. srv' \in Srvs /\ disk' \in Disks
    BY <1>6, Moves DEF CreateProfile, Types
  <2>2. form' \in Forms
    BY <1>1, <1>6, Constants DEF CreateProfile, FormPcs
  <2> QED BY <1>6, <2>1, <2>2 DEF CreateProfile, Types
<1>7. CASE ProfileSaved
  <2>1. [auth EXCEPT !.complete = TRUE] \in Auths
    BY Moves DEF Types
  <2> QED BY <1>7, <2>1, SetAuthType, Constants DEF ProfileSaved, Types
<1> QED BY <1>2, <1>3, <1>4, <1>5, <1>6, <1>7, LogOutType DEF ClientNext, ClientLogsOut

LEMMA NextType == Types /\ [Next]_session => Types'
<1> SUFFICES ASSUME Types, [Next]_session PROVE Types'
  OBVIOUS
<1>1. CASE UNCHANGED session
  BY <1>1 DEF Types, session
<1>2. CASE SessionNext
  BY <1>2, ProcessType, ServerType, CallType DEF SessionNext
<1> QED BY <1>1, <1>2, PhoneType, WorkerType, ClientType DEF Next

LEMMA TypeInvariance == Spec => []Types
BY InitType, NextType, PTL DEF Spec

(* Type correctness of a phone's storage, store, gate, calls and forms, in *)
(* either app and for any number of calls.                                 *)
THEOREM TypeCorrect == Spec => []TypeOK
<1>1. Types => TypeOK
  BY DEF Types, TypeOK, Disks, Auths, Rows, Srvs, Forms, FormPcs
<1> QED BY <1>1, TypeInvariance, PTL

-----------------------------------------------------------------------------
(* Tokens in storage and in the store.  A sign-in stores its pair before   *)
(* the store has it, a sign-out clears storage before the store: in        *)
(* between the two differ, and no call is under way in the first case.     *)
Entering == {"probe", "social", "enter"}

SessionInv ==
  /\ ~auth.up => auth.tok = NoToken /\ form.pc = "idle"
  /\ form.pc \in Entering \cup {"provider"} => SignedOutShown
  /\ form.pc \in Entering =>
       form.tok # NoToken /\ disk.tok = form.tok /\ \A c \in Calls : calls[c].pc = "idle"
  /\ form.pc = "leaving" => disk.tok = NoToken
  /\ \A c \in Calls : calls[c].pc = "leave" => disk.tok = NoToken
  /\ SignedOutShown /\ form.pc \notin Entering => disk.tok = NoToken
  /\ TokensAgree

(* What a step leaves alone that neither begins nor ends a session.        *)
Steady ==
  /\ disk'.tok = disk.tok /\ auth'.tok = auth.tok /\ auth'.up = auth.up
  /\ \A c \in Calls : calls'[c].pc = "leave" <=> calls[c].pc = "leave"
  /\ form'.pc \in Entering <=> form.pc \in Entering
  /\ form.pc \in Entering =>
       form'.tok = form.tok /\ \A c \in Calls : calls[c].pc = "idle" => calls'[c].pc = "idle"
  /\ form'.pc = "leaving" <=> form.pc = "leaving"
  /\ form'.pc = "provider" => SignedOutShown \/ form.pc = "provider"
  /\ ~auth.up => form'.pc = "idle"

LEMMA SteadyKeeps ==
  ASSUME SessionInv, Steady
  PROVE  SessionInv'
BY DEF SessionInv, Steady, SignedOutShown, TokensAgree

LEMMA Moved ==
  /\ Types => /\ \A pc : /\ [form EXCEPT !.pc = pc].pc = pc
                         /\ [form EXCEPT !.pc = pc].tok = form.tok
              /\ \A files : /\ [form EXCEPT !.files = files].pc = form.pc
                            /\ [form EXCEPT !.files = files].tok = form.tok
              /\ \A step : [disk EXCEPT !.step = step].tok = disk.tok
              /\ \A b : /\ [disk EXCEPT !.bio = b].tok = disk.tok
                        /\ [disk EXCEPT !.complete = b].tok = disk.tok
              /\ \A step : /\ [auth EXCEPT !.step = step].tok = auth.tok
                           /\ [auth EXCEPT !.step = step].up = auth.up
  /\ NoForm.pc = "idle" /\ NoForm.tok = NoToken
BY DEF Types, Forms, Disks, Auths, NoForm

LEMMA QuietSteady ==
  ASSUME Types, SessionInv, UNCHANGED <<disk, auth, calls, form>>
  PROVE  Steady
BY DEF Steady, SessionInv

(* Only the handler of the screen shown moves.                             *)
LEMMA FormSteady ==
  ASSUME Types, SessionInv, UNCHANGED <<auth, calls>>, disk'.tok = disk.tok, auth.up,
         form.pc \notin Entering \cup {"leaving"}, form'.pc \notin Entering \cup {"leaving"},
         form'.pc = "provider" => SignedOutShown \/ form.pc = "provider"
  PROVE  Steady
BY DEF Steady

LEMMA ShownSteady ==
  ASSUME Types, SessionInv, UNCHANGED disk, auth'.tok = auth.tok, auth'.up = auth.up, auth.up,
         \A c \in Calls : calls'[c].pc = "leave" <=> calls[c].pc = "leave",
         form.pc \notin Entering \cup {"leaving"}, form'.pc = "idle"
  PROVE  Steady
BY DEF Steady, Entering

(* A call that is under way is settled, renewed or refused.                *)
LEMMA CallSteady ==
  ASSUME Types, SessionInv, NEW c \in Calls, UNCHANGED form, disk'.tok = disk.tok,
         auth'.tok = auth.tok, auth'.up = auth.up,
         \A d \in Calls : (calls'[d].pc = "leave" <=> calls[d].pc = "leave"),
         calls[c].pc # "idle" \/ auth.tok # NoToken
  PROVE  Steady
<1>1. form.pc \notin Entering
  BY DEF SessionInv, SignedOutShown
<1> QED BY <1>1 DEF Steady, SessionInv

LEMMA SessionSteady ==
  ASSUME Types, SessionInv,
         \/ GateLoads \/ GateRetry \/ GateAccepts \/ Expire \/ Revoke \/ Republish
         \/ RefreshAnswered \/ RefreshLost
  PROVE  Steady
<1>1. CASE GateLoads \/ GateRetry \/ GateAccepts \/ Expire \/ Revoke \/ Republish
  BY <1>1, QuietSteady DEF GateLoads, GateRetry, GateAccepts, Expire, Revoke, Republish
<1>2. CASE RefreshAnswered \/ RefreshLost
  <2>1. /\ UNCHANGED <<disk, auth, form>>
        /\ \A d \in Calls : /\ calls'[d].pc = "leave" <=> calls[d].pc = "leave"
                            /\ calls[d].pc = "idle" => calls'[d].pc = "idle"
    BY <1>2 DEF RefreshAnswered, RefreshLost, GiveUp, Waiting, Types, Rows
  <2> QED BY <2>1 DEF Steady, SessionInv
<1> QED BY <1>1, <1>2

LEMMA AskSteady ==
  ASSUME Types, SessionInv, NEW c \in Calls, Ask(c) \/ Answer(c) \/ Drop(c) \/ Refuse(c)
  PROVE  Steady
<1>1. /\ UNCHANGED <<disk, auth, form>> /\ (calls[c].pc = "sent" \/ auth.tok # NoToken)
      /\ \A d \in Calls : calls'[d].pc = "leave" <=> calls[d].pc = "leave"
  BY Constants DEF Ask, Send, Answer, Accepted, Drop, Settled, Refuse, Types, Rows
<1> QED BY <1>1, CallSteady

LEMMA PhoneSteady ==
  ASSUME Types, SessionInv, PhoneNext
  PROVE  Steady \/ (SignedOutShown /\ SignIn("probe"))
<1> SUFFICES ASSUME ~(SignedOutShown /\ SignIn("probe")) PROVE Steady
  OBVIOUS
<1>1. /\ UNCHANGED <<disk, auth, calls>> /\ SignedOutShown
      /\ form'.pc = form.pc \/ (form'.pc \notin Entering \cup {"leaving"} /\ form.pc \notin Entering \cup {"leaving"})
      /\ form'.pc \in Entering => form'.tok = form.tok
  <2>1. CASE OpenLogin \/ GoBack \/ HandleSendCode \/ HandleVerify
    BY <2>1 DEF OpenLogin, GoBack, HandleSendCode, HandleVerify, Shows, OnPage, Only, Types, Forms,
       NoForm, Entering
  <2>2. CASE TypeCode \/ CoolDown \/ HandleResend
    BY <2>2 DEF TypeCode, CoolDown, HandleResend, Shows, OnPage, Only, Types, Forms, Entering
  <2>3. CASE SendCodeAnswered
    BY <2>3 DEF SendCodeAnswered, Shows, OnPage, Types, Forms, NoForm, Entering
  <2>4. CASE ResendAnswered
    BY <2>4 DEF ResendAnswered, OnPage, Types, Forms, Entering
  <2>5. CASE VerifyAnswered
    BY <2>5 DEF VerifyAnswered, Shows, OnPage, Types, Forms, Entering
  <2> QED BY <2>1, <2>2, <2>3, <2>4, <2>5 DEF PhoneNext
<1> QED BY <1>1 DEF Steady, SessionInv, SignedOutShown

(* The screens that show a session.                                        *)
LEMMA RouteIs ==
  /\ Route \notin {"Loading", "SignIn"} => auth.up /\ auth.tok # NoToken
  /\ Route \in {"BiometricSetup", "BiometricCheck", "App"} => auth.step = "approved" \/ auth.complete
  /\ Route \in {"BiometricSetup", "BiometricCheck"} => auth.step = "approved"
  /\ Route = "App" => auth.complete
<1>1. ~auth.up => Route = "Loading"
  BY DEF Route, Screened
<1>2. auth.up /\ auth.tok = NoToken => Route = "SignIn"
  BY DEF Route, Screened
<1>3. Route = "BiometricSetup" => auth.step = "approved"
  BY DEF Route, Screened
<1>4. Route = "BiometricCheck" => auth.step = "approved"
  BY DEF Route, Screened
<1>5. Route = "App" => auth.complete
  BY DEF Route, Screened
<1> QED BY <1>1, <1>2, <1>3, <1>4, <1>5

LEMMA ShownIs ==
  /\ Shown \notin {"Loading", "SignIn"} => auth.up /\ auth.tok # NoToken
  /\ Shown = "App" => auth.complete
<1>1. ~auth.up => Shown = "Loading"
  BY DEF Shown, Screened
<1>2. auth.up /\ auth.tok = NoToken => Shown = "SignIn"
  BY DEF Shown, Screened
<1>3. Shown = "App" => auth.complete
  BY DEF Shown, Screened
<1> QED BY <1>1, <1>2, <1>3

LEMMA WorkerSteady ==
  ASSUME Types, SessionInv, WorkerNext, ~EnterWorker, ~WorkerLogsOut
  PROVE  Steady
<1>1. Route \notin {"Loading", "SignIn"} => auth.up /\ auth.tok # NoToken
  BY RouteIs
<1>2. CASE AskStep
  BY <1>2, Moved DEF AskStep, At, Goto, Steady, SessionInv, Entering
<1>3. CASE \E f \in Files : AddFile(f) \/ RemoveFile(f)
  <2>1. /\ UNCHANGED <<disk, auth, calls>> /\ auth.up /\ form.pc = "idle" /\ form'.pc = "idle"
    BY <1>1, <1>3 DEF AddFile, RemoveFile, On, Types, Forms
  <2> QED BY <2>1, FormSteady DEF Entering
<1>4. CASE HandleNext \/ HandleSubmit \/ EnableBiometrics
  <2>1. /\ UNCHANGED <<auth, calls>> /\ disk'.tok = disk.tok /\ auth.up /\ form.pc = "idle"
        /\ form'.pc \in {"uploading", "submitting", "bioStored"}
    BY <1>1, <1>4 DEF HandleNext, HandleSubmit, EnableBiometrics, On, Goto, Types, Forms, Disks
  <2> QED BY <2>1, FormSteady DEF Entering
<1>5. CASE SubmitIdentity \/ SubmitProfile
  BY <1>5, Moved, FormSteady DEF SubmitIdentity, SubmitProfile, At, Goto, SessionInv, Entering
<1>6. CASE IdentityStored \/ ProfileStored
  <2>1. /\ UNCHANGED <<auth, calls>> /\ disk'.tok = disk.tok
        /\ form.pc \in {"identity", "profile"} /\ form'.pc \in {"identityStored", "profileStored"}
    BY <1>6 DEF IdentityStored, ProfileStored, StoreStep, At, Goto, Types, Forms, Disks
  <2> QED BY <2>1, FormSteady DEF SessionInv, Entering
<1>7. CASE IdentityShown \/ ProfileShown \/ BiometricsShown
  <2>1. auth'.tok = auth.tok /\ auth'.up = auth.up
    BY <1>7 DEF IdentityShown, ProfileShown, ShowStep, BiometricsShown, SetAuth, Types, Auths
  <2> QED BY <1>7, <2>1, Moved, ShownSteady
      DEF IdentityShown, ProfileShown, ShowStep, BiometricsShown, At, SessionInv, Entering
<1>8. CASE Unlock
  <2>1. auth'.tok = auth.tok /\ auth'.up = auth.up
    BY <1>8 DEF Unlock, SetAuth, Types, Auths
  <2> QED BY <1>1, <1>8, <2>1, ShownSteady DEF Unlock, On, Entering
<1>9. ASSUME NEW c \in Calls, Poll(c) \/ PollAnswered(c) \/ PollShown(c) PROVE Steady
  <2>1. \A d \in Calls : calls'[d].pc = "leave" <=> calls[d].pc = "leave"
    BY <1>9, Constants DEF Poll, Send, PollAnswered, Accepted, PollShown, Settled, Types, Rows
  <2>2. /\ UNCHANGED form /\ disk'.tok = disk.tok /\ auth'.tok = auth.tok /\ auth'.up = auth.up
        /\ calls[c].pc # "idle" \/ auth.tok # NoToken
    BY <1>1, <1>9 DEF Poll, PollAnswered, Accepted, PollShown, On, SetAuth, Types, Disks, Auths
  <2> QED BY <2>1, <2>2, CallSteady
<1>10. CASE Approve \/ Reject
  BY <1>10, QuietSteady DEF Approve, Reject
<1> QED BY <1>2, <1>3, <1>4, <1>5, <1>6, <1>7, <1>8, <1>9, <1>10 DEF WorkerNext

LEMMA ClientSteady ==
  ASSUME Types, SessionInv, ClientNext, ~EnterClient, ~ClientLogsOut
  PROVE  Steady \/ (SignedOutShown /\ SignIn("social"))
<1>1. Shown \notin {"Loading", "SignIn"} => auth.up /\ auth.tok # NoToken
  BY ShownIs
<1>2. CASE SocialSignIn
  BY <1>2, Moved, FormSteady DEF SocialSignIn, SignedOutShown, Entering
<1>3. CASE ProviderAnswers
  BY <1>3, Moved, FormSteady DEF ProviderAnswers, Busy, SessionInv, Entering
<1>4. CASE ProbeProfile \/ PersistSocial
  <2>1. /\ UNCHANGED <<auth, calls>> /\ disk'.tok = disk.tok /\ form.pc \in {"probe", "social"}
        /\ form'.pc = "enter" /\ form'.tok = form.tok
    BY <1>4 DEF ProbeProfile, PersistSocial, StoreComplete, Busy, Types, Forms, Disks
  <2> QED BY <2>1 DEF Steady, SessionInv, Entering
<1>5. CASE HandleSave
  BY <1>1, <1>5, Moved, FormSteady DEF HandleSave, Sees, Entering
<1>6. CASE CreateProfile
  <2>1. /\ UNCHANGED <<auth, calls>> /\ disk'.tok = disk.tok /\ form.pc = "saving"
        /\ form'.pc \in {"saved", "idle"}
    BY <1>6, Moved DEF CreateProfile, Busy, Types, Forms, Disks
  <2> QED BY <2>1, FormSteady DEF SessionInv, Entering
<1>7. CASE ProfileSaved
  <2>1. auth'.tok = auth.tok /\ auth'.up = auth.up
    BY <1>7 DEF ProfileSaved, SetAuth, Types, Auths
  <2> QED BY <1>7, <2>1, Moved, ShownSteady DEF ProfileSaved, Busy, SessionInv, Entering
<1> QED BY <1>2, <1>3, <1>4, <1>5, <1>6, <1>7 DEF ClientNext

(* The steps that begin or end a session, or start the process.            *)
LEMMA InitSession == Init => SessionInv
<1> SUFFICES ASSUME Init PROVE SessionInv
  OBVIOUS
<1>1. auth = NotStarted /\ disk = Blank /\ form = NoForm /\ \A c \in Calls : calls[c].pc = "idle"
  BY Constants DEF Init
<1> QED BY <1>1, Constants DEF SessionInv, SignedOutShown, TokensAgree, Entering

LEMMA LaunchSession ==
  ASSUME Types, SessionInv, Kill \/ Hydrate
  PROVE  SessionInv'
<1>1. CASE Kill
  <2>1. auth' = NotStarted /\ form' = NoForm /\ \A c \in Calls : calls'[c].pc = "idle"
    BY <1>1, Constants DEF Kill
  <2> QED BY <2>1, Constants DEF SessionInv, SignedOutShown, TokensAgree, Entering
<1>2. CASE Hydrate
  <2>1. /\ ~auth.up /\ auth'.up /\ auth'.tok = disk.tok /\ UNCHANGED <<disk, calls, form>>
    BY <1>2 DEF Hydrate, SetAuth, Store
  <2> QED BY <2>1 DEF SessionInv, SignedOutShown, TokensAgree, Entering
<1> QED BY <1>1, <1>2

LEMMA EndSession ==
  ASSUME Types, SessionInv, auth.up,
         LogOut \/ Leave \/ \E c \in Calls : ClearAfterRefusal(c) \/ LeaveAfterRefusal(c)
  PROVE  SessionInv'
<1>1. CASE LogOut
  <2>1. disk'.tok = NoToken /\ form.pc = "idle" /\ form'.pc = "leaving" /\ UNCHANGED <<auth, calls>>
    BY <1>1, Constants DEF LogOut, Forget, NoForm
  <2> QED BY <2>1 DEF SessionInv, SignedOutShown, TokensAgree, Entering
<1>2. CASE Leave
  <2>1. auth' = SignedOut /\ form' = NoForm /\ form.pc = "leaving" /\ UNCHANGED <<disk, calls>>
    BY <1>2 DEF Leave, SetAuth
  <2> QED BY <2>1, Constants DEF SessionInv, SignedOutShown, TokensAgree, Entering
<1>3. ASSUME NEW c \in Calls, ClearAfterRefusal(c) PROVE SessionInv'
  <2>1. /\ disk'.tok = NoToken /\ calls[c].pc = "clear" /\ calls'[c].pc = "leave"
        /\ UNCHANGED <<auth, form>>
    BY <1>3, Constants DEF ClearAfterRefusal, Types, Rows
  <2>2. form.pc \notin Entering
    BY <2>1 DEF SessionInv
  <2> QED BY <2>1, <2>2 DEF SessionInv, SignedOutShown, TokensAgree
<1>4. ASSUME NEW c \in Calls, LeaveAfterRefusal(c) PROVE SessionInv'
  <2>1. /\ auth' = SignedOut /\ calls[c].pc = "leave" /\ UNCHANGED <<disk, form>>
        /\ \A d \in Calls : calls'[d].pc = "leave" => calls[d].pc = "leave"
    BY <1>4, Constants DEF LeaveAfterRefusal, Settled, SetAuth, Types, Rows
  <2>2. disk.tok = NoToken /\ form.pc \notin Entering
    BY <2>1 DEF SessionInv
  <2> QED BY <2>1, <2>2, Constants DEF SessionInv, SignedOutShown, TokensAgree
<1> QED BY <1>1, <1>2, <1>3, <1>4

LEMMA BeginSession ==
  ASSUME Types, SessionInv, SignedOutShown, NEW pc \in Entering, SignIn(pc)
  PROVE  SessionInv'
<1>1. /\ disk'.tok = srv.issued + 1 /\ form'.tok = srv.issued + 1 /\ form'.pc = pc
      /\ UNCHANGED <<auth, calls>> /\ \A c \in Calls : calls[c].pc = "idle"
  BY DEF SignIn, Types, Disks, NoForm
<1>2. srv.issued + 1 # NoToken
  BY Fields
<1> QED BY <1>1, <1>2 DEF SessionInv, SignedOutShown, TokensAgree, Entering

LEMMA EnterSession ==
  ASSUME Types, SessionInv, EnterWorker \/ EnterClient
  PROVE  SessionInv'
<1>1. /\ auth'.up /\ auth'.tok = form.tok /\ form.pc = "enter" /\ form' = NoForm
      /\ UNCHANGED <<disk, calls>>
  BY DEF EnterWorker, EnterClient, EnterAs, SetAuth, At, Busy
<1> QED BY <1>1, Constants DEF SessionInv, SignedOutShown, TokensAgree, Entering

LEMMA NextSession == Types /\ SessionInv /\ [Next]_session => SessionInv'
<1> SUFFICES ASSUME Types, SessionInv, [Next]_session PROVE SessionInv'
  OBVIOUS
<1>1. CASE UNCHANGED session
  BY <1>1 DEF session, SessionInv, SignedOutShown, TokensAgree
<1>2. CASE SessionNext
  <2>1. Leave => auth.up
    BY DEF Leave, SessionInv
  <2>2. ASSUME NEW c \in Calls, ClearAfterRefusal(c) \/ LeaveAfterRefusal(c) PROVE SessionInv'
    <3>1. CASE auth.up
      BY <2>2, <3>1, EndSession
    <3>2. CASE ~auth.up
      <4>1. /\ \A d \in Calls : calls'[d].pc = "leave" => calls[d].pc = "leave" \/ disk'.tok = NoToken
            /\ disk'.tok = NoToken /\ UNCHANGED form
        BY <2>2, Constants DEF ClearAfterRefusal, LeaveAfterRefusal, SessionInv
      <4>2. auth' = auth \/ auth' = SignedOut
        BY <2>2 DEF ClearAfterRefusal, LeaveAfterRefusal, SetAuth
      <4> QED BY <3>2, <4>1, <4>2, Constants DEF SessionInv, SignedOutShown, TokensAgree, Entering
    <3> QED BY <3>1, <3>2
  <2> QED BY <1>2, <2>1, <2>2, LaunchSession, EndSession, SessionSteady, AskSteady, SteadyKeeps
      DEF SessionNext
<1>3. CASE PhoneNext
  BY <1>3, PhoneSteady, SteadyKeeps, BeginSession DEF Entering
<1>4. CASE WorkerNext
  <2>1. WorkerLogsOut => auth.up /\ LogOut
    BY RouteIs DEF WorkerLogsOut, On
  <2> QED BY <1>4, <2>1, WorkerSteady, SteadyKeeps, EnterSession, EndSession
<1>5. CASE ClientNext
  <2>1. ClientLogsOut => auth.up /\ LogOut
    BY ShownIs DEF ClientLogsOut, Sees
  <2> QED BY <1>5, <2>1, ClientSteady, SteadyKeeps, EnterSession, EndSession, BeginSession DEF Entering
<1> QED BY <1>1, <1>2, <1>3, <1>4, <1>5 DEF Next

LEMMA SessionInvariance == Spec => [](Types /\ SessionInv)
BY InitSession, NextSession, TypeInvariance, PTL DEF Spec

(* Whatever calls, renewals and handlers were under way when a session     *)
(* ended, a signed-out phone holds no tokens a relaunch would find.        *)
THEOREM SignedOutIsForgotten == Spec => []SignedOutForgets
<1>1. SessionInv => SignedOutForgets
  BY DEF SessionInv, SignedOutForgets, SignedOutShown, Entering
<1> QED BY <1>1, SessionInvariance, PTL

(* A signed-in app holds the pair that storage holds, in any order of      *)
(* sign-ins, launches, refused calls and sign-outs.                        *)
THEOREM TokensStayTogether == Spec => []TokensAgree
<1>1. SessionInv => TokensAgree
  BY DEF SessionInv
<1> QED BY <1>1, SessionInvariance, PTL

-----------------------------------------------------------------------------
(* What the screens take for granted is the server's word.  A poll that is *)
(* answered late, a step stored before a sign-out and a handler that       *)
(* outlives its session keep it only while it was once given; the lock of  *)
(* a launch needs the tokens, for a handler that ends after a sign-out     *)
(* marks a signed-out store complete.                                      *)
EarnedInv ==
  /\ "approved" \in {srv.step, disk.step, auth.step} => srv.ever
  /\ (\E c \in Calls : calls[c].pc = "told") => srv.ever
  /\ app = "worker" /\ (auth.complete \/ form.pc = "bioStored") => srv.ever
  /\ app = "worker" /\ auth.tok # NoToken /\ (auth.complete \/ form.pc = "bioStored") => unlocked
  /\ app = "client" /\ (auth.complete \/ disk.complete \/ form.pc = "saved") => srv.profile

LEMMA InitEarned == Init => EarnedInv
<1> SUFFICES ASSUME Init PROVE EarnedInv
  OBVIOUS
<1>1. srv.step = "none" /\ disk = Blank /\ auth = NotStarted /\ form = NoForm
      /\ \A c \in Calls : calls[c].pc = "idle"
  BY Constants DEF Init
<1> QED BY <1>1, Constants DEF EarnedInv

(* The server forgets neither an approval nor a profile.                   *)
ServerKeeps ==
  /\ srv.ever => srv'.ever
  /\ srv.profile => srv'.profile
  /\ srv'.step = "approved" => srv.step = "approved" \/ srv'.ever

NoneTold == \A c \in Calls : calls'[c].pc = "told" => calls[c].pc = "told"

LEMMA ServerSteps ==
  /\ UNCHANGED srv => ServerKeeps
  /\ Types /\ srv' \in {Issue, Exchange, NewCode, [srv EXCEPT !.live = {}]} => ServerKeeps
  /\ Types /\ (Expire \/ Revoke \/ Republish \/ GateAccepts) => ServerKeeps
  /\ Types /\ (SubmitIdentity \/ SubmitProfile \/ Approve \/ Reject \/ CreateProfile) => ServerKeeps
<1>1. UNCHANGED srv => ServerKeeps
  BY DEF ServerKeeps
<1>2. Types /\ srv' \in {Issue, Exchange, NewCode, [srv EXCEPT !.live = {}]} => ServerKeeps
  BY DEF ServerKeeps, Types, Srvs, Issue, Exchange, NewCode
<1>3. Types /\ (Expire \/ Revoke \/ Republish \/ GateAccepts) => ServerKeeps
  BY DEF ServerKeeps, Types, Srvs, Expire, Revoke, Republish, GateAccepts
<1>4. Types /\ (SubmitIdentity \/ SubmitProfile) => ServerKeeps
  BY DEF ServerKeeps, Types, Srvs, SubmitIdentity, SubmitProfile
<1>5. Types /\ (Approve \/ Reject \/ CreateProfile) => ServerKeeps
  BY DEF ServerKeeps, Types, Srvs, Approve, Reject, CreateProfile
<1> QED BY <1>1, <1>2, <1>3, <1>4, <1>5

(* Steps that change neither what is stored nor what the screens go by.    *)
LEMMA PlainEarned ==
  ASSUME Types, EarnedInv, ServerKeeps, NoneTold, UNCHANGED <<app, auth, unlocked>>,
         disk'.step = disk.step \/ disk'.step # "approved", disk'.complete => disk.complete,
         form'.pc \in {"bioStored", "saved"} => form'.pc = form.pc
  PROVE  EarnedInv'
BY DEF EarnedInv, ServerKeeps, NoneTold

LEMMA CallsPlain ==
  ASSUME Types, EarnedInv, NEW c \in Calls,
         Ask(c) \/ Answer(c) \/ Drop(c) \/ Refuse(c) \/ ClearAfterRefusal(c) \/ Poll(c)
  PROVE  EarnedInv'
<1>1. NoneTold
  BY Constants
  DEF NoneTold, Ask, Send, Answer, Drop, Refuse, ClearAfterRefusal, Poll, Settled, Types, Rows
<1>2. UNCHANGED <<app, auth, unlocked, srv, form>> /\ (disk' = disk \/ disk' = Blank)
  BY DEF Ask, Answer, Drop, Refuse, ClearAfterRefusal, Poll
<1> QED BY <1>1, <1>2, ServerSteps, PlainEarned, Constants

LEMMA SessionPlain ==
  ASSUME Types, EarnedInv,
         \/ RefreshAnswered \/ RefreshLost \/ GateLoads \/ GateRetry \/ GateAccepts
         \/ Expire \/ Revoke \/ Republish \/ LogOut
  PROVE  EarnedInv'
<1>1. NoneTold
  BY DEF NoneTold, RefreshAnswered, RefreshLost, GiveUp, Waiting, GateLoads, GateRetry, GateAccepts,
     Expire, Revoke, Republish, LogOut, Types, Rows
<1>2. /\ UNCHANGED <<app, auth, unlocked>> /\ (disk' = disk \/ disk' = Blank)
      /\ form' = form \/ form'.pc = "leaving"
  BY DEF RefreshAnswered, RefreshLost, GateLoads, GateRetry, GateAccepts, Expire, Revoke, Republish,
     LogOut, Forget, NoForm
<1>3. ServerKeeps
  BY ServerSteps
  DEF RefreshAnswered, RefreshLost, GateLoads, GateRetry, GateAccepts, Expire, Revoke, Republish, LogOut
<1> QED BY <1>1, <1>2, <1>3, PlainEarned, Constants

LEMMA PhonePlain ==
  ASSUME Types, EarnedInv, PhoneNext
  PROVE  EarnedInv'
<1>1. UNCHANGED <<app, auth, unlocked, calls>>
  BY DEF PhoneNext, OpenLogin, GoBack, HandleSendCode, SendCodeAnswered, TypeCode, CoolDown,
     HandleResend, ResendAnswered, HandleVerify, VerifyAnswered, SignIn, Only
<1>2. disk'.step = disk.step /\ disk'.complete = disk.complete
  BY DEF PhoneNext, OpenLogin, GoBack, HandleSendCode, SendCodeAnswered, TypeCode, CoolDown,
     HandleResend, ResendAnswered, HandleVerify, VerifyAnswered, SignIn, Only, Types, Disks
<1>3. srv' \in {srv, Issue, NewCode}
  BY DEF PhoneNext, OpenLogin, GoBack, HandleSendCode, SendCodeAnswered, TypeCode, CoolDown,
     HandleResend, ResendAnswered, HandleVerify, VerifyAnswered, SignIn, Only
<1>4. form'.pc \in {form.pc, "idle", "sending", "verifying", "probe"}
  <2>1. CASE OpenLogin \/ GoBack \/ HandleSendCode \/ HandleVerify \/ CoolDown \/ HandleResend
    BY <2>1 DEF OpenLogin, GoBack, HandleSendCode, HandleVerify, CoolDown, HandleResend, Only, Types,
       Forms, NoForm
  <2>2. CASE TypeCode
    BY <2>2 DEF TypeCode, Only, Types, Forms
  <2>3. CASE SendCodeAnswered \/ ResendAnswered
    BY <2>3 DEF SendCodeAnswered, ResendAnswered, Types, Forms, NoForm
  <2>4. CASE VerifyAnswered
    BY <2>4 DEF VerifyAnswered, SignIn, Types, Forms, NoForm
  <2> QED BY <2>1, <2>2, <2>3, <2>4 DEF PhoneNext
<1>5. ServerKeeps /\ NoneTold
  BY <1>1, <1>3, ServerSteps DEF NoneTold
<1> QED BY <1>1, <1>2, <1>4, <1>5, PlainEarned

(* Steps that show another session, or none.                               *)
LEMMA LaunchEarned ==
  ASSUME Types, SessionInv, EarnedInv,
         \/ Kill \/ Hydrate \/ Leave \/ EnterWorker \/ EnterClient
         \/ \E c \in Calls : LeaveAfterRefusal(c)
  PROVE  EarnedInv'
<1>1. UNCHANGED <<app, disk, srv>>
  BY DEF Kill, Hydrate, Leave, EnterWorker, EnterClient, LeaveAfterRefusal
<1>2. ASSUME auth'.step # "approved", ~auth'.complete, NoneTold, form'.pc = "idle" \/ form' = form,
             auth'.tok = NoToken \/ form'.pc = "idle"
      PROVE  EarnedInv'
  BY <1>1, <1>2 DEF EarnedInv, NoneTold
<1>3. CASE Kill \/ Leave
  BY <1>2, <1>3, Constants DEF Kill, Leave, SetAuth, NoneTold
<1>4. ASSUME NEW c \in Calls, LeaveAfterRefusal(c) PROVE EarnedInv'
  <2>1. NoneTold
    BY <1>4, Constants DEF NoneTold, LeaveAfterRefusal, Settled, Types
  <2> QED BY <1>2, <1>4, <2>1, Constants DEF LeaveAfterRefusal, SetAuth
<1>5. ASSUME \/ auth'.step \in {disk.step, "none"},
             app = "worker" => ~auth'.complete, auth'.complete => disk.complete, UNCHANGED calls,
             form'.pc = "idle"
      PROVE  EarnedInv'
  BY <1>1, <1>5 DEF EarnedInv
<1>6. CASE Hydrate
  <2>1. form.pc = "idle"
    BY <1>6 DEF Hydrate, SessionInv
  <2> QED BY <1>5, <1>6, <2>1 DEF Hydrate, SetAuth, Store, HydrateComplete
<1>7. CASE EnterWorker \/ EnterClient
  BY <1>5, <1>7, Constants DEF EnterWorker, EnterClient, EnterAs, SetAuth, At, Busy
<1> QED BY <1>3, <1>4, <1>6, <1>7

LEMMA WorkerPlain ==
  ASSUME Types, EarnedInv,
         \/ \E f \in Files : AddFile(f) \/ RemoveFile(f)
         \/ HandleNext \/ HandleSubmit \/ SubmitIdentity \/ SubmitProfile
         \/ IdentityStored \/ ProfileStored \/ Approve \/ Reject
  PROVE  EarnedInv'
<1>1. UNCHANGED <<app, auth, unlocked, calls>>
  BY DEF AddFile, RemoveFile, HandleNext, HandleSubmit, SubmitIdentity, SubmitProfile, IdentityStored,
     ProfileStored, StoreStep, Approve, Reject
<1>2. disk'.step \in {disk.step, "identity_uploaded", "profile_submitted"} /\ disk'.complete = disk.complete
  BY DEF AddFile, RemoveFile, HandleNext, HandleSubmit, SubmitIdentity, SubmitProfile, IdentityStored,
     ProfileStored, StoreStep, StepAfterProfile, Approve, Reject, Types, Disks
<1>3. form'.pc \notin {"bioStored", "saved"} \/ form' = form
  <2>1. CASE \E f \in Files : AddFile(f) \/ RemoveFile(f)
    BY <2>1 DEF AddFile, RemoveFile, Types, Forms
  <2>2. CASE HandleNext \/ HandleSubmit \/ SubmitIdentity \/ SubmitProfile
    BY <2>2 DEF HandleNext, HandleSubmit, SubmitIdentity, SubmitProfile, Goto, Types, Forms
  <2>3. CASE IdentityStored \/ ProfileStored
    BY <2>3 DEF IdentityStored, ProfileStored, StoreStep, Goto, Types, Forms
  <2>4. CASE Approve \/ Reject
    BY <2>4 DEF Approve, Reject
  <2> QED BY <2>1, <2>2, <2>3, <2>4
<1>4. ServerKeeps /\ NoneTold
  BY <1>1, ServerSteps
  DEF NoneTold, AddFile, RemoveFile, HandleNext, HandleSubmit, IdentityStored, ProfileStored, StoreStep
<1> QED BY <1>1, <1>2, <1>3, <1>4, PlainEarned

(* An answered question about the step, and the poll of the review screen. *)
LEMMA AnsweredEarned ==
  ASSUME Types, EarnedInv, AskStep \/ \E c \in Calls : PollAnswered(c) \/ PollShown(c)
  PROVE  EarnedInv'
<1>1. CASE AskStep
  <2>1. /\ UNCHANGED <<app, auth, unlocked, calls, srv>> /\ form'.pc = "enter"
        /\ disk'.step \in {srv.step, "none"} /\ disk'.complete = disk.complete
    BY <1>1 DEF AskStep, Goto, Types, Forms, Disks
  <2> QED BY <2>1 DEF EarnedInv
<1>2. ASSUME NEW c \in Calls, PollAnswered(c) PROVE EarnedInv'
  <2>1. CASE LeavesReview(srv.step)
    <3>1. /\ srv.step = "approved" /\ UNCHANGED <<app, auth, unlocked, form, srv>>
          /\ disk'.complete = disk.complete
      BY <1>2, <2>1 DEF PollAnswered, LeavesReview, Types, Disks
    <3> QED BY <3>1 DEF EarnedInv
  <2>2. CASE ~LeavesReview(srv.step)
    <3>1. NoneTold /\ UNCHANGED <<app, auth, unlocked, form, srv, disk>>
      BY <1>2, <2>2, Constants DEF PollAnswered, Settled, NoneTold, Types
    <3> QED BY <3>1, ServerSteps, PlainEarned
  <2> QED BY <2>1, <2>2
<1>3. ASSUME NEW c \in Calls, PollShown(c) PROVE EarnedInv'
  <2>1. /\ auth'.complete = auth.complete /\ auth'.tok = auth.tok /\ calls[c].pc = "told" /\ NoneTold
        /\ UNCHANGED <<app, disk, unlocked, form, srv>>
    BY <1>3, Constants DEF PollShown, SetAuth, Settled, NoneTold, Types, Auths
  <2>2. srv.ever
    BY <2>1 DEF EarnedInv
  <2> QED BY <2>1, <2>2 DEF EarnedInv
<1> QED BY <1>1, <1>2, <1>3

(* The handlers that show a step, and the lock of a launch.                *)
LEMMA LockEarned ==
  ASSUME Types, EarnedInv,
         IdentityShown \/ ProfileShown \/ EnableBiometrics \/ BiometricsShown \/ Unlock
  PROVE  EarnedInv'
<1>1. CASE IdentityShown \/ ProfileShown
  <2>1. /\ auth'.complete = auth.complete /\ auth'.tok = auth.tok /\ auth'.step # "approved"
        /\ form'.pc = "idle" /\ UNCHANGED <<app, disk, unlocked, calls, srv>>
    BY <1>1, Constants
    DEF IdentityShown, ProfileShown, ShowStep, StepAfterProfile, SetAuth, Types, Auths
  <2> QED BY <2>1 DEF EarnedInv
<1>2. CASE EnableBiometrics
  <2>1. /\ auth.step = "approved" /\ app = "worker"
        /\ disk'.step = disk.step /\ UNCHANGED <<app, auth, calls, srv>> /\ unlocked'
    BY <1>2, RouteIs DEF EnableBiometrics, On, Types, Disks
  <2> QED BY <2>1 DEF EarnedInv
<1>3. CASE BiometricsShown
  <2>1. /\ app = "worker" /\ form.pc = "bioStored" /\ auth'.tok = auth.tok /\ auth'.step = auth.step
        /\ form'.pc = "idle" /\ UNCHANGED <<app, disk, unlocked, calls, srv>>
    BY <1>3, Constants DEF BiometricsShown, At, SetAuth, Types, Auths
  <2> QED BY <2>1 DEF EarnedInv
<1>4. CASE Unlock
  <2>1. /\ app = "worker" /\ auth.step = "approved" /\ auth'.step = auth.step
        /\ unlocked' /\ UNCHANGED <<app, disk, calls, srv, form>>
    BY <1>4, RouteIs DEF Unlock, On, SetAuth, Types, Auths
  <2> QED BY <2>1 DEF EarnedInv
<1> QED BY <1>1, <1>2, <1>3, <1>4

LEMMA ClientEarned ==
  ASSUME Types, SessionInv, EarnedInv, ClientNext
  PROVE  EarnedInv'
<1>1. CASE SocialSignIn \/ ProviderAnswers \/ HandleSave
  <2>1. UNCHANGED <<app, auth, unlocked, calls>> /\ disk'.step = disk.step /\ disk'.complete = disk.complete
    BY <1>1 DEF SocialSignIn, ProviderAnswers, SignIn, HandleSave, Types, Disks
  <2>2. form'.pc \in {"provider", "social", "idle", "saving"} /\ srv' \in {srv, Issue}
    BY <1>1 DEF SocialSignIn, ProviderAnswers, SignIn, HandleSave, Types, Forms, NoForm
  <2> QED BY <2>1, <2>2, ServerSteps, PlainEarned DEF NoneTold
<1>2. CASE ProbeProfile \/ PersistSocial
  <2>1. /\ disk'.complete \in {srv.profile, FALSE} /\ disk'.step = disk.step /\ form'.pc = "enter"
        /\ UNCHANGED <<app, auth, unlocked, calls, srv>>
    BY <1>2 DEF ProbeProfile, ProbeAnswers, PersistSocial, StoreComplete, Types, Disks, Forms
  <2> QED BY <2>1 DEF EarnedInv
<1>3. CASE CreateProfile
  <2>1. /\ app = "client" /\ disk'.step = disk.step /\ ServerKeeps /\ NoneTold
        /\ UNCHANGED <<app, auth, unlocked>>
    BY <1>3, ServerSteps DEF CreateProfile, Busy, NoneTold, Types, Disks
  <2>2. /\ form'.pc \in {"idle", "saved"} /\ (form'.pc = "saved" => srv'.profile)
        /\ disk'.complete => disk.complete \/ srv'.profile
    BY <1>3, Constants DEF CreateProfile, Types, Srvs, Forms
  <2> QED BY <2>1, <2>2 DEF EarnedInv, ServerKeeps, NoneTold
<1>4. CASE ProfileSaved
  <2>1. /\ app = "client" /\ form.pc = "saved" /\ auth'.step = auth.step /\ form'.pc = "idle"
        /\ UNCHANGED <<app, disk, unlocked, calls, srv>>
    BY <1>4, Constants DEF ProfileSaved, Busy, SetAuth, Types, Auths
  <2> QED BY <2>1 DEF EarnedInv
<1> QED BY <1>1, <1>2, <1>3, <1>4, LaunchEarned, SessionPlain DEF ClientNext, ClientLogsOut

LEMMA NextEarned == Types /\ SessionInv /\ EarnedInv /\ [Next]_session => EarnedInv'
<1> SUFFICES ASSUME Types, SessionInv, EarnedInv, [Next]_session PROVE EarnedInv'
  OBVIOUS
<1>1. CASE UNCHANGED session
  BY <1>1 DEF session, EarnedInv
<1>2. CASE SessionNext
  BY <1>2, LaunchEarned, SessionPlain, CallsPlain DEF SessionNext
<1>3. CASE WorkerNext
  BY <1>3, WorkerPlain, AnsweredEarned, LockEarned, CallsPlain, LaunchEarned, SessionPlain
  DEF WorkerNext, WorkerLogsOut
<1> QED BY <1>1, <1>2, <1>3, PhonePlain, ClientEarned DEF Next

LEMMA EarnedInvariance == Spec => []EarnedInv
BY InitEarned, NextEarned, SessionInvariance, PTL DEF Spec

(* No order of launches, lost answers, sign-outs and late polls takes a    *)
(* worker past the review screen before an admin has once approved them.   *)
THEOREM ReviewComesFirst == Spec => []NeverAheadOfReview
<1>1. EarnedInv => NeverAheadOfReview
  BY RouteIs DEF EarnedInv, NeverAheadOfReview
<1> QED BY <1>1, EarnedInvariance, PTL

(* The app of a worker is shown only after the biometric prompt was passed *)
(* since the app was launched and the session began.                       *)
THEOREM LaunchesAreLocked == Spec => []LockedUntilChecked
<1>1. EarnedInv => LockedUntilChecked
  BY RouteIs DEF EarnedInv, LockedUntilChecked, On
<1> QED BY <1>1, EarnedInvariance, PTL

(* The app of a client is shown only to one whose profile the server has,  *)
(* whatever look-up failed and whichever write the process was killed at.  *)
THEOREM AppNeedsProfile == Spec => []NoAppWithoutProfile
<1>1. EarnedInv => NoAppWithoutProfile
  BY ShownIs DEF EarnedInv, NoAppWithoutProfile, Sees
<1> QED BY <1>1, EarnedInvariance, PTL
=============================================================================
