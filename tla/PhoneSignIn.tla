---------------------------- MODULE PhoneSignIn ----------------------------
(***************************************************************************)
(* Signing in with a code sent by SMS: WelcomeScreen, LoginScreen and      *)
(* VerifyOtpScreen, the same three in both apps.  The code counts while it *)
(* is the last one the server sent and nobody has signed in with it.       *)
(***************************************************************************)
EXTENDS MobileSession

OnPage(page) == SignedOutShown /\ form.page = page
Shows(page, pc) == OnPage(page) /\ form.pc = pc

Only(f) ==
  /\ form' = f
  /\ UNCHANGED <<app, disk, auth, gate, calls, swap, srv, unlocked>>

OpenLogin == Shows("welcome", "idle") /\ Only([form EXCEPT !.page = "login"])

GoBack ==
  \/ Shows("login", "idle") /\ Only([form EXCEPT !.page = "welcome"])
  \/ Shows("otp", "idle") /\ Only([NoForm EXCEPT !.page = "login"])

(* Sending a code retires the one before it.                               *)
NewCode == [srv EXCEPT !.code = @ + 1, !.used = FALSE]

HandleSendCode == Shows("login", "idle") /\ Only([form EXCEPT !.pc = "sending"])

SendCodeAnswered ==
  /\ Shows("login", "sending")
  /\ \/ /\ srv.code < MaxCode
        /\ srv' = NewCode
        /\ form' \in {[NoForm EXCEPT !.page = "otp", !.cool = TRUE], [form EXCEPT !.pc = "idle"]}
     \/ srv' = srv /\ form' = [form EXCEPT !.pc = "idle"]
  /\ UNCHANGED <<app, disk, auth, gate, calls, swap, unlocked>>

(* Any code that has been sent may be typed, the last or an earlier one.   *)
TypeCode ==
  /\ Shows("otp", "idle")
  /\ \E code \in 0..srv.code : Only([form EXCEPT !.typed = code])

CoolDown == OnPage("otp") /\ form.cool /\ Only([form EXCEPT !.cool = FALSE])

HandleResend ==
  /\ OnPage("otp") /\ ~form.cool /\ ~form.resend
  /\ Only([form EXCEPT !.resend = TRUE])

ResendAnswered ==
  /\ OnPage("otp") /\ form.resend
  /\ \/ /\ srv.code < MaxCode
        /\ srv' = NewCode
        /\ form' \in {[form EXCEPT !.resend = FALSE, !.typed = 0, !.cool = TRUE],
                      [form EXCEPT !.resend = FALSE]}
     \/ srv' = srv /\ form' = [form EXCEPT !.resend = FALSE]
  /\ UNCHANGED <<app, disk, auth, gate, calls, swap, unlocked>>

HandleVerify ==
  /\ Shows("otp", "idle") /\ form.typed # 0
  /\ Only([form EXCEPT !.pc = "verifying"])

CodeCounts == form.typed = srv.code /\ ~srv.used /\ srv.issued < MaxToken

(* An answer that is lost has used the code up and leaves the screen as it *)
(* was.                                                                    *)
VerifyAnswered ==
  /\ Shows("otp", "verifying")
  /\ \/ CodeCounts /\ SignIn("probe")
     \/ /\ srv' \in {srv, IF CodeCounts THEN Issue ELSE srv}
        /\ form' = [form EXCEPT !.pc = "idle"]
        /\ UNCHANGED <<app, disk, auth, gate, calls, swap, unlocked>>

PhoneNext ==
  \/ OpenLogin \/ GoBack \/ HandleSendCode \/ SendCodeAnswered \/ TypeCode \/ CoolDown
  \/ HandleResend \/ ResendAnswered \/ HandleVerify \/ VerifyAnswered
=============================================================================
