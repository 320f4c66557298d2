----------------------------- MODULE AdminForms -----------------------------
(***************************************************************************)
(* The admin pages that show one record, file or switch (SingleRecordForm, *)
(* app/admin/profile, PortraitEditor, app/admin/cv, app/admin/security)    *)
(* and the way in and out (LoginForm, LogoutButton, app/admin/layout).     *)
(*                                                                         *)
(* The profile stands for its optional parts: one link and an address of   *)
(* two lines.  The crop of the portrait has one axis, in steps; its other    *)
(* axis and the zoom are like it.                                          *)
(***************************************************************************)
EXTENDS AdminUi

CONSTANTS FocusMax      \* the last step of the focus

ASSUME FormsAssumption == FocusMax \in Nat

VARIABLES
    form,       \* the profile as it stands in the fields
    formRev,    \* history: the revision it was loaded from, 0 when it was edited
                \* or is none
    crop,       \* the crop on the page, None before there is one
    known,      \* what the page knows of the CV or of the second factor
    setup,      \* the set-up of the second factor is shown
    step,       \* the step of the sign-in
    session,    \* the backend: this browser has an admin session
    waiting     \* the backend: a sign-in waits for its code

forms == <<form, formRev, crop, known, setup, step, session, waiting>>

-----------------------------------------------------------------------------
(* The profile.                                                             *)

Texts   == {"", "x"}
Profile == [link : {None, "x"}, address : {None} \cup [street : Texts, city : Texts]]
Form    == [link : Texts, street : Texts, city : Texts]
Empty   == [link |-> "", street |-> "", city |-> ""]

FromResponse(p) ==
    [link   |-> IF p.link = None THEN "" ELSE p.link,
     street |-> IF p.address = None THEN "" ELSE p.address.street,
     city   |-> IF p.address = None THEN "" ELSE p.address.city]

\* Variant: an address is sent also when there is none.
ToBodyWithAddress(f) ==
    [link    |-> IF f.link = "" THEN None ELSE f.link,
     address |-> [street |-> f.street, city |-> f.city]]

\* toBody: empty links are left out, and so is an address without a line.
ToBody(f) ==
    [link    |-> IF f.link = "" THEN None ELSE f.link,
     address |-> IF f.street = "" /\ f.city = "" THEN None
                 ELSE [street |-> f.street, city |-> f.city]]

\* The record is loaded into the fields, over what was typed meanwhile.
ShowProfile(i, how) ==
    LET c == calls[i] IN
    /\ page = "profile" /\ i = 0 /\ how \in Ends(i)
    /\ IF how = "loaded"
       THEN form' = FromResponse(c.got) /\ formRev' = c.gotRev
       ELSE UNCHANGED <<form, formRev>>
    /\ calls' = Restrict(calls, DOMAIN calls \ {i})
    /\ UNCHANGED <<page, token, status, ticking, armed, presses, db, rev, crop, known, setup,
                   step, session, waiting>>

Edit(f) ==
    /\ page = "profile" /\ MayPress
    /\ form' = f /\ formRev' = 0
    /\ UNCHANGED <<ui, crop, known, setup, step, session, waiting>>

\* save: also before the record is there, when the fields are empty.
SaveProfile ==
    /\ page = "profile"
    /\ Run("profile", Page, "sent", [body |-> ToBody(form), of |-> formRev])
    /\ UNCHANGED forms

-----------------------------------------------------------------------------
(* The portrait.                                                            *)

Crop  == 0 .. FocusMax
Start == FocusMax \div 2

\* Variant: the focus is moved as far as the pointer says.
ShiftedFreely(c, by) == c + by

\* shifted: the focus stays on the image.
Shifted(c, by) == IF c + by < 0 THEN 0 ELSE IF c + by > FocusMax THEN FocusMax ELSE c + by

\* Arrow keys and the pointer move the focus.
Adjust ==
    /\ page = "profile" /\ crop # None /\ MayPress
    /\ \E by \in (0 - FocusMax) .. FocusMax : crop' = Shifted(crop, by)
    /\ UNCHANGED <<ui, form, formRev, known, setup, step, session, waiting>>

SaveCrop ==
    /\ page = "profile" /\ crop # None
    /\ Run("crop", Page, "csrf", crop)
    /\ UNCHANGED forms

UploadPortrait ==
    /\ page = "profile"
    /\ Run("uploadPortrait", Page, "csrf", 0)
    /\ UNCHANGED forms

\* The crop is loaded; there is none before the first upload. CropControls is
\* there as long as there is one: when the answer is from before an upload that
\* has brought it, the controls go with their message and their timer.
ShowPortrait(i, how) ==
    LET c       == calls[i]
        gone(k) == k.what = "crop" /\ crop' = None
    IN /\ page = "profile" /\ i = Second /\ how \in Ends(i)
       /\ crop' = IF how = "loaded" THEN c.got ELSE crop
       /\ status' = Restrict(status, {k \in DOMAIN status : ~gone(k)})
       /\ ticking' = {t \in ticking : ~gone(t.key)}
       /\ calls' = [j \in DOMAIN calls \ {i} |->
                        [calls[j] EXCEPT !.there = @ /\ ~gone(Key(calls[j]))]]
       /\ UNCHANGED <<page, token, armed, presses, db, rev, form, formRev, known, setup, step,
                      session, waiting>>

-----------------------------------------------------------------------------
(* The CV and the second factor.                                            *)

UploadCv ==
    /\ page = "cv"
    /\ Run("uploadCv", Page, "csrf", 0)
    /\ UNCHANGED forms

\* loadStatus: what is not answered with data is taken for "no", except that a
\* CV page that got no answer at all keeps what it knows. An upload waits for it.
ShowKnown(i, how) ==
    LET c == calls[i] IN
    /\ page \in {"cv", "security"} /\ how \in Ends(i)
    /\ known' = CASE how = "loaded" -> c.got
                  [] how = "failed" /\ page = "cv" -> known
                  [] OTHER -> "no"
    /\ IF c.what = "load"
       THEN Stuck(i)
       ELSE End(i, "success")
    /\ UNCHANGED <<page, token, presses, db, rev, form, formRev, crop, setup, step, session,
                   waiting>>

\* Variant: the factor can be set up before its status is known.
StartSetupEarly ==
    /\ page = "security"
    /\ known # "yes" /\ ~setup /\ token
    /\ Run("setup", Page, "sent", 0)
    /\ UNCHANGED forms

StartSetup ==
    /\ page = "security"
    /\ known = "no" /\ ~setup /\ token
    /\ Run("setup", Page, "sent", 0)
    /\ UNCHANGED forms

ConfirmCode ==
    /\ page = "security"
    /\ setup /\ token
    /\ Run("confirm", Page, "sent", 0)
    /\ UNCHANGED forms

-----------------------------------------------------------------------------
(* Sign-in and logout.                                                      *)

\* The password, or the code of the second step.
SignIn ==
    /\ page = "login"
    /\ Run("login", Page, "sent", step)
    /\ UNCHANGED forms

\* LogoutButton: first the logout through authentik, with a token, then, unless
\* that worked, the one of the password login. The button is never pending.
Logout ==
    /\ page \in AdminPages
    /\ Count
    /\ calls' = Put(calls, presses + 1, Call("logout", Page, "csrf", "authentik"))
    /\ UNCHANGED <<page, token, status, ticking, armed, db, rev>> /\ UNCHANGED forms

\* The password logout follows when there is no token, or authentik says no.
LogoutHere(i) ==
    /\ calls[i].what = "logout" /\ calls[i].data = "authentik"
    /\ calls[i].at \in {"csrf", "sent"}
    /\ calls' = [calls EXCEPT ![i].at = "sent", ![i].data = "password"]
    /\ UNCHANGED <<page, token, status, ticking, armed, presses, db, rev>> /\ UNCHANGED forms

\* The forms of a page that has just been mounted.
MountedForms ==
    /\ form' = Empty /\ formRev' = 0
    /\ crop' = None
    /\ known' = "unknown"
    /\ setup' = FALSE
    /\ step' = "password"
    /\ UNCHANGED <<session, waiting>>

\* The client has the answer of the backend to a write of a form.
AnsweredForm(i) ==
    LET c == calls[i] IN
    /\ c.at = "done" /\ c.what \in {"profile", "crop", "uploadPortrait", "setup", "confirm"}
    /\ End(i, "success")
    /\ crop' = IF c.what = "uploadPortrait" THEN Start ELSE crop
    /\ setup' = IF c.what = "setup" THEN TRUE ELSE IF c.what = "confirm" THEN FALSE ELSE setup
    /\ known' = IF c.what = "confirm" THEN "yes" ELSE known
    /\ UNCHANGED <<page, token, presses, db, rev, form, formRev, step, session, waiting>>

\* An upload of the CV asks for the status before it reports.
AnsweredCv(i) ==
    /\ calls[i].at = "done" /\ calls[i].what = "uploadCv"
    /\ calls' = [calls EXCEPT ![i].at = "loading"]
    /\ UNCHANGED <<page, token, status, ticking, armed, presses, db, rev>> /\ UNCHANGED forms

\* The sign-in has an answer: its button is free again, without a message, before
\* the body is read and before the overview is there.
AnsweredLogin(i) ==
    /\ calls[i].at = "done" /\ calls[i].what = "login"
    /\ status' = Restrict(status, DOMAIN status \ {Key(calls[i])})
    /\ calls' = [calls EXCEPT ![i].at = "released", ![i].there = FALSE]
    /\ UNCHANGED <<page, token, ticking, armed, presses, db, rev>> /\ UNCHANGED forms

\* The form asks for the code when the backend does.
AskForCode(i) ==
    /\ calls[i].at = "released" /\ calls[i].what = "login" /\ calls[i].got = "code"
    /\ step' = "code"
    /\ Stuck(i)
    /\ UNCHANGED <<page, token, presses, db, rev, form, formRev, crop, known, setup, session,
                   waiting>>

=============================================================================
