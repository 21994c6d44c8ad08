----------------------------- MODULE FieldPhone -----------------------------
(***************************************************************************)
(* A collector's phone in front of the server: the button of the work      *)
(* banner, which starts and ends the shift (WorkCubit.toggle), and the     *)
(* form of a field visit (VisitFormPage), each behind a page that checks   *)
(* the face.  A tap acts on the frame last drawn; a handler then awaits    *)
(* the enrolment, the face page, the location and the call, while others   *)
(* may run.  A call the phone gives up on, after its timeout, may still    *)
(* reach the server.                                                       *)
(*                                                                         *)
(* The server's side of a call is one step; what it does when calls meet   *)
(* there is in Shifts and Collections.  There is one collector with one    *)
(* phone, and what a visit says is left out: only how often it is stored.  *)
(***************************************************************************)
EXTENDS Naturals, Sequences

CONSTANTS
    Taps,      \* handlers that may run at a time, the bound on concurrency
    MaxForms,  \* bound: visit forms opened
    MaxVisits  \* bound: visits stored from one form

VARIABLES
    shift,    \* server: the collector has an open shift
    visits,   \* server: visits stored from each form
    wire,     \* calls given up on that may still arrive
    ui,       \* the state of the banner and of the form
    shown,    \* that state as the last frame drew it
    opened,   \* the forms opened so far; the last one may be on screen
    onForm,   \* whether it is
    faces,    \* the face pages above it, by the handler that waits for each
    run,      \* the handlers in flight
    saved,    \* ghost: forms that closed as saved
    doubt     \* ghost: what calls given up on, second taps, leaving or a wrong pop touched

vars == <<shift, visits, wire, ui, shown, opened, onForm, faces, run, saved, doubt>>

-----------------------------------------------------------------------------
Forms == 1..MaxForms
Shift == 0
Things == {Shift} \cup Forms
Quiet == [busy |-> FALSE, active |-> FALSE, submitting |-> FALSE]
Idle  == [pc |-> "idle", on |-> Shift, face |-> FALSE, quick |-> FALSE, done |-> FALSE]

Calls == [op : {"start", "end"}, on : {Shift}] \cup [op : {"save"}, on : Forms]

Init ==
    /\ shift = FALSE /\ visits = [f \in Forms |-> 0] /\ wire = {}
    /\ ui = Quiet /\ shown = Quiet
    /\ opened = 0 /\ onForm = FALSE /\ faces = <<>>
    /\ run = [h \in Taps |-> Idle]
    /\ saved = {} /\ doubt = {}

At(h, pc)  == run[h].pc = pc
Busy(x)    == {h \in Taps : run[h].pc # "idle" /\ run[h].on = x}
Sent(h)    == run[h].pc \in {"start", "end", "save"}
Mounted(f) == onForm /\ f = opened
Top        == faces[Len(faces)]
Popped     == SubSeq(faces, 1, Len(faces) - 1)

\* The busy flag of a handler's button; a form that is gone has none.
Working(x, yes) == IF x = Shift THEN [ui EXCEPT !.busy = yes]
                   ELSE IF Mounted(x) THEN [ui EXCEPT !.submitting = yes] ELSE ui

\* A frame is drawn.
Render ==
    /\ shown # ui
    /\ shown' = ui
    /\ UNCHANGED <<shift, visits, wire, ui, opened, onForm, faces, run, saved, doubt>>

-----------------------------------------------------------------------------
(* Taps.  A handler is quick when the frame tapped on is out of date, when *)
(* its button is tapped again while it runs, or any other while its face   *)
(* page is not up yet.                                                     *)
Tap(h, x, pc) ==
    /\ At(h, "idle")
    /\ run' = [o \in Taps |-> IF o = h THEN [Idle EXCEPT !.pc = pc, !.on = x,
                                                    !.quick = Busy(x) # {} \/ shown # ui]
                              ELSE IF o \in Busy(x) \/ At(o, "enrolled") THEN [run[o] EXCEPT !.quick = TRUE]
                              ELSE run[o]]
    /\ doubt' = IF Busy(x) # {} THEN doubt \cup {x} ELSE doubt
    /\ UNCHANGED <<shift, visits, wire, shown, opened, onForm, faces, saved>>

\* Slip: the shift starts without the face page.
TapShiftUngated(h) ==
    /\ ~onForm /\ faces = <<>> /\ ~shown.busy
    /\ Tap(h, Shift, "locate")
    /\ ui' = [ui EXCEPT !.busy = TRUE]

\* _onToggle: ending is not gated and goes on to toggle at once.
TapShift(h) ==
    /\ ~onForm /\ faces = <<>> /\ ~shown.busy
    /\ Tap(h, Shift, IF shown.active THEN "locate" ELSE "enrolled")
    /\ ui' = IF shown.active THEN [ui EXCEPT !.busy = TRUE] ELSE ui

TapSubmit(h) ==
    /\ onForm /\ faces = <<>> /\ ~shown.submitting
    /\ Tap(h, opened, "enrolled")
    /\ UNCHANGED ui

OpenForm ==
    /\ ~onForm /\ faces = <<>> /\ opened < MaxForms
    /\ opened' = opened + 1 /\ onForm' = TRUE
    /\ ui' = [ui EXCEPT !.submitting = FALSE] /\ shown' = [shown EXCEPT !.submitting = FALSE]
    /\ UNCHANGED <<shift, visits, wire, faces, run, saved, doubt>>

LeaveForm ==
    /\ onForm /\ faces = <<>>
    /\ onForm' = FALSE
    /\ doubt' = IF Busy(opened) # {} THEN doubt \cup {opened} ELSE doubt
    /\ UNCHANGED <<shift, visits, wire, ui, shown, opened, faces, run, saved>>

-----------------------------------------------------------------------------
(* The face page, pushed once the enrolment is known.                      *)
OpenFace(h) ==
    /\ At(h, "enrolled")
    /\ IF run[h].on = Shift \/ Mounted(run[h].on)
       THEN faces' = Append(faces, h) /\ run' = [run EXCEPT ![h].pc = "face"]
       ELSE run' = [run EXCEPT ![h] = Idle] /\ UNCHANGED faces
    /\ UNCHANGED <<shift, visits, wire, ui, shown, opened, onForm, saved, doubt>>

\* What a handler does when its page has answered true.
Goes(h, face) == [run[h] EXCEPT !.pc = IF run[h].on = Shift THEN "locate" ELSE "save", !.face = face]

FacePass(h) ==
    /\ At(h, "face") /\ Top = h
    /\ faces' = Popped
    /\ run' = [run EXCEPT ![h] = Goes(h, TRUE)]
    /\ ui' = Working(run[h].on, TRUE)
    /\ UNCHANGED <<shift, visits, wire, shown, opened, onForm, saved, doubt>>

FaceRefuse(h) ==
    /\ At(h, "face") /\ Top = h
    /\ faces' = Popped
    /\ run' = [run EXCEPT ![h] = Idle]
    /\ UNCHANGED <<shift, visits, wire, ui, shown, opened, onForm, saved, doubt>>

\* toggle decides after the location has come.
Locate(h) ==
    /\ At(h, "locate")
    /\ run' = [run EXCEPT ![h].pc = IF ui.active THEN "end" ELSE "start"]
    /\ UNCHANGED <<shift, visits, wire, ui, shown, opened, onForm, faces, saved, doubt>>

-----------------------------------------------------------------------------
(* Calls.  Starting an open shift and ending none change nothing.  The     *)
(* server's answer takes longer than a frame.                              *)
Serve(op, f) ==
    /\ shift'  = IF op = "save" THEN shift ELSE op = "start"
    /\ visits' = IF op = "save" THEN [visits EXCEPT ![f] = @ + 1] ELSE visits
    /\ op = "save" => visits[f] < MaxVisits

\* A call on the shift alone, with nothing on the wire, ends the doubt on it.
Served(h) ==
    /\ Sent(h) /\ ~run[h].done /\ shown = ui
    /\ Serve(run[h].pc, run[h].on)
    /\ run' = [run EXCEPT ![h].done = TRUE]
    /\ doubt' = IF Busy(Shift) = {h} /\ \A c \in wire : c.on # Shift THEN doubt \ {Shift} ELSE doubt
    /\ UNCHANGED <<wire, ui, shown, opened, onForm, faces, saved>>

ToggleAnswer(h) ==
    /\ run[h].pc \in {"start", "end"} /\ run[h].done
    /\ ui' = [ui EXCEPT !.busy = FALSE, !.active = At(h, "start")]
    /\ run' = [run EXCEPT ![h] = Idle]
    /\ UNCHANGED <<shift, visits, wire, shown, opened, onForm, faces, saved, doubt>>

\* A saved visit pops the page on top: the form, or a face page above it,
\* which answers true to the handler that waits for it.
VisitAnswer(h) ==
    LET f == run[h].on IN
    /\ At(h, "save") /\ run[h].done
    /\ IF Mounted(f) /\ faces # <<>>
       THEN /\ faces' = Popped
            /\ run' = [run EXCEPT ![h] = Idle, ![Top] = Goes(Top, FALSE)]
            /\ ui' = IF run[Top].on = f THEN Working(f, TRUE)
                     ELSE [ui EXCEPT !.submitting = FALSE, !.busy = TRUE]
            /\ doubt' = doubt \cup {f}
            /\ UNCHANGED <<onForm, saved>>
       ELSE /\ run' = [run EXCEPT ![h] = Idle]
            /\ ui' = Working(f, FALSE)
            /\ onForm' = (onForm /\ ~Mounted(f))
            /\ saved' = IF Mounted(f) THEN saved \cup {f} ELSE saved
            /\ UNCHANGED <<faces, doubt>>
    /\ UNCHANGED <<shift, visits, wire, shown, opened>>

\* Slip: the banner turned over before the call, and stays so when it fails.
UiAfterFailureTurned(h) ==
    IF run[h].on = Shift THEN [ui EXCEPT !.busy = FALSE, !.active = At(h, "start")]
    ELSE Working(run[h].on, FALSE)

UiAfterFailure(h) == Working(run[h].on, FALSE)

\* The call fails or times out: refused, answered in vain, or still on its way.
GiveUp(h) ==
    LET call == [op |-> run[h].pc, on |-> run[h].on] IN
    /\ Sent(h)
    /\ wire' \in IF run[h].done THEN {wire} ELSE {wire, wire \cup {call}}
    /\ doubt' = IF run[h].done \/ wire' # wire THEN doubt \cup {run[h].on} ELSE doubt
    /\ run' = [run EXCEPT ![h] = Idle]
    /\ ui' = UiAfterFailure(h)
    /\ UNCHANGED <<shift, visits, shown, opened, onForm, faces, saved>>

Arrive ==
    \E c \in wire :
       /\ Serve(c.op, c.on)
       /\ wire' = wire \ {c}
       /\ UNCHANGED <<ui, shown, opened, onForm, faces, run, saved, doubt>>

\* The app is closed and opened again: load asks for the open shift; when it
\* fails the banner says there is none.
Restart ==
    /\ \E answered \in BOOLEAN, late \in SUBSET {h \in Taps : Sent(h) /\ ~run[h].done} :
          /\ wire' = wire \cup {[op |-> run[h].pc, on |-> run[h].on] : h \in late}
          /\ ui' = [Quiet EXCEPT !.active = answered /\ shift]
          /\ doubt' = doubt \cup {run[h].on : h \in {o \in Taps : Sent(o)}}
                            \cup (IF answered THEN {} ELSE {Shift})
    /\ shown' = ui'
    /\ onForm' = FALSE /\ faces' = <<>>
    /\ run' = [h \in Taps |-> Idle]
    /\ UNCHANGED <<shift, visits, opened, saved>>

Next ==
    \/ Render \/ OpenForm \/ LeaveForm \/ Arrive \/ Restart
    \/ \E h \in Taps :
          \/ TapShift(h) \/ TapSubmit(h) \/ OpenFace(h) \/ FacePass(h) \/ FaceRefuse(h)
          \/ Locate(h) \/ Served(h) \/ ToggleAnswer(h) \/ VisitAnswer(h) \/ GiveUp(h)

Spec == Init /\ [][Next]_vars

-----------------------------------------------------------------------------
(* State and slots stay in their domains.                                  *)
TypeOK ==
    /\ {shift, onForm} \subseteq BOOLEAN
    /\ visits \in [Forms -> 0..MaxVisits] /\ wire \subseteq Calls
    /\ {ui, shown} \subseteq [busy : BOOLEAN, active : BOOLEAN, submitting : BOOLEAN]
    /\ opened \in 0..MaxForms /\ (onForm => opened # 0)
    /\ faces \in Seq(Taps) /\ \A h \in Taps : At(h, "face") <=> \E i \in DOMAIN faces : faces[i] = h
    /\ run \in [Taps -> [pc : {"idle", "enrolled", "face", "locate", "start", "end", "save"}, on : Things,
                         face : BOOLEAN, quick : BOOLEAN, done : BOOLEAN]]
    /\ saved \subseteq Forms /\ doubt \subseteq Things

(* A shift starts, and a visit is saved, only after the face has been      *)
(* checked (the comments of _onToggle and _submit), whatever is lost or    *)
(* left in between, unless its button was tapped on a frame out of date,   *)
(* or again before it was drawn busy, or another before its face page.     *)
FaceBefore ==
    \A h \in Taps : run[h].pc \in {"start", "save"} => run[h].face \/ run[h].quick

(* The phone tells the truth: the banner shows the shift the server has,   *)
(* a form that closed as saved is stored, and only once, and any other is  *)
(* not, unless a call was given up on and took effect, a button tapped     *)
(* twice, the form left while it saved, or kept because the answer popped  *)
(* a face page instead, since.                                             *)
PhoneTellsTruth ==
    /\ Busy(Shift) = {} /\ Shift \notin doubt => ui.active = shift
    /\ \A f \in Forms : /\ f \in saved => visits[f] >= 1
                        /\ Busy(f) = {} /\ f \notin doubt => visits[f] = IF f \in saved THEN 1 ELSE 0
=============================================================================
