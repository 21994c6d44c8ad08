------------------------ MODULE OfficeScreensProofs -------------------------
(***************************************************************************)
(* Proofs about the components with which people sit in front of a screen, *)
(* laid out like those of OfficeProofs: the collector's phone, the wizard, *)
(* its submit gate, and the score the office is shown.  They hold for any  *)
(* number of handlers, forms, drafts, edits and sums.  The last section is *)
(* about the office as a whole: it runs each component as its own module   *)
(* specifies it, and all their types are kept.                             *)
(***************************************************************************)
EXTENDS OfficeProofs, OfficeRecordsProofs, CollectionsProofs

-----------------------------------------------------------------------------
(* FieldPhone.                                                             *)
\* A step of the office is one of the phone, or leaves it alone.
LEMMA PhoneSteps ==
    ASSUME [OfficeNext]_officeVars
    PROVE  part' = part /\ (part = "phone" => [Phone!Next]_hVars)
  <1>1. CASE UNCHANGED officeVars
    BY <1>1 DEF officeVars, hVars
  <1>2. CASE OfficeNext
    BY <1>2 DEF OfficeNext, IdleBut, hVars
  <1> QED BY <1>1, <1>2

\* What FieldPhone!TypeOK says of a handler and of the state on screen.
TapPcs   == {"idle", "enrolled", "face", "locate", "start", "end", "save"}
TapSlots == [pc : TapPcs, on : Phone!Things, face : BOOLEAN, quick : BOOLEAN, done : BOOLEAN]
Screens  == [busy : BOOLEAN, active : BOOLEAN, submitting : BOOLEAN]

Alive(h) == hRun[h].pc # "idle"

\* A handler past the location is about the shift, one that saves about a form.
Aimed(q) ==
    /\ q.pc \in {"locate", "start", "end"} => q.on = 0
    /\ q.pc = "save" => q.on # 0
    /\ q.done => q.pc \in {"start", "end", "save"}
    /\ q.on <= hOpened

\* The face pages on screen are those of the handlers that wait for one.
FacesInv ==
    /\ hFaces \in Seq(Requests)
    /\ \A i, j \in DOMAIN hFaces : hFaces[i] = hFaces[j] => i = j
    /\ \A i \in DOMAIN hFaces : hRun[hFaces[i]].pc = "face"
    /\ \A h \in Requests : hRun[h].pc = "face" => \E i \in DOMAIN hFaces : hFaces[i] = h

HandlersInv ==
    /\ hRun \in [Requests -> TapSlots]
    /\ hUi \in Screens
    /\ hOpened \in 0..MaxForms /\ (hOnForm => hOpened # 0)
    /\ \A h \in Requests : Aimed(hRun[h])
    /\ FacesInv

\* Fields of a slot that one field is stored in.
LEMMA TapStored ==
    ASSUME NEW q \in TapSlots
    PROVE  /\ \A p \in TapPcs : LET x == [q EXCEPT !.pc = p] IN
                 /\ x \in TapSlots /\ x.pc = p /\ x.on = q.on
                 /\ x.face = q.face /\ x.quick = q.quick /\ x.done = q.done
           /\ LET x == [q EXCEPT !.quick = TRUE] IN
                 /\ x \in TapSlots /\ x.pc = q.pc /\ x.on = q.on
                 /\ x.face = q.face /\ x.quick = TRUE /\ x.done = q.done
           /\ LET x == [q EXCEPT !.done = TRUE] IN
                 /\ x \in TapSlots /\ x.pc = q.pc /\ x.on = q.on
                 /\ x.face = q.face /\ x.quick = q.quick /\ x.done = TRUE
  BY Zenon DEF TapSlots

LEMMA IdleTap ==
    /\ Phone!Idle \in TapSlots /\ Phone!Idle.pc = "idle" /\ Phone!Idle.on = 0
    /\ Phone!Idle.face = FALSE /\ Phone!Idle.quick = FALSE /\ Phone!Idle.done = FALSE
  BY DEF Phone!Idle, TapSlots, TapPcs, Phone!Things, Phone!Shift

LEMMA PhoneInit ==
    ASSUME Phone!Init PROVE HandlersInv
  <1>1. hRun \in [Requests -> TapSlots] /\ \A h \in Requests : hRun[h] = Phone!Idle
    BY IdleTap DEF Phone!Init
  <1>2. hUi \in Screens
    BY Zenon DEF Phone!Init, Phone!Quiet, Screens
  <1>3. hOpened = 0 /\ ~hOnForm /\ hFaces = <<>>
    BY DEF Phone!Init
  <1>4. \A h \in Requests : Aimed(hRun[h])
    BY <1>1, <1>3, IdleTap DEF Aimed
  <1> QED
    BY <1>1, <1>2, <1>3, <1>4, IdleTap, FormsAssumption DEF HandlersInv, FacesInv

\* Two handlers of one button are both quick.
Crowded ==
    \A g, h \in Requests : g # h /\ Alive(g) /\ Alive(h) /\ hRun[g].on = hRun[h].on => hRun[g].quick

\* So is one of the shift that still waits for its page under a form that saves.
Aside ==
    \A g, h \in Requests : /\ hOnForm /\ Alive(h) /\ hRun[h].on = hOpened
                           /\ hRun[g].on = 0 /\ hRun[g].pc \in {"enrolled", "face"}
                           => hRun[g].quick

\* A face page of a form is above that form; a handler that did without it ends
\* the shift; and one that is about to start or to save has been through it.
Gated(q) ==
    /\ q.pc = "face" /\ q.on # 0 => hOnForm /\ q.on = hOpened
    /\ q.pc = "locate" => q.face \/ q.quick \/ hUi.active
    /\ q.pc \in {"start", "save"} => q.face \/ q.quick

TapInv == HandlersInv /\ Crowded /\ Aside /\ \A h \in Requests : Gated(hRun[h])

\* What a step of one handler leaves as it was.
LEMMA OneTap ==
    ASSUME TapInv, NEW h \in Requests, NEW w \in TapSlots,
           hRun' = [hRun EXCEPT ![h] = w],
           w.pc # "idle" => /\ Alive(h) /\ w.on = hRun[h].on /\ (hRun[h].quick => w.quick)
                            /\ (w.pc \in {"enrolled", "face"} => hRun[h].pc \in {"enrolled", "face"}),
           Aimed(w), w.pc \in {"start", "save"} => w.face \/ w.quick,
           w.pc = "face" /\ w.on # 0 => hOnForm' /\ w.on = hOpened,
           w.pc = "locate" => w.face \/ w.quick \/ hUi'.active,
           hUi' \in Screens, hUi'.active = hUi.active \/ (Alive(h) /\ hRun[h].on = 0),
           hOpened' = hOpened, hOnForm' => hOnForm,
           hOnForm /\ ~hOnForm' => \A o \in Requests \ {h} : hRun[o].pc # "face",
           FacesInv'
    PROVE  TapInv'
  <1>1. hRun' \in [Requests -> TapSlots] /\ hRun'[h] = w /\ \A o \in Requests \ {h} : hRun'[o] = hRun[o]
    BY DEF TapInv, HandlersInv
  <1>2. \A o \in Requests : Aimed(hRun[o])'
    BY <1>1 DEF TapInv, HandlersInv, Aimed
  <1>3. HandlersInv'
    BY <1>1, <1>2 DEF TapInv, HandlersInv
  <1>4. ASSUME NEW g \in Requests, NEW o \in Requests, g # o, Alive(g)', Alive(o)', hRun'[g].on = hRun'[o].on
        PROVE  hRun'[g].quick
    <2>1. Alive(g) /\ Alive(o) /\ hRun[g].on = hRun[o].on
      BY <1>1, <1>4 DEF Alive
    <2>2. hRun[g].quick
      BY <1>4, <2>1 DEF TapInv, Crowded
    <2> QED BY <1>1, <1>4, <2>2 DEF Alive
  <1>7. Crowded'
    BY <1>4 DEF Crowded
  <1>5. Aside'
    BY <1>1 DEF TapInv, Aside, Alive
  <1>6. ASSUME NEW o \in Requests PROVE Gated(hRun[o])'
    <2>1. CASE o = h
      BY <1>1, <2>1 DEF Gated
    <2>2. CASE o # h
      <3>1. Gated(hRun[o])
        BY DEF TapInv
      <3>2. hRun[o].pc = "locate" => hRun[o].quick \/ hUi'.active = hUi.active
        BY <2>2 DEF TapInv, HandlersInv, Crowded, Alive, Aimed
      <3> QED BY <1>1, <2>2, <3>1, <3>2 DEF Gated
    <2> QED BY <2>1, <2>2
  <1> QED BY <1>3, <1>5, <1>6, <1>7 DEF TapInv

LEMMA ButLast ==
    ASSUME NEW S, NEW s \in Seq(S), s # <<>>
    PROVE  /\ Len(s) \in Nat /\ Len(s) # 0
           /\ SubSeq(s, 1, Len(s) - 1) \in Seq(S) /\ Len(SubSeq(s, 1, Len(s) - 1)) = Len(s) - 1
           /\ \A i \in 1..(Len(s) - 1) : SubSeq(s, 1, Len(s) - 1)[i] = s[i]
  <1>1. Len(s) \in Nat /\ Len(s) # 0
    OBVIOUS
  <1>2. PICK n \in Nat : n = Len(s) - 1
    BY <1>1
  <1>3. SubSeq(s, 1, n) \in Seq(S) /\ Len(SubSeq(s, 1, n)) = n /\ \A i \in 1..n : SubSeq(s, 1, n)[i] = s[i]
    BY <1>1, <1>2
  <1> QED BY <1>1, <1>2, <1>3

\* The face pages after the top one is gone.
LEMMA PagePops ==
    ASSUME HandlersInv, hFaces # <<>>, hFaces' = Phone!Popped, hRun' \in [Requests -> TapSlots],
           \A o \in Requests : (hRun'[o].pc = "face") = (hRun[o].pc = "face" /\ o # Phone!Top)
    PROVE  FacesInv'
  <1>1. /\ Len(hFaces) \in Nat /\ Len(hFaces) # 0 /\ hFaces' \in Seq(Requests) /\ Len(hFaces') = Len(hFaces) - 1
        /\ \A i \in 1..(Len(hFaces) - 1) : hFaces'[i] = hFaces[i]
    <2>1. hFaces \in Seq(Requests) /\ hFaces # <<>> /\ hFaces' = SubSeq(hFaces, 1, Len(hFaces) - 1)
      BY DEF HandlersInv, FacesInv, Phone!Popped
    <2> QED BY <2>1, ButLast
  <1>2. DOMAIN hFaces = 1..Len(hFaces) /\ DOMAIN hFaces' = 1..(Len(hFaces) - 1)
    BY <1>1 DEF HandlersInv, FacesInv
  <1>3. \A i \in DOMAIN hFaces' : hFaces[i] \in Requests /\ hFaces'[i] = hFaces[i] /\ hFaces[i] # Phone!Top
    BY <1>1, <1>2 DEF HandlersInv, FacesInv, Phone!Top
  <1>4. \A i \in DOMAIN hFaces' : i \in DOMAIN hFaces
    BY <1>1, <1>2
  <1>5. \A i \in DOMAIN hFaces : hFaces[i] # Phone!Top => i \in DOMAIN hFaces'
    BY <1>1, <1>2 DEF Phone!Top
  <1>6. ASSUME NEW i \in DOMAIN hFaces', NEW j \in DOMAIN hFaces', hFaces'[i] = hFaces'[j] PROVE i = j
    BY <1>3, <1>4, <1>6 DEF HandlersInv, FacesInv
  <1>7. ASSUME NEW i \in DOMAIN hFaces' PROVE hRun'[hFaces'[i]].pc = "face"
    BY <1>3, <1>4 DEF HandlersInv, FacesInv
  <1>8. ASSUME NEW o \in Requests, hRun'[o].pc = "face" PROVE \E i \in DOMAIN hFaces' : hFaces'[i] = o
    <2>1. PICK i \in DOMAIN hFaces : hFaces[i] = o
      BY <1>8 DEF HandlersInv, FacesInv
    <2>2. i \in DOMAIN hFaces'
      BY <1>5, <1>8, <2>1
    <2> QED BY <1>3, <2>1, <2>2
  <1> QED BY <1>1, <1>6, <1>7, <1>8 DEF FacesInv

\* A step that leaves the pages, and who waits for one, as they were.
LEMMA PagesStay ==
    ASSUME HandlersInv, hFaces' = hFaces,
           \A o \in Requests : (hRun'[o].pc = "face") = (hRun[o].pc = "face")
    PROVE  FacesInv'
  <1>1. \A i \in DOMAIN hFaces : hFaces[i] \in Requests
    BY DEF HandlersInv, FacesInv
  <1> QED BY <1>1 DEF HandlersInv, FacesInv

\* A tap on a button: the idle handler takes its new slot, the others only get quick.
LEMMA TapTap ==
    ASSUME TapInv, NEW h \in Requests, NEW x \in Phone!Things, NEW p \in {"enrolled", "locate"},
           Phone!Tap(h, x, p), hFaces = <<>>, x <= hOpened,
           x # 0 => p = "enrolled" /\ hOnForm /\ x = hOpened, x = 0 => ~hOnForm,
           p = "locate" => hShown.active,
           hUi' \in Screens, hUi'.active = hUi.active
    PROVE  TapInv'
  <1>1. /\ hRun[h].pc = "idle"
        /\ UNCHANGED <<hOpened, hOnForm, hFaces>>
    BY DEF Phone!Tap, Phone!At
  <1>2. PICK b \in BOOLEAN : b = (Phone!Busy(x) # {} \/ hShown # hUi)
    BY Zenon
  <1>3. PICK w : w = [Phone!Idle EXCEPT !.pc = p, !.on = x, !.quick = b]
    OBVIOUS
  <1>4. w \in TapSlots /\ w.pc = p /\ w.on = x /\ w.face = FALSE /\ w.quick = b /\ w.done = FALSE
    BY <1>3, IdleTap, Zenon DEF TapSlots, TapPcs, Phone!Idle
  <1>5. hRun' = [o \in Requests |-> IF o = h THEN w
                                    ELSE IF o \in Phone!Busy(x) \/ hRun[o].pc = "enrolled"
                                         THEN [hRun[o] EXCEPT !.quick = TRUE] ELSE hRun[o]]
    BY <1>2, <1>3, Zenon DEF Phone!Tap, Phone!At
  <1>6. hRun'[h] = w
    BY <1>5
  <1>7. ASSUME NEW o \in Requests \ {h}
        PROVE  /\ hRun'[o] \in TapSlots /\ hRun'[o].pc = hRun[o].pc /\ hRun'[o].on = hRun[o].on
               /\ hRun'[o].face = hRun[o].face /\ hRun'[o].done = hRun[o].done
               /\ hRun[o].quick => hRun'[o].quick
               /\ (Alive(o) /\ hRun[o].on = x) \/ hRun[o].pc = "enrolled" => hRun'[o].quick
    <2>1. hRun[o] \in TapSlots
      BY DEF TapInv, HandlersInv
    <2>2. hRun'[o] = IF o \in Phone!Busy(x) \/ hRun[o].pc = "enrolled"
                     THEN [hRun[o] EXCEPT !.quick = TRUE] ELSE hRun[o]
      BY <1>5
    <2>3. Alive(o) /\ hRun[o].on = x => o \in Phone!Busy(x)
      BY DEF Alive, Phone!Busy
    <2>4. CASE o \in Phone!Busy(x) \/ hRun[o].pc = "enrolled"
      <3>1. hRun'[o] = [hRun[o] EXCEPT !.quick = TRUE]
        BY <2>2, <2>4
      <3> QED BY <2>1, <3>1, TapStored, ZenonT(60)
    <2>5. CASE ~(o \in Phone!Busy(x) \/ hRun[o].pc = "enrolled")
      <3>1. hRun'[o] = hRun[o]
        BY <2>2, <2>5
      <3> QED BY <2>1, <2>3, <2>5, <3>1, Zenon
    <2> QED BY <2>4, <2>5
  <1>8. hRun' \in [Requests -> TapSlots]
    BY <1>4, <1>5, <1>6, <1>7
  <1>9. FacesInv'
    <2>1. ASSUME NEW o \in Requests PROVE (hRun'[o].pc = "face") = (hRun[o].pc = "face")
      BY <1>1, <1>4, <1>6, <1>7
    <2> QED BY <1>1, <2>1, PagesStay DEF TapInv
  <1>10. ASSUME NEW o \in Requests PROVE Aimed(hRun[o])'
    BY <1>1, <1>4, <1>6, <1>7 DEF TapInv, HandlersInv, Aimed
  <1>11. HandlersInv'
    BY <1>1, <1>8, <1>9, <1>10 DEF TapInv, HandlersInv
  <1>12. ASSUME NEW g \in Requests, NEW o \in Requests, g # o, Alive(g)', Alive(o)', hRun'[g].on = hRun'[o].on
         PROVE  hRun'[g].quick
    <2>1. CASE g = h
      <3>1. o \in Phone!Busy(x)
        BY <1>4, <1>6, <1>7, <1>12, <2>1 DEF Alive, Phone!Busy
      <3> QED BY <1>2, <1>4, <1>6, <2>1, <3>1
    <2>2. CASE o = h
      BY <1>4, <1>6, <1>7, <1>12, <2>2 DEF Alive
    <2>3. CASE g # h /\ o # h
      <3>1. Alive(g) /\ Alive(o) /\ hRun[g].on = hRun[o].on
        BY <1>7, <1>12, <2>3 DEF Alive
      <3>2. hRun[g].quick
        BY <1>12, <3>1 DEF TapInv, Crowded
      <3> QED BY <1>7, <2>3, <3>2
    <2> QED BY <2>1, <2>2, <2>3
  <1>13. Crowded'
    BY <1>12 DEF Crowded
  <1>14. \A g \in Requests : hRun[g].pc # "face"
    BY DEF TapInv, HandlersInv, FacesInv
  <1>15. ASSUME hOnForm', NEW g \in Requests, hRun'[g].on = 0, hRun'[g].pc \in {"enrolled", "face"} PROVE hRun'[g].quick
    <2>1. g # h
      BY <1>1, <1>4, <1>6, <1>15
    <2> QED BY <1>7, <1>14, <1>15, <2>1
  <1>16. Aside'
    BY <1>15 DEF Aside
  <1>17. ASSUME NEW o \in Requests PROVE Gated(hRun[o])'
    <2>1. CASE o = h
      <3>1. w.pc = "locate" => w.quick \/ hUi'.active
        BY <1>2, <1>4
      <3> QED BY <1>4, <1>6, <2>1, <3>1 DEF Gated
    <2>2. CASE o # h
      <3>1. Gated(hRun[o])
        BY DEF TapInv
      <3> QED BY <1>1, <1>7, <1>14, <2>2, <3>1 DEF Gated
    <2> QED BY <2>1, <2>2
  <1> QED BY <1>11, <1>13, <1>16, <1>17 DEF TapInv

LEMMA TapWorks ==
    ASSUME HandlersInv, NEW x \in Phone!Things, NEW yes \in BOOLEAN
    PROVE  Phone!Working(x, yes) \in Screens /\ Phone!Working(x, yes).active = hUi.active
  BY Zenon DEF HandlersInv, Screens, Phone!Working

\* What a handler is after its page.
LEMMA TapGoes ==
    ASSUME NEW h \in Requests, hRun[h] \in TapSlots, NEW b \in BOOLEAN
    PROVE  LET w == Phone!Goes(h, b) IN
              /\ w \in TapSlots /\ w.pc = (IF hRun[h].on = 0 THEN "locate" ELSE "save")
              /\ w.on = hRun[h].on /\ w.face = b /\ w.quick = hRun[h].quick /\ w.done = hRun[h].done
  <1>1. PICK p \in TapPcs : p = IF hRun[h].on = 0 THEN "locate" ELSE "save"
    BY DEF TapPcs
  <1>2. Phone!Goes(h, b) = [hRun[h] EXCEPT !.pc = p, !.face = b]
    BY <1>1 DEF Phone!Goes, Phone!Shift
  <1> QED BY <1>1, <1>2, Zenon DEF TapSlots

LEMMA TapTypes ==
    ASSUME TapInv, NEW h \in Requests
    PROVE  /\ hRun[h] \in TapSlots /\ hRun[h].on \in Phone!Things /\ hRun[h].pc \in TapPcs
           /\ hRun[h].on \in Nat /\ Aimed(hRun[h]) /\ Gated(hRun[h])
           /\ (hRun[h].done \/ ~hRun[h].done)
  BY FormsAssumption DEF TapInv, HandlersInv, TapSlots, Phone!Things, Phone!Shift, Phone!Forms

\* The face page of a handler that waits is not under nothing.
LEMMA PagesHold ==
    ASSUME TapInv, NEW h \in Requests, hRun[h].pc = "face"
    PROVE  hFaces # <<>>
  BY DEF TapInv, HandlersInv, FacesInv

\* A handler that ends: nothing of it is left.
LEMMA TapEnds ==
    ASSUME TapInv, NEW h \in Requests, hRun' = [hRun EXCEPT ![h] = Phone!Idle], Alive(h),
           hUi' \in Screens, hUi'.active = hUi.active \/ hRun[h].on = 0,
           hOpened' = hOpened, hOnForm' => hOnForm,
           hOnForm /\ ~hOnForm' => hFaces = <<>>,
           FacesInv'
    PROVE  TapInv'
  <1>1. PICK w : w = Phone!Idle
    OBVIOUS
  <1>2. w \in TapSlots /\ w.pc = "idle" /\ w.on = 0 /\ w.done = FALSE
    BY <1>1, IdleTap
  <1>3. Aimed(w)
    BY <1>2 DEF Aimed, TapInv, HandlersInv
  <1>4. hOnForm /\ ~hOnForm' => \A o \in Requests \ {h} : hRun[o].pc # "face"
    BY PagesHold
  <1>5. hRun' = [hRun EXCEPT ![h] = w]
    BY <1>1
  <1> HIDE DEF TapInv
  <1> QED BY <1>2, <1>3, <1>4, <1>5, OneTap

\* The handlers of a step that changes one slot, by what becomes of its pages.
LEMMA PagesOne ==
    ASSUME TapInv, NEW h \in Requests, NEW w \in TapSlots, hRun' = [hRun EXCEPT ![h] = w],
           \/ hFaces' = hFaces /\ hRun[h].pc # "face" /\ w.pc # "face"
           \/ hFaces' = Phone!Popped /\ hRun[h].pc = "face" /\ Phone!Top = h /\ w.pc # "face"
    PROVE  FacesInv'
  <1>1. hRun' \in [Requests -> TapSlots] /\ hRun'[h] = w /\ \A o \in Requests \ {h} : hRun'[o] = hRun[o]
    BY DEF TapInv, HandlersInv
  <1>2. CASE hFaces' = hFaces /\ hRun[h].pc # "face" /\ w.pc # "face"
    BY <1>1, <1>2, PagesStay DEF TapInv
  <1>3. CASE hFaces' = Phone!Popped /\ hRun[h].pc = "face" /\ Phone!Top = h /\ w.pc # "face"
    <2>1. \A o \in Requests : (hRun'[o].pc = "face") = (hRun[o].pc = "face" /\ o # Phone!Top)
      BY <1>1, <1>3
    <2> QED BY <1>1, <1>3, <2>1, PagesHold, PagePops DEF TapInv
  <1> QED BY <1>2, <1>3

\* A saved visit that pops a face page wakes the handler that waits for it.
LEMMA TapWakes ==
    ASSUME TapInv, NEW h \in Requests, hRun[h].pc = "save", hOnForm, hRun[h].on = hOpened, hFaces # <<>>,
           NEW g, g = Phone!Top,
           hRun' = [hRun EXCEPT ![h] = Phone!Idle, ![g] = Phone!Goes(g, FALSE)],
           hFaces' = Phone!Popped, hUi' \in Screens, hUi'.active = hUi.active,
           UNCHANGED <<hOpened, hOnForm>>
    PROVE  TapInv'
  <1>1. g \in Requests /\ hRun[g].pc = "face"
    <2>1. Len(hFaces) \in DOMAIN hFaces /\ \A j \in DOMAIN hFaces : hFaces[j] \in Requests
      BY DEF TapInv, HandlersInv, FacesInv
    <2> QED BY <2>1 DEF TapInv, HandlersInv, FacesInv, Phone!Top
  <1>2. g # h
    BY <1>1
  <1>3. hRun[g].quick
    <2>1. CASE hRun[g].on = 0
      BY <1>1, <2>1 DEF TapInv, Aside, Alive
    <2>2. CASE hRun[g].on # 0
      <3>1. hRun[g].on = hOpened
        BY <1>1, <2>2 DEF TapInv, Gated
      <3> QED BY <1>1, <1>2, <3>1 DEF TapInv, Crowded, Alive
    <2> QED BY <2>1, <2>2
  <1>4. PICK w : w = Phone!Goes(g, FALSE)
    OBVIOUS
  <1>5. /\ w \in TapSlots /\ w.pc = (IF hRun[g].on = 0 THEN "locate" ELSE "save")
        /\ w.on = hRun[g].on /\ w.quick = hRun[g].quick /\ w.done = hRun[g].done
    BY <1>1, <1>4, TapGoes, TapTypes
  <1>6. PICK z : z = Phone!Idle
    OBVIOUS
  <1>7. z \in TapSlots /\ z.pc = "idle" /\ z.on = 0 /\ z.done = FALSE
    BY <1>6, IdleTap
  <1>8. /\ hRun' \in [Requests -> TapSlots] /\ hRun'[h] = z /\ hRun'[g] = w
        /\ \A o \in Requests \ {g, h} : hRun'[o] = hRun[o]
    BY <1>1, <1>2, <1>4, <1>5, <1>6, <1>7 DEF TapInv, HandlersInv
  <1>9. w.quick
    BY <1>3, <1>5
  <1>10. Aimed(w)
    BY <1>1, <1>5, TapTypes DEF Aimed
  <1>11. ASSUME NEW o \in Requests PROVE Aimed(hRun[o])'
    <2>1. Aimed(z)
      BY <1>7 DEF Aimed, TapInv, HandlersInv
    <2>2. PICK u : u = hRun'[o]
      OBVIOUS
    <2>3. Aimed(u)
      BY <1>8, <1>10, <2>1, <2>2, TapTypes
    <2> QED BY <2>2, <2>3 DEF Aimed
  <1>12. FacesInv'
    <2>1. \A o \in Requests : (hRun'[o].pc = "face") = (hRun[o].pc = "face" /\ o # Phone!Top)
      BY <1>1, <1>5, <1>7, <1>8
    <2> QED BY <1>8, <2>1, PagePops DEF TapInv
  <1>13. HandlersInv'
    BY <1>8, <1>11, <1>12 DEF TapInv, HandlersInv
  <1>14. ASSUME NEW o \in Requests, NEW e \in Requests, o # e, Alive(o)', Alive(e)', hRun'[o].on = hRun'[e].on
         PROVE  hRun'[o].quick
    <2>1. CASE o = g
      BY <1>8, <1>9, <2>1
    <2>2. CASE o # g
      <3>1. /\ o # h /\ e # h /\ hRun'[o] = hRun[o] /\ Alive(o) /\ Alive(e) /\ hRun[o].on = hRun[e].on
        BY <1>1, <1>5, <1>7, <1>8, <1>14, <2>2, ZenonT(60) DEF Alive
      <3>2. hRun[o].quick
        BY <1>14, <3>1 DEF TapInv, Crowded
      <3> QED BY <3>1, <3>2
    <2> QED BY <2>1, <2>2
  <1>15. Crowded'
    BY <1>14 DEF Crowded
  <1>16. ASSUME NEW o \in Requests, NEW e \in Requests, hOnForm', Alive(e)', hRun'[e].on = hOpened',
                hRun'[o].on = 0, hRun'[o].pc \in {"enrolled", "face"}
         PROVE  hRun'[o].quick
    <2>1. o # g /\ o # h /\ hRun'[o] = hRun[o]
      BY <1>5, <1>7, <1>8, <1>16, ZenonT(60)
    <2>2. Alive(h) /\ hRun[h].on = hOpened /\ hOnForm
      BY DEF Alive
    <2>3. hRun[o].quick
      BY <1>16, <2>1, <2>2 DEF TapInv, Aside
    <2> QED BY <2>1, <2>3
  <1>17. Aside'
    BY <1>16 DEF Aside
  <1>18. ASSUME NEW o \in Requests PROVE Gated(hRun[o])'
    <2>1. CASE o = h
      BY <1>7, <1>8, <2>1 DEF Gated
    <2>2. CASE o = g
      BY <1>5, <1>8, <1>9, <2>2 DEF Gated
    <2>3. CASE o # g /\ o # h
      BY <1>8, <2>3 DEF TapInv, Gated
    <2> QED BY <2>1, <2>2, <2>3
  <1> QED BY <1>13, <1>15, <1>17, <1>18 DEF TapInv

\* The phone is closed and opened again: no handler runs.
LEMMA TapRestart ==
    ASSUME TapInv, Phone!Restart
    PROVE  TapInv'
  <1>1. PICK b \in BOOLEAN : b = hUi'.active /\ hUi' = [Phone!Quiet EXCEPT !.active = b]
    <2>1. PICK b \in BOOLEAN : hUi' = [Phone!Quiet EXCEPT !.active = (b /\ hShift)]
      BY Zenon DEF Phone!Restart
    <2>2. PICK c \in BOOLEAN : c = (b /\ hShift)
      BY Zenon
    <2>3. hUi' = [Phone!Quiet EXCEPT !.active = c]
      BY <2>1, <2>2, Zenon
    <2>4. hUi'.active = c
      BY <2>3, Zenon DEF Phone!Quiet
    <2> QED BY <2>3, <2>4, Zenon
  <1>2. hUi' \in Screens
    BY <1>1, Zenon DEF Phone!Quiet, Screens
  <1>3. hRun' = [o \in Requests |-> Phone!Idle] /\ ~hOnForm' /\ hFaces' = <<>> /\ hOpened' = hOpened
    BY DEF Phone!Restart
  <1>4. hRun' \in [Requests -> TapSlots] /\ \A o \in Requests : hRun'[o].pc = "idle" /\ hRun'[o].on = 0 /\ ~hRun'[o].done
    BY <1>3, IdleTap
  <1>5. HandlersInv'
    BY <1>2, <1>3, <1>4 DEF TapInv, HandlersInv, FacesInv, Aimed
  <1> QED BY <1>3, <1>4, <1>5 DEF TapInv, Crowded, Aside, Gated, Alive

\* No handler moves; a form may be left with no page above it.
LEMMA TapStays ==
    ASSUME TapInv, UNCHANGED <<hUi, hOpened, hFaces, hRun>>,
           hOnForm' = hOnForm \/ (~hOnForm' /\ hFaces = <<>>)
    PROVE  TapInv'
  <1>1. FacesInv'
    BY PagesStay DEF TapInv
  <1>2. HandlersInv'
    <2>1. hOnForm' => hOpened # 0
      BY DEF TapInv, HandlersInv
    <2>2. ASSUME NEW o \in Requests PROVE Aimed(hRun[o])'
      BY DEF TapInv, HandlersInv, Aimed
    <2>3. hRun' \in [Requests -> TapSlots] /\ hUi' \in Screens /\ hOpened' \in 0..MaxForms
      BY Zenon DEF TapInv, HandlersInv
    <2> QED BY <1>1, <2>1, <2>2, <2>3 DEF HandlersInv
  <1>3. Crowded'
    BY DEF TapInv, Crowded, Alive
  <1>5. Aside'
    BY DEF TapInv, Aside, Alive
  <1>4. ASSUME NEW o \in Requests PROVE Gated(hRun[o])'
    <2>1. Gated(hRun[o])
      BY DEF TapInv
    <2>2. hFaces = <<>> => hRun[o].pc # "face"
      BY PagesHold
    <2> QED BY <2>1, <2>2, Zenon DEF Gated
  <1> QED BY <1>2, <1>3, <1>4, <1>5 DEF TapInv

LEMMA TapStep ==
    ASSUME TapInv, [Phone!Next]_hVars
    PROVE  TapInv'
  <1>1. CASE UNCHANGED hVars
    BY <1>1, TapStays DEF hVars
  <1>2. CASE Phone!Render \/ Phone!Arrive
    <2>1. UNCHANGED <<hUi, hOpened, hOnForm, hFaces, hRun>>
      BY <1>2 DEF Phone!Render, Phone!Arrive
    <2> QED BY <2>1, TapStays
  <1>3. CASE Phone!OpenForm
    <2>1. /\ ~hOnForm /\ hFaces = <<>> /\ hOpened < MaxForms /\ hOpened' = hOpened + 1 /\ hOnForm'
          /\ UNCHANGED <<hFaces, hRun>>
      BY <1>3 DEF Phone!OpenForm
    <2>2. hUi' \in Screens /\ hUi'.active = hUi.active
      BY <1>3, Zenon DEF Phone!OpenForm, TapInv, HandlersInv, Screens
    <2>3. \A o \in Requests : hRun[o].pc # "face"
      BY <2>1, PagesHold
    <2>4. \A o \in Requests : Aimed(hRun[o])' /\ hRun[o].on # hOpened'
      BY <2>1, FormsAssumption DEF TapInv, HandlersInv, Aimed, TapSlots, Phone!Things, Phone!Shift, Phone!Forms
    <2>5. HandlersInv'
      BY <2>1, <2>2, <2>4, FormsAssumption DEF TapInv, HandlersInv, FacesInv
    <2>6. Crowded' /\ Aside'
      BY <2>1, <2>4 DEF TapInv, Crowded, Aside, Alive
    <2>7. ASSUME NEW o \in Requests PROVE Gated(hRun[o])'
      BY <2>1, <2>2, <2>3 DEF TapInv, Gated
    <2> QED BY <2>5, <2>6, <2>7 DEF TapInv
  <1>4. CASE Phone!LeaveForm
    <2>1. hFaces = <<>> /\ ~hOnForm' /\ UNCHANGED <<hUi, hOpened, hFaces, hRun>>
      BY <1>4 DEF Phone!LeaveForm
    <2> QED BY <2>1, TapStays
  <1>5. CASE Phone!Restart
    BY <1>5, TapRestart
  <1>6. ASSUME NEW h \in Requests, Phone!TapShift(h) PROVE TapInv'
    <2>1. /\ ~hOnForm /\ hFaces = <<>>
          /\ Phone!Tap(h, 0, IF hShown.active THEN "locate" ELSE "enrolled")
          /\ hUi' = IF hShown.active THEN [hUi EXCEPT !.busy = TRUE] ELSE hUi
      BY <1>6 DEF Phone!TapShift, Phone!Shift
    <2>2. hUi' \in Screens /\ hUi'.active = hUi.active
      BY <2>1, Zenon DEF TapInv, HandlersInv, Screens
    <2>3. PICK p \in {"enrolled", "locate"} : p = IF hShown.active THEN "locate" ELSE "enrolled"
      OBVIOUS
    <2>4. 0 \in Phone!Things /\ 0 <= hOpened
      BY FormsAssumption DEF TapInv, HandlersInv, Phone!Things, Phone!Shift
    <2>5. Phone!Tap(h, 0, p)
      BY <2>1, <2>3
    <2>6. p = "locate" => hShown.active
      BY <2>3
    <2> QED BY <2>1, <2>2, <2>4, <2>5, <2>6, TapTap
  <1>7. ASSUME NEW h \in Requests, Phone!TapSubmit(h) PROVE TapInv'
    <2>1. hOnForm /\ hFaces = <<>> /\ Phone!Tap(h, hOpened, "enrolled") /\ hUi' = hUi
      BY <1>7 DEF Phone!TapSubmit
    <2>2. hOpened \in Phone!Things /\ hOpened # 0 /\ hOpened <= hOpened /\ hUi \in Screens
      BY <2>1, FormsAssumption DEF TapInv, HandlersInv, Phone!Things, Phone!Forms
    <2> QED BY <2>1, <2>2, TapTap
  <1>8. ASSUME NEW h \in Requests, Phone!OpenFace(h) PROVE TapInv'
    <2>1. hRun[h].pc = "enrolled" /\ UNCHANGED <<hUi, hOpened, hOnForm>> /\ hUi \in Screens
      BY <1>8 DEF Phone!OpenFace, Phone!At, TapInv, HandlersInv
    <2>2. CASE hRun[h].on = 0 \/ (hOnForm /\ hRun[h].on = hOpened)
      <3>1. hFaces' = Append(hFaces, h) /\ hRun' = [hRun EXCEPT ![h].pc = "face"]
        BY <1>8, <2>2 DEF Phone!OpenFace, Phone!Mounted, Phone!Shift
      <3>2. PICK w : w = [hRun[h] EXCEPT !.pc = "face"]
        OBVIOUS
      <3>3. /\ w \in TapSlots /\ w.pc = "face" /\ w.on = hRun[h].on
            /\ w.face = hRun[h].face /\ w.quick = hRun[h].quick /\ w.done = hRun[h].done
        <4>1. hRun[h] \in TapSlots
          BY TapTypes
        <4> QED BY <3>2, <4>1, Zenon DEF TapSlots, TapPcs
      <3>4. hRun' = [hRun EXCEPT ![h] = w]
        BY <3>1, <3>2, Zenon
      <3>5. hRun'[h] = w /\ \A o \in Requests \ {h} : hRun'[o] = hRun[o]
        BY <3>4 DEF TapInv, HandlersInv
      <3>6. FacesInv'
        <4>1. /\ hFaces \in Seq(Requests) /\ \A j \in DOMAIN hFaces : hFaces[j] \in Requests /\ hRun[hFaces[j]].pc = "face"
          BY DEF TapInv, HandlersInv, FacesInv
        <4>2. PICK n \in Nat : n = Len(hFaces) /\ DOMAIN hFaces = 1..n
          BY <4>1
        <4>3. /\ hFaces' \in Seq(Requests) /\ DOMAIN hFaces' = 1..(n + 1) /\ hFaces'[n + 1] = h
              /\ \A j \in 1..n : hFaces'[j] = hFaces[j]
          BY <3>1, <4>1, <4>2
        <4>4. \A j \in 1..n : hFaces'[j] # h /\ hRun'[hFaces'[j]].pc = "face"
          BY <2>1, <3>5, <4>1, <4>2, <4>3
        <4>5. ASSUME NEW j \in DOMAIN hFaces', NEW k \in DOMAIN hFaces', hFaces'[j] = hFaces'[k] PROVE j = k
          <5>1. (j \in 1..n \/ j = n + 1) /\ (k \in 1..n \/ k = n + 1)
            BY <4>3
          <5> QED BY <4>2, <4>3, <4>4, <4>5, <5>1 DEF TapInv, HandlersInv, FacesInv
        <4>6. ASSUME NEW j \in DOMAIN hFaces' PROVE hRun'[hFaces'[j]].pc = "face"
          BY <3>3, <3>5, <4>3, <4>4
        <4>7. ASSUME NEW o \in Requests, hRun'[o].pc = "face" PROVE \E j \in DOMAIN hFaces' : hFaces'[j] = o
          <5>1. CASE o = h
            BY <4>3, <5>1
          <5>2. CASE o # h
            <6>1. PICK j \in DOMAIN hFaces : hFaces[j] = o
              BY <3>5, <4>7, <5>2 DEF TapInv, HandlersInv, FacesInv
            <6> QED BY <4>2, <4>3, <6>1
          <5> QED BY <5>1, <5>2
        <4> QED BY <4>3, <4>5, <4>6, <4>7 DEF FacesInv
      <3>7. Aimed(w)
        BY <2>1, <3>3, TapTypes DEF Aimed
      <3>8. Alive(h) /\ (hRun[h].quick => w.quick) /\ (w.on # 0 => hOnForm' /\ w.on = hOpened)
        BY <2>1, <2>2, <3>3 DEF Alive
      <3> QED BY <2>1, <3>3, <3>4, <3>6, <3>7, <3>8, OneTap
    <2>3. CASE ~(hRun[h].on = 0 \/ (hOnForm /\ hRun[h].on = hOpened))
      <3>1. hRun' = [hRun EXCEPT ![h] = Phone!Idle] /\ hFaces' = hFaces
        BY <1>8, <2>3 DEF Phone!OpenFace, Phone!Mounted, Phone!Shift
      <3>2. FacesInv'
        BY <2>1, <3>1, IdleTap, PagesOne
      <3> QED BY <2>1, <3>1, <3>2, TapEnds DEF Alive
    <2> QED BY <2>2, <2>3
  <1>9. ASSUME NEW h \in Requests, Phone!FacePass(h) PROVE TapInv'
    <2>1. /\ hRun[h].pc = "face" /\ Phone!Top = h /\ hFaces' = Phone!Popped
          /\ hRun' = [hRun EXCEPT ![h] = Phone!Goes(h, TRUE)]
          /\ hUi' = Phone!Working(hRun[h].on, TRUE) /\ UNCHANGED <<hOpened, hOnForm>>
      BY <1>9 DEF Phone!FacePass, Phone!At
    <2>2. PICK w : w = Phone!Goes(h, TRUE)
      OBVIOUS
    <2>3. /\ w \in TapSlots /\ w.pc = (IF hRun[h].on = 0 THEN "locate" ELSE "save") /\ w.on = hRun[h].on
          /\ w.face = TRUE /\ w.quick = hRun[h].quick /\ w.done = hRun[h].done
      BY <2>2, TapGoes, TapTypes
    <2>4. hUi' \in Screens /\ hUi'.active = hUi.active
      BY <2>1, TapWorks, TapTypes DEF TapInv
    <2>5. hRun' = [hRun EXCEPT ![h] = w]
      BY <2>1, <2>2
    <2>6. FacesInv'
      BY <2>1, <2>3, <2>5, PagesOne
    <2>7. Aimed(w)
      BY <2>1, <2>3, TapTypes DEF Aimed
    <2>8. Alive(h) /\ (hRun[h].quick => w.quick)
      BY <2>1, <2>3 DEF Alive
    <2> QED BY <2>1, <2>3, <2>4, <2>5, <2>6, <2>7, <2>8, OneTap
  <1>10. ASSUME NEW h \in Requests, Phone!FaceRefuse(h) PROVE TapInv'
    <2>1. /\ hRun[h].pc = "face" /\ Phone!Top = h /\ hFaces' = Phone!Popped
          /\ hRun' = [hRun EXCEPT ![h] = Phone!Idle] /\ UNCHANGED <<hUi, hOpened, hOnForm>> /\ hUi \in Screens
      BY <1>10 DEF Phone!FaceRefuse, Phone!At, TapInv, HandlersInv
    <2>2. FacesInv'
      BY <2>1, IdleTap, PagesOne
    <2> QED BY <2>1, <2>2, TapEnds DEF Alive
  <1>11. ASSUME NEW h \in Requests, Phone!Locate(h) PROVE TapInv'
    <2>1. /\ hRun[h].pc = "locate" /\ hRun' = [hRun EXCEPT ![h].pc = IF hUi.active THEN "end" ELSE "start"]
          /\ UNCHANGED <<hUi, hOpened, hOnForm, hFaces>> /\ hUi \in Screens
      BY <1>11 DEF Phone!Locate, Phone!At, TapInv, HandlersInv
    <2>2. PICK p \in TapPcs : p = IF hUi.active THEN "end" ELSE "start"
      BY DEF TapPcs
    <2>3. PICK w : w = [hRun[h] EXCEPT !.pc = p]
      OBVIOUS
    <2>4. /\ w \in TapSlots /\ w.pc = p /\ w.on = hRun[h].on
          /\ w.face = hRun[h].face /\ w.quick = hRun[h].quick /\ w.done = hRun[h].done
      <3>1. hRun[h] \in TapSlots
        BY TapTypes
      <3> QED BY <2>3, <3>1, Zenon DEF TapSlots
    <2>5. hRun' = [hRun EXCEPT ![h] = w]
      BY <2>1, <2>2, <2>3, Zenon
    <2>6. FacesInv'
      BY <2>1, <2>2, <2>4, <2>5, PagesOne
    <2>7. Aimed(w)
      BY <2>1, <2>2, <2>4, TapTypes DEF Aimed
    <2>8. w.pc = "start" => w.face \/ w.quick
      BY <2>1, <2>2, <2>4, TapTypes DEF Gated
    <2>9. Alive(h) /\ (hRun[h].quick => w.quick) /\ p \in {"end", "start"}
      BY <2>1, <2>2, <2>4 DEF Alive
    <2> QED BY <2>1, <2>4, <2>5, <2>6, <2>7, <2>8, <2>9, OneTap
  <1>12. ASSUME NEW h \in Requests, Phone!Served(h) PROVE TapInv'
    <2>1. /\ hRun[h].pc \in {"start", "end", "save"} /\ hRun' = [hRun EXCEPT ![h].done = TRUE]
          /\ UNCHANGED <<hUi, hOpened, hOnForm, hFaces>> /\ hUi \in Screens
      BY <1>12 DEF Phone!Served, Phone!Sent, TapInv, HandlersInv
    <2>2. PICK w : w = [hRun[h] EXCEPT !.done = TRUE]
      OBVIOUS
    <2>3. /\ w \in TapSlots /\ w.pc = hRun[h].pc /\ w.on = hRun[h].on
          /\ w.face = hRun[h].face /\ w.quick = hRun[h].quick
      BY <2>2, TapStored, TapTypes, Zenon
    <2>4. hRun' = [hRun EXCEPT ![h] = w]
      BY <2>1, <2>2, Zenon
    <2>5. FacesInv'
      BY <2>1, <2>3, <2>4, PagesOne
    <2>6. Aimed(w)
      BY <2>1, <2>3, TapTypes DEF Aimed
    <2>7. w.pc \in {"start", "save"} => w.face \/ w.quick
      BY <2>3, TapTypes DEF Gated
    <2>8. Alive(h) /\ (hRun[h].quick => w.quick)
      BY <2>1, <2>3 DEF Alive
    <2> QED BY <2>1, <2>3, <2>4, <2>5, <2>6, <2>7, <2>8, OneTap
  <1>13. ASSUME NEW h \in Requests, Phone!ToggleAnswer(h) PROVE TapInv'
    <2>1. /\ hRun[h].pc \in {"start", "end"} /\ hRun' = [hRun EXCEPT ![h] = Phone!Idle]
          /\ UNCHANGED <<hOpened, hOnForm, hFaces>>
      BY <1>13 DEF Phone!ToggleAnswer
    <2>2. PICK b \in BOOLEAN : b = (hRun[h].pc = "start")
      BY Zenon
    <2>3. hUi' \in Screens
      BY <1>13, <2>2, Zenon DEF Phone!ToggleAnswer, Phone!At, TapInv, HandlersInv, Screens
    <2>4. FacesInv'
      BY <2>1, IdleTap, PagesOne
    <2>5. hRun[h].on = 0
      BY <2>1, TapTypes DEF Aimed
    <2> QED BY <2>1, <2>3, <2>4, <2>5, TapEnds DEF Alive
  <1>14. ASSUME NEW h \in Requests, Phone!VisitAnswer(h) PROVE TapInv'
    <2>1. hRun[h].pc = "save" /\ hOpened' = hOpened
      BY <1>14 DEF Phone!VisitAnswer, Phone!At
    <2>2. CASE hOnForm /\ hRun[h].on = hOpened /\ hFaces # <<>>
      <3>1. PICK g : g = Phone!Top
        OBVIOUS
      <3>2. /\ hFaces' = Phone!Popped /\ hOnForm' = hOnForm
            /\ hRun' = [hRun EXCEPT ![h] = Phone!Idle, ![g] = Phone!Goes(g, FALSE)]
            /\ hUi' = IF hRun[g].on = hRun[h].on THEN Phone!Working(hRun[h].on, TRUE)
                      ELSE [hUi EXCEPT !.submitting = FALSE, !.busy = TRUE]
        BY <1>14, <2>2, <3>1 DEF Phone!VisitAnswer, Phone!Mounted
      <3>3. /\ [hUi EXCEPT !.submitting = FALSE, !.busy = TRUE] \in Screens
            /\ [hUi EXCEPT !.submitting = FALSE, !.busy = TRUE].active = hUi.active
        BY Zenon DEF TapInv, HandlersInv, Screens
      <3>4. hUi' \in Screens /\ hUi'.active = hUi.active
        BY <3>2, <3>3, TapWorks, TapTypes DEF TapInv
      <3> QED BY <2>1, <2>2, <3>1, <3>2, <3>4, TapWakes
    <2>3. CASE ~(hOnForm /\ hRun[h].on = hOpened /\ hFaces # <<>>)
      <3>1. /\ hRun' = [hRun EXCEPT ![h] = Phone!Idle] /\ hFaces' = hFaces
            /\ hUi' = Phone!Working(hRun[h].on, FALSE)
            /\ hOnForm' = (hOnForm /\ ~(hOnForm /\ hRun[h].on = hOpened))
        BY <1>14, <2>3 DEF Phone!VisitAnswer, Phone!Mounted
      <3>2. hUi' \in Screens /\ hUi'.active = hUi.active
        BY <3>1, TapWorks, TapTypes DEF TapInv
      <3>3. FacesInv'
        BY <2>1, <3>1, IdleTap, PagesOne
      <3>4. (hOnForm' => hOnForm) /\ (hOnForm /\ ~hOnForm' => hFaces = <<>>)
        BY <2>3, <3>1
      <3> QED BY <2>1, <3>1, <3>2, <3>3, <3>4, TapEnds DEF Alive
    <2> QED BY <2>2, <2>3
  <1>15. ASSUME NEW h \in Requests, Phone!GiveUp(h) PROVE TapInv'
    <2>1. /\ hRun[h].pc \in {"start", "end", "save"} /\ hRun' = [hRun EXCEPT ![h] = Phone!Idle]
          /\ UNCHANGED <<hOpened, hOnForm, hFaces>> /\ hUi' = Phone!Working(hRun[h].on, FALSE)
      BY <1>15 DEF Phone!GiveUp, Phone!Sent, Phone!UiAfterFailure
    <2>2. hUi' \in Screens /\ hUi'.active = hUi.active
      BY <2>1, TapWorks, TapTypes DEF TapInv
    <2>3. FacesInv'
      BY <2>1, IdleTap, PagesOne
    <2> QED BY <2>1, <2>2, <2>3, TapEnds DEF Alive
  <1> HIDE DEF TapInv
  <1> QED BY <1>1, <1>2, <1>3, <1>4, <1>5, <1>6, <1>7, <1>8, <1>9, <1>10, <1>11, <1>12, <1>13, <1>14, <1>15 DEF Phone!Next

(* A shift starts and a visit is saved only behind the check of the face   *)
(* (WorkBanner._onToggle, VisitFormPage._submit), whatever is lost, left   *)
(* or restarted in between, unless the tap was a quick one.                *)
THEOREM FaceChecked == OfficeSpec => []FaceBefore
  <1> DEFINE Inv == part = "phone" => TapInv
  <1>1. OfficeInit => Inv
    <2> SUFFICES ASSUME Phone!Init PROVE TapInv
      BY DEF OfficeInit
    <2>1. \A h \in Requests : hRun[h] = Phone!Idle
      BY DEF Phone!Init
    <2> QED BY <2>1, PhoneInit, IdleTap DEF TapInv, Crowded, Aside, Gated, Alive
  <1>2. Inv /\ [OfficeNext]_officeVars => Inv'
    BY PhoneSteps, TapStep
  <1>3. Inv => FaceBefore
    BY Zenon DEF TapInv, Gated, FaceBefore, Phone!FaceBefore
  <1> QED BY <1>1, <1>2, <1>3, PTL DEF OfficeSpec

\* A handler that runs for the shift or for a form.
On(h, x) == hRun[h].pc # "idle" /\ hRun[h].on = x

\* Of a thing without doubt there is one handler at most; the banner shows the
\* shift as it is, or as it will be once the answer is in; and a form is stored
\* once when it is saved or about to be.
Sole(x) == \A g, h \in Requests : On(g, x) /\ On(h, x) => g = h

BannerTrue ==
    /\ \A h \in Requests : On(h, 0) => /\ hRun[h].done  => (hShift <=> hRun[h].pc = "start")
                                       /\ ~hRun[h].done => (hUi.active <=> hShift)
    /\ (\A h \in Requests : ~On(h, 0)) => (hUi.active <=> hShift)

FormTrue(f) ==
    /\ \A h \in Requests : On(h, f) => /\ hOnForm /\ f = hOpened /\ f \notin hSaved
                                       /\ hRun[h].done  => hVisits[f] = 1
                                       /\ ~hRun[h].done => hVisits[f] = 0
    /\ (\A h \in Requests : ~On(h, f)) => /\ f \in hSaved    => hVisits[f] = 1
                                          /\ f \notin hSaved => hVisits[f] = 0

\* What a call took with it is in doubt until it has arrived.
Wired == hWire \subseteq Phone!Calls /\ \A c \in hWire : c.on \in hDoubt

\* Saved forms are open no more, and stored; so is one whose answer is on its way.
Kept ==
    /\ hShift \in BOOLEAN /\ hVisits \in [Phone!Forms -> Nat] /\ hSaved \subseteq Phone!Forms
    /\ hOnForm => hOpened \notin hSaved
    /\ \A f \in hSaved : f <= hOpened /\ hVisits[f] >= 1
    /\ \A h \in Requests : hRun[h].pc = "save" /\ hRun[h].done => hVisits[hRun[h].on] >= 1

TruthInv ==
    /\ Wired /\ Kept
    /\ \A x \in Phone!Things : x \notin hDoubt => Sole(x)
    /\ 0 \notin hDoubt => BannerTrue
    /\ \A f \in Phone!Forms : f \notin hDoubt => FormTrue(f)

LEMMA FormThings ==
    ASSUME NEW f \in Phone!Forms PROVE f \in Phone!Things /\ f # 0 /\ f \in Nat /\ 0 \in Phone!Things
  BY FormsAssumption DEF Phone!Forms, Phone!Things, Phone!Shift

\* A handler that goes on, and has not been served yet.
LEMMA TruthGoesOn ==
    ASSUME TapInv, TruthInv, NEW h \in Requests, NEW w \in TapSlots, hRun' = [hRun EXCEPT ![h] = w],
           Alive(h), w.pc # "idle", w.on = hRun[h].on, ~w.done, ~hRun[h].done,
           hUi'.active = hUi.active, UNCHANGED <<hShift, hVisits, hWire, hOpened, hOnForm, hSaved, hDoubt>>
    PROVE  TruthInv'
  <1>1. hRun'[h] = w /\ \A o \in Requests \ {h} : hRun'[o] = hRun[o]
    BY DEF TapInv, HandlersInv
  <1>2. \A o \in Requests, x \in Phone!Things : On(o, x)' <=> On(o, x)
    BY <1>1 DEF On, Alive
  <1>3. \A o \in Requests : (hRun'[o].done <=> hRun[o].done) /\ (hRun[o].done => hRun'[o].pc = hRun[o].pc)
    BY <1>1
  <1>4. Wired'
    BY DEF TruthInv, Wired
  <1>5. Kept'
    <2>1. \A o \in Requests : hRun'[o].pc = "save" /\ hRun'[o].done => hVisits[hRun'[o].on] >= 1
      BY <1>1 DEF TruthInv, Kept
    <2> QED BY <2>1 DEF TruthInv, Kept
  <1>6. ASSUME NEW x \in Phone!Things, x \notin hDoubt' PROVE Sole(x)'
    BY <1>2, <1>6 DEF TruthInv, Sole
  <1>7. ASSUME 0 \notin hDoubt' PROVE BannerTrue'
    <2>1. BannerTrue /\ 0 \in Phone!Things
      BY <1>7 DEF TruthInv, Phone!Things, Phone!Shift
    <2> QED BY <1>2, <1>3, <2>1 DEF BannerTrue
  <1>8. ASSUME NEW f \in Phone!Forms, f \notin hDoubt' PROVE FormTrue(f)'
    <2>1. FormTrue(f) /\ f \in Phone!Things
      BY <1>8, FormThings DEF TruthInv
    <2> QED BY <1>2, <1>3, <2>1 DEF FormTrue
  <1> QED BY <1>4, <1>5, <1>6, <1>7, <1>8 DEF TruthInv

\* A handler that ends unserved, or leaves a doubt.
LEMMA TruthEnds ==
    ASSUME TapInv, TruthInv, NEW h \in Requests, hRun' = [hRun EXCEPT ![h] = Phone!Idle],
           Alive(h), ~hRun[h].done \/ hRun[h].on \in hDoubt', hDoubt \subseteq hDoubt', Wired',
           hUi'.active = hUi.active, UNCHANGED <<hShift, hVisits, hOpened, hOnForm, hSaved>>
    PROVE  TruthInv'
  <1>1. /\ hRun'[h].pc = "idle" /\ hRun'[h].on = 0 /\ ~hRun'[h].done
        /\ \A o \in Requests \ {h} : hRun'[o] = hRun[o]
    BY IdleTap DEF TapInv, HandlersInv
  <1>2. \A o \in Requests, x \in Phone!Things : On(o, x)' <=> (On(o, x) /\ o # h)
    BY <1>1 DEF On
  <1>3. \A o \in Requests : o # h => (hRun'[o].done <=> hRun[o].done) /\ hRun'[o].pc = hRun[o].pc
    BY <1>1
  <1>4. Kept'
    <2>1. \A o \in Requests : hRun'[o].pc = "save" /\ hRun'[o].done => hVisits[hRun'[o].on] >= 1
      BY <1>1 DEF TruthInv, Kept
    <2> QED BY <2>1 DEF TruthInv, Kept
  <1>5. ASSUME NEW x \in Phone!Things, x \notin hDoubt' PROVE Sole(x)'
    BY <1>2, <1>5 DEF TruthInv, Sole
  <1>6. ASSUME 0 \notin hDoubt' PROVE BannerTrue'
    <2>1. BannerTrue /\ 0 \in Phone!Things /\ Sole(0)
      BY <1>6 DEF TruthInv, Phone!Things, Phone!Shift
    <2>2. On(h, 0) => ~hRun[h].done
      BY <1>6 DEF On
    <2>3. (\A o \in Requests : ~On(o, 0)') => (hUi.active <=> hShift)
      BY <1>2, <2>1, <2>2 DEF BannerTrue
    <2>4. ASSUME NEW o \in Requests, On(o, 0)' PROVE On(o, 0) /\ o # h
      BY <1>2, <2>1, <2>4
    <2> QED BY <1>3, <2>1, <2>3, <2>4 DEF BannerTrue
  <1>7. ASSUME NEW f \in Phone!Forms, f \notin hDoubt' PROVE FormTrue(f)'
    <2>1. FormTrue(f) /\ f \in Phone!Things
      BY <1>7, FormThings DEF TruthInv
    <2>2. On(h, f) => ~hRun[h].done
      BY <1>7 DEF On
    <2>3. (\A o \in Requests : ~On(o, f)') => /\ f \in hSaved    => hVisits[f] = 1
                                              /\ f \notin hSaved => hVisits[f] = 0
      BY <1>2, <2>1, <2>2 DEF FormTrue
    <2>4. ASSUME NEW o \in Requests, On(o, f)' PROVE On(o, f) /\ o # h
      BY <1>2, <2>1, <2>4
    <2> QED BY <1>3, <2>1, <2>3, <2>4 DEF FormTrue
  <1> QED BY <1>4, <1>5, <1>6, <1>7 DEF TruthInv

\* A tap, after which the only handler of an undoubted button is the new one.
LEMMA TruthTap ==
    ASSUME TapInv, TruthInv, NEW h \in Requests, NEW x \in Phone!Things, NEW p \in {"enrolled", "locate"},
           Phone!Tap(h, x, p), x # 0 => hOnForm /\ x = hOpened, hUi'.active = hUi.active
    PROVE  TruthInv'
  <1>1. /\ hRun[h].pc = "idle" /\ UNCHANGED <<hShift, hVisits, hWire, hOpened, hOnForm, hSaved>>
        /\ hDoubt' = IF Phone!Busy(x) # {} THEN hDoubt \cup {x} ELSE hDoubt
    BY DEF Phone!Tap, Phone!At
  <1>2. PICK b \in BOOLEAN : b = (Phone!Busy(x) # {} \/ hShown # hUi)
    BY Zenon
  <1>3. PICK w : w = [Phone!Idle EXCEPT !.pc = p, !.on = x, !.quick = b]
    OBVIOUS
  <1>4. w.pc = p /\ w.on = x /\ w.done = FALSE
    BY <1>3, Zenon DEF Phone!Idle
  <1>5. hRun' = [o \in Requests |-> IF o = h THEN w
                                    ELSE IF o \in Phone!Busy(x) \/ hRun[o].pc = "enrolled"
                                         THEN [hRun[o] EXCEPT !.quick = TRUE] ELSE hRun[o]]
    BY <1>2, <1>3, Zenon DEF Phone!Tap, Phone!At
  <1>6. hRun'[h].pc = p /\ hRun'[h].on = x /\ ~hRun'[h].done
    BY <1>4, <1>5
  <1>7. ASSUME NEW o \in Requests, o # h
        PROVE  hRun'[o].pc = hRun[o].pc /\ hRun'[o].on = hRun[o].on /\ (hRun'[o].done <=> hRun[o].done)
    <2>1. hRun[o] \in TapSlots /\ (hRun'[o] = hRun[o] \/ hRun'[o] = [hRun[o] EXCEPT !.quick = TRUE])
      BY <1>5, <1>7 DEF TapInv, HandlersInv
    <2> QED BY <2>1, Zenon DEF TapSlots
  <1>8. \A o \in Requests, y \in Phone!Things : On(o, y)' <=> (On(o, y) \/ (o = h /\ y = x))
    BY <1>1, <1>6, <1>7 DEF On
  <1>9. x \notin hDoubt' => \A o \in Requests : ~On(o, x)
    BY <1>1 DEF On, Phone!Busy
  <1>10. \A y : y \notin hDoubt' => y \notin hDoubt
    BY <1>1
  <1>11. Wired'
    BY <1>1 DEF TruthInv, Wired
  <1>12. Kept'
    <2>1. \A o \in Requests : hRun'[o].pc = "save" /\ hRun'[o].done => hVisits[hRun'[o].on] >= 1
      BY <1>6, <1>7 DEF TruthInv, Kept
    <2> QED BY <1>1, <2>1 DEF TruthInv, Kept
  <1>13. ASSUME NEW y \in Phone!Things, y \notin hDoubt' PROVE Sole(y)'
    BY <1>8, <1>9, <1>10, <1>13 DEF TruthInv, Sole
  <1>14. ASSUME 0 \notin hDoubt' PROVE BannerTrue'
    <2>1. BannerTrue /\ 0 \in Phone!Things
      BY <1>10, <1>14 DEF TruthInv, Phone!Things, Phone!Shift
    <2>2. CASE x = 0
      <3>1. (hUi'.active <=> hShift') /\ \A o \in Requests : On(o, 0)' => o = h
        BY <1>1, <1>8, <1>9, <1>14, <2>1, <2>2 DEF BannerTrue
      <3> QED BY <1>6, <3>1 DEF BannerTrue
    <2>3. CASE x # 0
      <3>1. \A o \in Requests : (On(o, 0)' <=> On(o, 0)) /\ (On(o, 0) => o # h)
        BY <1>1, <1>8, <2>1, <2>3 DEF On
      <3> QED BY <1>1, <1>7, <2>1, <3>1 DEF BannerTrue
    <2> QED BY <2>2, <2>3
  <1>15. ASSUME NEW f \in Phone!Forms, f \notin hDoubt' PROVE FormTrue(f)'
    <2>1. FormTrue(f) /\ f \in Phone!Things /\ f # 0
      BY <1>10, <1>15, FormThings DEF TruthInv
    <2>2. CASE x = f
      <3>1. /\ \A o \in Requests : On(o, f)' => o = h
            /\ hOnForm /\ f = hOpened /\ f \notin hSaved /\ hVisits[f] = 0 /\ On(h, f)'
        BY <1>8, <1>9, <1>15, <2>1, <2>2 DEF FormTrue, TruthInv, Kept
      <3> QED BY <1>1, <1>6, <3>1 DEF FormTrue
    <2>3. CASE x # f
      <3>1. \A o \in Requests : (On(o, f)' <=> On(o, f)) /\ (On(o, f) => o # h)
        BY <1>1, <1>8, <2>1, <2>3 DEF On
      <3> QED BY <1>1, <1>7, <2>1, <3>1 DEF FormTrue
    <2> QED BY <2>2, <2>3
  <1> QED BY <1>11, <1>12, <1>13, <1>14, <1>15 DEF TruthInv

\* The server takes a call; it may settle the doubt about the shift.
LEMMA TruthServed ==
    ASSUME TapInv, TruthInv, NEW h \in Requests, Phone!Served(h)
    PROVE  TruthInv'
  <1>1. /\ hRun[h].pc \in {"start", "end", "save"} /\ ~hRun[h].done
        /\ hRun' = [hRun EXCEPT ![h].done = TRUE]
        /\ hShift' = IF hRun[h].pc = "save" THEN hShift ELSE hRun[h].pc = "start"
        /\ hVisits' = IF hRun[h].pc = "save" THEN [hVisits EXCEPT ![hRun[h].on] = @ + 1] ELSE hVisits
        /\ UNCHANGED <<hWire, hUi, hOpened, hOnForm, hSaved>>
    BY DEF Phone!Served, Phone!Sent, Phone!Serve
  <1>2. hDoubt' = hDoubt \/ ((\A o \in Requests : On(o, 0) <=> o = h) /\ (\A c \in hWire : c.on # 0) /\ hDoubt' = hDoubt \ {0})
    <2>1. hDoubt' = IF Phone!Busy(0) = {h} /\ \A c \in hWire : c.on # 0 THEN hDoubt \ {0} ELSE hDoubt
      BY DEF Phone!Served, Phone!Shift
    <2>2. \A o \in Requests : o \in Phone!Busy(0) <=> On(o, 0)
      BY DEF Phone!Busy, On
    <2>3. Phone!Busy(0) = {h} => \A o \in Requests : On(o, 0) <=> o = h
      BY <2>2
    <2> QED BY <2>1, <2>3
  <1>3. PICK w : w = [hRun[h] EXCEPT !.done = TRUE]
    OBVIOUS
  <1>4. w.pc = hRun[h].pc /\ w.on = hRun[h].on /\ w.done = TRUE
    <2>1. hRun[h] \in TapSlots
      BY TapTypes
    <2> QED BY <1>3, <2>1, Zenon DEF TapSlots
  <1>5. hRun'[h] = w /\ \A o \in Requests \ {h} : hRun'[o] = hRun[o]
    <2>1. hRun' = [hRun EXCEPT ![h] = w]
      BY <1>1, <1>3, Zenon
    <2> QED BY <2>1 DEF TapInv, HandlersInv
  <1>6. \A o \in Requests : hRun'[o].pc = hRun[o].pc /\ hRun'[o].on = hRun[o].on
                            /\ (hRun'[o].done <=> (hRun[o].done \/ o = h))
    BY <1>4, <1>5
  <1>7. \A o \in Requests, y \in Phone!Things : On(o, y)' <=> On(o, y)
    BY <1>6 DEF On
  <1>8. (hRun[h].pc = "save" => hRun[h].on \in Phone!Forms) /\ (hRun[h].pc # "save" => hRun[h].on = 0)
    BY <1>1, TapTypes DEF Aimed, Phone!Things, Phone!Shift
  <1>9. /\ hVisits' \in [Phone!Forms -> Nat]
        /\ \A f \in Phone!Forms : hVisits'[f] = hVisits[f] + (IF hRun[h].pc = "save" /\ f = hRun[h].on THEN 1 ELSE 0)
    BY <1>1, <1>8 DEF TruthInv, Kept
  <1>10. \A f \in Phone!Forms : hVisits[f] \in Nat
    BY DEF TruthInv, Kept
  <1>11. Wired'
    BY <1>1, <1>2 DEF TruthInv, Wired
  <1>12. Kept'
    <2>1. ASSUME NEW o \in Requests, hRun'[o].pc = "save", hRun'[o].done PROVE hVisits'[hRun'[o].on] >= 1
      <3>1. hRun[o].on \in Phone!Forms
        BY <1>6, <2>1, TapTypes DEF Aimed, Phone!Things, Phone!Shift
      <3> QED BY <1>6, <1>9, <1>10, <2>1, <3>1 DEF TruthInv, Kept
    <2>2. \A f \in hSaved : f \in Phone!Forms /\ f <= hOpened /\ hVisits'[f] >= 1
      BY <1>9, <1>10 DEF TruthInv, Kept
    <2>3. hShift' \in BOOLEAN
      BY <1>1 DEF TruthInv, Kept
    <2> QED BY <1>1, <1>9, <2>1, <2>2, <2>3 DEF TruthInv, Kept
  <1>13. ASSUME NEW y \in Phone!Things, y \notin hDoubt' PROVE Sole(y)'
    <2>1. Sole(y)
      BY <1>2, <1>13 DEF TruthInv, Sole
    <2> QED BY <1>7, <2>1 DEF Sole
  <1>14. ASSUME 0 \notin hDoubt' PROVE BannerTrue'
    <2>0. 0 \in Phone!Things
      BY DEF Phone!Things, Phone!Shift
    <2>1. CASE On(h, 0)
      <3>1. \A o \in Requests : On(o, 0)' => o = h
        BY <1>7, <1>13, <1>14, <2>0, <2>1 DEF Sole
      <3>2. hRun[h].pc # "save"
        BY <1>8, <2>1, FormThings DEF On
      <3>3. hShift' <=> hRun[h].pc = "start"
        BY <1>1, <3>2
      <3>4. On(h, 0)'
        BY <1>7, <2>0, <2>1
      <3>5. \A o \in Requests : On(o, 0)' => hRun'[o].done /\ (hShift' <=> hRun'[o].pc = "start")
        BY <1>6, <3>1, <3>3
      <3> QED BY <3>4, <3>5 DEF BannerTrue
    <2>2. CASE ~On(h, 0)
      <3>1. hDoubt' = hDoubt /\ hRun[h].pc = "save" /\ BannerTrue
        BY <1>1, <1>2, <1>8, <1>14, <2>2 DEF On, TruthInv
      <3>2. \A o \in Requests : On(o, 0)' => On(o, 0) /\ o # h
        BY <1>7, <2>0, <2>2
      <3>3. hShift' = hShift /\ hUi' = hUi
        BY <1>1, <3>1
      <3>4. \A o \in Requests : On(o, 0)' => /\ hRun'[o].done  => (hShift <=> hRun'[o].pc = "start")
                                             /\ ~hRun'[o].done => (hUi.active <=> hShift)
        BY <1>6, <3>1, <3>2 DEF BannerTrue
      <3>5. (\A o \in Requests : ~On(o, 0)') => (hUi.active <=> hShift)
        BY <1>7, <2>0, <3>1 DEF BannerTrue
      <3> QED BY <3>3, <3>4, <3>5 DEF BannerTrue
    <2> QED BY <2>1, <2>2
  <1>15. ASSUME NEW f \in Phone!Forms, f \notin hDoubt' PROVE FormTrue(f)'
    <2>1. FormTrue(f) /\ f \in Phone!Things /\ f # 0 /\ f \notin hDoubt
      BY <1>2, <1>15, FormThings DEF TruthInv
    <2>2. CASE On(h, f)
      <3>1. \A o \in Requests : On(o, f)' => o = h
        BY <1>7, <1>13, <1>15, <2>1, <2>2 DEF Sole
      <3>2. hRun[h].pc = "save" /\ hRun[h].on = f /\ hVisits[f] = 0 /\ hOnForm /\ f = hOpened /\ f \notin hSaved
        BY <1>1, <1>8, <2>1, <2>2 DEF On, FormTrue
      <3>3. hVisits'[f] = 1 /\ hRun'[h].done /\ On(h, f)'
        BY <1>6, <1>7, <1>9, <2>1, <2>2, <3>2
      <3> QED BY <1>1, <3>1, <3>2, <3>3 DEF FormTrue
    <2>3. CASE ~On(h, f)
      <3>1. \A o \in Requests : On(o, f)' => On(o, f) /\ o # h
        BY <1>7, <2>1, <2>3
      <3>2. hVisits'[f] = hVisits[f]
        BY <1>1, <1>9, <1>10, <2>3 DEF On
      <3>3. \A o \in Requests : On(o, f)' => /\ hOnForm /\ f = hOpened /\ f \notin hSaved
                                             /\ hRun'[o].done  => hVisits'[f] = 1
                                             /\ ~hRun'[o].done => hVisits'[f] = 0
        BY <1>6, <2>1, <3>1, <3>2 DEF FormTrue
      <3>4. (\A o \in Requests : ~On(o, f)') => /\ f \in hSaved    => hVisits'[f] = 1
                                                /\ f \notin hSaved => hVisits'[f] = 0
        BY <1>7, <2>1, <3>2 DEF FormTrue
      <3> QED BY <1>1, <3>3, <3>4 DEF FormTrue
    <2> QED BY <2>2, <2>3
  <1> QED BY <1>11, <1>12, <1>13, <1>14, <1>15 DEF TruthInv

\* The answer to a call on the shift turns the banner to it.
LEMMA TruthToggled ==
    ASSUME TapInv, TruthInv, NEW h \in Requests, Phone!ToggleAnswer(h)
    PROVE  TruthInv'
  <1>1. /\ hRun[h].pc \in {"start", "end"} /\ hRun[h].done /\ hRun' = [hRun EXCEPT ![h] = Phone!Idle]
        /\ UNCHANGED <<hShift, hVisits, hWire, hOpened, hOnForm, hSaved, hDoubt>>
    BY DEF Phone!ToggleAnswer
  <1>2. hUi'.active <=> hRun[h].pc = "start"
    <2>1. PICK b \in BOOLEAN : b = (hRun[h].pc = "start")
      BY Zenon
    <2> QED BY <2>1, Zenon DEF Phone!ToggleAnswer, Phone!At, TapInv, HandlersInv, Screens
  <1>3. hRun[h].on = 0 /\ 0 \in Phone!Things
    BY <1>1, TapTypes DEF Aimed, Phone!Things, Phone!Shift
  <1>4. /\ hRun'[h].pc = "idle" /\ ~hRun'[h].done
        /\ \A o \in Requests \ {h} : hRun'[o] = hRun[o]
    BY <1>1, IdleTap DEF TapInv, HandlersInv
  <1>5. \A o \in Requests, x \in Phone!Things : On(o, x)' <=> (On(o, x) /\ o # h)
    BY <1>4 DEF On
  <1>6. Wired'
    BY <1>1 DEF TruthInv, Wired
  <1>7. Kept'
    <2>1. \A o \in Requests : hRun'[o].pc = "save" /\ hRun'[o].done => hVisits[hRun'[o].on] >= 1
      BY <1>4 DEF TruthInv, Kept
    <2> QED BY <1>1, <2>1 DEF TruthInv, Kept
  <1>8. ASSUME NEW x \in Phone!Things, x \notin hDoubt' PROVE Sole(x)'
    BY <1>1, <1>5, <1>8 DEF TruthInv, Sole
  <1>9. ASSUME 0 \notin hDoubt' PROVE BannerTrue'
    <2>1. BannerTrue /\ Sole(0) /\ On(h, 0)
      BY <1>1, <1>3, <1>9 DEF TruthInv, On
    <2>2. \A o \in Requests : ~On(o, 0)'
      BY <1>3, <1>5, <2>1 DEF Sole
    <2>3. hUi'.active <=> hShift'
      BY <1>1, <1>2, <2>1 DEF BannerTrue
    <2> QED BY <2>2, <2>3 DEF BannerTrue
  <1>10. ASSUME NEW f \in Phone!Forms, f \notin hDoubt' PROVE FormTrue(f)'
    <2>1. FormTrue(f) /\ f \in Phone!Things /\ f # 0
      BY <1>1, <1>10, FormThings DEF TruthInv
    <2>2. \A o \in Requests : (On(o, f)' <=> On(o, f)) /\ (On(o, f) => o # h)
      BY <1>3, <1>5, <2>1 DEF On
    <2> QED BY <1>1, <1>4, <2>1, <2>2 DEF FormTrue
  <1> QED BY <1>6, <1>7, <1>8, <1>9, <1>10 DEF TruthInv

\* The answer to a saved visit closes its form, if that is still on screen.
LEMMA TruthVisited ==
    ASSUME TapInv, TruthInv, NEW h \in Requests, hRun[h].pc = "save", hRun[h].done,
           hRun' = [hRun EXCEPT ![h] = Phone!Idle], hUi'.active = hUi.active,
           hOnForm' = (hOnForm /\ ~(hOnForm /\ hRun[h].on = hOpened)),
           hSaved' = IF hOnForm /\ hRun[h].on = hOpened THEN hSaved \cup {hRun[h].on} ELSE hSaved,
           UNCHANGED <<hShift, hVisits, hWire, hOpened, hDoubt>>
    PROVE  TruthInv'
  <1>1. hRun[h].on \in Phone!Forms
    BY TapTypes DEF Aimed, Phone!Things, Phone!Shift
  <1>2. /\ hRun'[h].pc = "idle" /\ ~hRun'[h].done
        /\ \A o \in Requests \ {h} : hRun'[o] = hRun[o]
    BY IdleTap DEF TapInv, HandlersInv
  <1>3. \A o \in Requests, x \in Phone!Things : On(o, x)' <=> (On(o, x) /\ o # h)
    BY <1>2 DEF On
  <1>4. Wired'
    BY DEF TruthInv, Wired
  <1>5. Kept'
    <2>1. \A o \in Requests : hRun'[o].pc = "save" /\ hRun'[o].done => hVisits[hRun'[o].on] >= 1
      BY <1>2 DEF TruthInv, Kept
    <2>2. hVisits[hRun[h].on] >= 1 /\ (hRun[h].on = hOpened => hRun[h].on <= hOpened)
      BY TapTypes DEF TruthInv, Kept, Aimed
    <2>3. hOnForm' => hOnForm /\ hOpened \notin hSaved /\ hSaved' = hSaved
      BY DEF TruthInv, Kept
    <2>4. hSaved' \subseteq Phone!Forms /\ \A f \in hSaved' : f <= hOpened /\ hVisits[f] >= 1
      BY <1>1, <2>2 DEF TruthInv, Kept
    <2> QED BY <2>1, <2>3, <2>4 DEF TruthInv, Kept
  <1>6. ASSUME NEW x \in Phone!Things, x \notin hDoubt' PROVE Sole(x)'
    BY <1>3, <1>6 DEF TruthInv, Sole
  <1>7. ASSUME 0 \notin hDoubt' PROVE BannerTrue'
    <2>1. BannerTrue /\ 0 \in Phone!Things
      BY <1>7 DEF TruthInv, Phone!Things, Phone!Shift
    <2>2. \A o \in Requests : (On(o, 0)' <=> On(o, 0)) /\ (On(o, 0) => o # h)
      BY <1>1, <1>3, <2>1, FormThings DEF On
    <2> QED BY <1>2, <2>1, <2>2 DEF BannerTrue
  <1>8. ASSUME NEW f \in Phone!Forms, f \notin hDoubt' PROVE FormTrue(f)'
    <2>1. FormTrue(f) /\ f \in Phone!Things /\ Sole(f)
      BY <1>8, FormThings DEF TruthInv
    <2>2. CASE f = hRun[h].on
      <3>1. On(h, f)
        BY <2>2 DEF On
      <3>2. hVisits[f] = 1 /\ f \in hSaved'
        BY <2>1, <2>2, <3>1 DEF FormTrue
      <3>3. \A o \in Requests : ~On(o, f)'
        BY <1>3, <2>1, <3>1 DEF Sole
      <3> QED BY <3>2, <3>3 DEF FormTrue
    <2>3. CASE f # hRun[h].on
      <3>1. \A o \in Requests : (On(o, f)' <=> On(o, f)) /\ (On(o, f) => o # h)
        BY <1>3, <2>1, <2>3 DEF On
      <3>2. f \in hSaved' <=> f \in hSaved
        BY <2>3
      <3>3. (\E o \in Requests : On(o, f)) => hOnForm' /\ hOpened' = hOpened
        BY <2>1, <2>3 DEF FormTrue
      <3>4. \A o \in Requests : On(o, f)' => /\ hOnForm' /\ f = hOpened /\ f \notin hSaved'
                                             /\ hRun'[o].done  => hVisits[f] = 1
                                             /\ ~hRun'[o].done => hVisits[f] = 0
        BY <1>2, <2>1, <3>1, <3>2, <3>3 DEF FormTrue
      <3>5. (\A o \in Requests : ~On(o, f)') => /\ f \in hSaved'    => hVisits[f] = 1
                                                /\ f \notin hSaved' => hVisits[f] = 0
        BY <2>1, <3>1, <3>2 DEF FormTrue
      <3> QED BY <3>4, <3>5 DEF FormTrue
    <2> QED BY <2>2, <2>3
  <1> QED BY <1>4, <1>5, <1>6, <1>7, <1>8 DEF TruthInv

\* The answer that pops a face page leaves its form in doubt.
LEMMA TruthWakes ==
    ASSUME TapInv, TruthInv, NEW h \in Requests, hRun[h].pc = "save", hOnForm, hRun[h].on = hOpened, hFaces # <<>>,
           NEW g, g = Phone!Top,
           hRun' = [hRun EXCEPT ![h] = Phone!Idle, ![g] = Phone!Goes(g, FALSE)],
           hUi'.active = hUi.active, hDoubt' = hDoubt \cup {hRun[h].on},
           UNCHANGED <<hShift, hVisits, hWire, hOpened, hOnForm, hSaved>>
    PROVE  TruthInv'
  <1>1. g \in Requests /\ hRun[g].pc = "face" /\ g # h
    <2>1. Len(hFaces) \in DOMAIN hFaces /\ \A j \in DOMAIN hFaces : hFaces[j] \in Requests
      BY DEF TapInv, HandlersInv, FacesInv
    <2> QED BY <2>1 DEF TapInv, HandlersInv, FacesInv, Phone!Top
  <1>2. PICK w : w = Phone!Goes(g, FALSE)
    OBVIOUS
  <1>3. /\ w \in TapSlots /\ w.pc # "idle" /\ w.on = hRun[g].on /\ ~w.done /\ ~hRun[g].done
    BY <1>1, <1>2, TapGoes, TapTypes DEF Aimed
  <1>4. /\ hRun'[h].pc = "idle" /\ ~hRun'[h].done /\ hRun'[g] = w
        /\ \A o \in Requests \ {g, h} : hRun'[o] = hRun[o]
    BY <1>1, <1>2, IdleTap DEF TapInv, HandlersInv
  <1>5. \A o \in Requests, x \in Phone!Things : On(o, x)' <=> (On(o, x) /\ o # h)
    BY <1>1, <1>3, <1>4 DEF On
  <1>6. \A o \in Requests : o # h => /\ hRun'[o].done <=> hRun[o].done
                                     /\ hRun[o].done => hRun'[o].pc = hRun[o].pc /\ hRun'[o].on = hRun[o].on
    BY <1>1, <1>3, <1>4
  <1>7. hRun[h].on # 0
    BY TapTypes DEF Aimed
  <1>8. Wired'
    BY DEF TruthInv, Wired
  <1>9. Kept'
    <2>1. \A o \in Requests : hRun'[o].pc = "save" /\ hRun'[o].done => hVisits[hRun'[o].on] >= 1
      <3>1. ASSUME NEW o \in Requests, hRun'[o].pc = "save", hRun'[o].done PROVE hVisits[hRun'[o].on] >= 1
        <4>1. o # h /\ hRun[o].done /\ hRun[o].pc = "save" /\ hRun'[o].on = hRun[o].on
          BY <1>4, <1>6, <3>1
        <4>2. hVisits[hRun[o].on] >= 1
          BY <4>1 DEF TruthInv, Kept
        <4> QED BY <4>1, <4>2
      <3> QED BY <3>1
    <2> QED BY <2>1 DEF TruthInv, Kept
  <1>10. ASSUME NEW x \in Phone!Things, x \notin hDoubt' PROVE Sole(x)'
    BY <1>5, <1>10 DEF TruthInv, Sole
  <1>11. ASSUME 0 \notin hDoubt' PROVE BannerTrue'
    <2>1. BannerTrue /\ 0 \in Phone!Things
      BY <1>11 DEF TruthInv, Phone!Things, Phone!Shift
    <2>2. \A o \in Requests : (On(o, 0)' <=> On(o, 0)) /\ (On(o, 0) => o # h)
      BY <1>5, <1>7, <2>1, ZenonT(60) DEF On
    <2> QED BY <1>6, <2>1, <2>2 DEF BannerTrue
  <1>12. ASSUME NEW f \in Phone!Forms, f \notin hDoubt' PROVE FormTrue(f)'
    <2>1. FormTrue(f) /\ f \in Phone!Things /\ f # hRun[h].on
      BY <1>12, FormThings DEF TruthInv
    <2>2. \A o \in Requests : (On(o, f)' <=> On(o, f)) /\ (On(o, f) => o # h)
      BY <1>5, <2>1, ZenonT(60) DEF On
    <2> QED BY <1>6, <2>1, <2>2 DEF FormTrue
  <1> QED BY <1>8, <1>9, <1>10, <1>11, <1>12 DEF TruthInv

\* A call given up on arrives: what it touches has long been in doubt.
LEMMA TruthArrives ==
    ASSUME TapInv, TruthInv, Phone!Arrive
    PROVE  TruthInv'
  <1>1. PICK c \in hWire : Phone!Serve(c.op, c.on) /\ hWire' = hWire \ {c}
    BY DEF Phone!Arrive
  <1>2. UNCHANGED <<hUi, hOpened, hOnForm, hRun, hSaved, hDoubt>>
    BY DEF Phone!Arrive
  <1>3. c.on \in hDoubt /\ ((c.op = "save" /\ c.on \in Phone!Forms) \/ (c.op \in {"start", "end"} /\ c.on = 0))
    BY DEF TruthInv, Wired, Phone!Calls, Phone!Shift
  <1>4. /\ hShift' \in BOOLEAN /\ (c.on # 0 => hShift' = hShift)
        /\ hVisits' \in [Phone!Forms -> Nat]
        /\ \A f \in Phone!Forms : hVisits'[f] >= hVisits[f] /\ (f # c.on => hVisits'[f] = hVisits[f])
    <2>1. CASE c.op = "save" /\ c.on \in Phone!Forms
      <3>1. PICK e : e = c.on
        OBVIOUS
      <3>2. e \in Phone!Forms /\ hShift' = hShift /\ hVisits' = [hVisits EXCEPT ![e] = @ + 1]
        BY <1>1, <2>1, <3>1 DEF Phone!Serve
      <3>3. hVisits \in [Phone!Forms -> Nat] /\ hShift \in BOOLEAN
        BY DEF TruthInv, Kept
      <3>4. hShift' \in BOOLEAN
        BY <3>2, <3>3
      <3>5. /\ hVisits' \in [Phone!Forms -> Nat]
            /\ \A f \in Phone!Forms : hVisits'[f] >= hVisits[f] /\ (f # e => hVisits'[f] = hVisits[f])
        BY <3>2, <3>3
      <3> QED BY <3>1, <3>2, <3>4, <3>5
    <2>2. CASE c.op \in {"start", "end"} /\ c.on = 0
      <3>1. hShift' = (c.op = "start") /\ hVisits' = hVisits
        BY <1>1, <2>2 DEF Phone!Serve
      <3>2. hVisits \in [Phone!Forms -> Nat]
        BY DEF TruthInv, Kept
      <3> QED BY <2>2, <3>1, <3>2
    <2> QED BY <1>3, <2>1, <2>2
  <1>5. Wired'
    BY <1>1, <1>2 DEF TruthInv, Wired
  <1>6. Kept'
    <2>1. ASSUME NEW o \in Requests, hRun[o].pc = "save", hRun[o].done PROVE hVisits'[hRun[o].on] >= 1
      <3>1. hRun[o].on \in Phone!Forms
        BY <2>1, TapTypes DEF Aimed, Phone!Things, Phone!Shift
      <3> QED BY <1>4, <2>1, <3>1 DEF TruthInv, Kept
    <2>2. \A f \in hSaved : f <= hOpened /\ hVisits'[f] >= 1
      BY <1>4 DEF TruthInv, Kept
    <2> QED BY <1>2, <1>4, <2>1, <2>2 DEF TruthInv, Kept
  <1>7. ASSUME NEW x \in Phone!Things, x \notin hDoubt' PROVE Sole(x)'
    BY <1>2, <1>7 DEF TruthInv, Sole, On
  <1>8. ASSUME 0 \notin hDoubt' PROVE BannerTrue'
    <2>1. BannerTrue /\ hShift' = hShift
      BY <1>2, <1>3, <1>4, <1>8 DEF TruthInv
    <2> QED BY <1>2, <2>1 DEF BannerTrue, On
  <1>9. ASSUME NEW f \in Phone!Forms, f \notin hDoubt' PROVE FormTrue(f)'
    <2>1. FormTrue(f) /\ hVisits'[f] = hVisits[f]
      BY <1>2, <1>3, <1>4, <1>9 DEF TruthInv
    <2> QED BY <1>2, <2>1 DEF FormTrue, On
  <1> QED BY <1>5, <1>6, <1>7, <1>8, <1>9 DEF TruthInv

\* The phone is closed and opened again: what was sent is in doubt.
LEMMA TruthRestarts ==
    ASSUME TapInv, TruthInv, Phone!Restart
    PROVE  TruthInv'
  <1> DEFINE sent == {o \in Requests : Phone!Sent(o)}
  <1>1. PICK answered \in BOOLEAN, late \in SUBSET {o \in Requests : Phone!Sent(o) /\ ~hRun[o].done} :
           /\ hWire' = hWire \cup {[op |-> hRun[o].pc, on |-> hRun[o].on] : o \in late}
           /\ hUi' = [Phone!Quiet EXCEPT !.active = answered /\ hShift]
           /\ hDoubt' = hDoubt \cup {hRun[o].on : o \in sent} \cup (IF answered THEN {} ELSE {0})
    BY DEF Phone!Restart, Phone!Shift
  <1>2. /\ hRun' = [o \in Requests |-> Phone!Idle] /\ ~hOnForm'
        /\ UNCHANGED <<hShift, hVisits, hOpened, hSaved>>
    BY DEF Phone!Restart
  <1>3. \A o \in Requests : hRun'[o].pc = "idle" /\ ~hRun'[o].done
    BY <1>2, IdleTap
  <1>4. \A o \in Requests, x \in Phone!Things : ~On(o, x)'
    BY <1>3 DEF On
  <1>5. ASSUME NEW x, x \notin hDoubt', NEW o \in Requests, On(o, x) PROVE ~hRun[o].done /\ x \notin hDoubt
    <2>1. o \notin sent /\ x \notin hDoubt
      BY <1>1, <1>5 DEF On
    <2> QED BY <2>1, TapTypes DEF Aimed, Phone!Sent
  <1>6. Wired'
    <2>1. ASSUME NEW o \in late PROVE [op |-> hRun[o].pc, on |-> hRun[o].on] \in Phone!Calls /\ hRun[o].on \in hDoubt'
      <3>1. o \in sent
        OBVIOUS
      <3>2. \/ hRun[o].pc = "save" /\ hRun[o].on \in Phone!Forms
            \/ hRun[o].pc \in {"start", "end"} /\ hRun[o].on = 0
        BY <3>1, TapTypes DEF Aimed, Phone!Things, Phone!Shift, Phone!Sent
      <3> QED BY <1>1, <3>1, <3>2 DEF Phone!Calls, Phone!Shift
    <2>2. \A c \in hWire' : c \in hWire \/ \E o \in late : c = [op |-> hRun[o].pc, on |-> hRun[o].on]
      BY <1>1
    <2>3. hDoubt \subseteq hDoubt'
      BY <1>1
    <2>4. ASSUME NEW c \in hWire' PROVE c \in Phone!Calls /\ c.on \in hDoubt'
      BY <2>1, <2>2, <2>3 DEF TruthInv, Wired
    <2> QED BY <2>4 DEF Wired
  <1>7. Kept'
    BY <1>2, <1>3 DEF TruthInv, Kept
  <1>8. ASSUME NEW x \in Phone!Things PROVE Sole(x)'
    BY <1>4 DEF Sole
  <1>9. ASSUME 0 \notin hDoubt' PROVE BannerTrue'
    <2>1. answered
      BY <1>1, <1>9
    <2>2. PICK b \in BOOLEAN : b = hShift
      BY Zenon DEF TruthInv, Kept
    <2>3. hUi' = [Phone!Quiet EXCEPT !.active = b]
      <3>1. (answered /\ hShift) = b
        BY <2>1, <2>2, Zenon
      <3> QED BY <1>1, <3>1, Zenon
    <2>4. hUi'.active = b
      BY <2>3, Zenon DEF Phone!Quiet
    <2>5. \A o \in Requests : ~On(o, 0)'
      BY <1>4 DEF Phone!Things, Phone!Shift
    <2>6. hUi'.active <=> hShift'
      <3>1. hShift' = b
        BY <1>2, <2>2
      <3> QED BY <2>4, <3>1
    <2> QED BY <2>5, <2>6 DEF BannerTrue
  <1>10. ASSUME NEW f \in Phone!Forms, f \notin hDoubt' PROVE FormTrue(f)'
    <2>1. FormTrue(f) /\ f \in Phone!Things
      BY <1>1, <1>10, FormThings DEF TruthInv
    <2>2. \A o \in Requests : ~On(o, f)'
      BY <1>4, <2>1
    <2>3. (f \in hSaved => hVisits[f] = 1) /\ (f \notin hSaved => hVisits[f] = 0)
      BY <1>5, <1>10, <2>1 DEF FormTrue
    <2> QED BY <1>2, <2>2, <2>3 DEF FormTrue
  <1> QED BY <1>6, <1>7, <1>8, <1>9, <1>10 DEF TruthInv

\* A form is opened: nobody runs for it yet, and none other is in place.
LEMMA TruthOpens ==
    ASSUME TapInv, TruthInv, Phone!OpenForm
    PROVE  TruthInv'
  <1>1. /\ ~hOnForm /\ hOpened' = hOpened + 1 /\ hOnForm' /\ hOpened \in Nat
        /\ UNCHANGED <<hShift, hVisits, hWire, hRun, hSaved, hDoubt>>
    BY FormsAssumption DEF Phone!OpenForm, TapInv, HandlersInv
  <1>2. hUi'.active = hUi.active
    BY Zenon DEF Phone!OpenForm, TapInv, HandlersInv, Screens
  <1>3. Wired'
    BY <1>1 DEF TruthInv, Wired
  <1>4. Kept'
    <2>1. \A f \in hSaved : f \in Nat /\ f <= hOpened /\ hVisits[f] >= 1
      BY FormThings DEF TruthInv, Kept
    <2>2. hOpened' \notin hSaved /\ \A f \in hSaved : f <= hOpened'
      BY <1>1, <2>1
    <2> QED BY <1>1, <2>1, <2>2 DEF TruthInv, Kept
  <1>5. ASSUME NEW x \in Phone!Things, x \notin hDoubt' PROVE Sole(x)'
    BY <1>1, <1>5 DEF TruthInv, Sole, On
  <1>6. ASSUME 0 \notin hDoubt' PROVE BannerTrue'
    <2>1. BannerTrue
      BY <1>1, <1>6 DEF TruthInv
    <2> QED BY <1>1, <1>2, <2>1 DEF BannerTrue, On
  <1>7. ASSUME NEW f \in Phone!Forms, f \notin hDoubt' PROVE FormTrue(f)'
    <2>1. FormTrue(f)
      BY <1>1, <1>7 DEF TruthInv
    <2>2. \A o \in Requests : ~On(o, f)
      BY <1>1, <2>1 DEF FormTrue
    <2> QED BY <1>1, <2>1, <2>2 DEF FormTrue, On
  <1> QED BY <1>3, <1>4, <1>5, <1>6, <1>7 DEF TruthInv

\* A form is left: if somebody runs for it, that is a doubt.
LEMMA TruthLeaves ==
    ASSUME TapInv, TruthInv, Phone!LeaveForm
    PROVE  TruthInv'
  <1>1. /\ hOnForm /\ ~hOnForm' /\ hDoubt' = IF Phone!Busy(hOpened) # {} THEN hDoubt \cup {hOpened} ELSE hDoubt
        /\ UNCHANGED <<hShift, hVisits, hWire, hUi, hOpened, hRun, hSaved>>
    BY DEF Phone!LeaveForm
  <1>2. \A y : y \notin hDoubt' => y \notin hDoubt
    BY <1>1
  <1>3. Wired'
    BY <1>1 DEF TruthInv, Wired
  <1>4. Kept'
    BY <1>1 DEF TruthInv, Kept
  <1>5. ASSUME NEW x \in Phone!Things, x \notin hDoubt' PROVE Sole(x)'
    BY <1>1, <1>2, <1>5 DEF TruthInv, Sole, On
  <1>6. ASSUME 0 \notin hDoubt' PROVE BannerTrue'
    <2>1. BannerTrue
      BY <1>2, <1>6 DEF TruthInv
    <2> QED BY <1>1, <2>1 DEF BannerTrue, On
  <1>7. ASSUME NEW f \in Phone!Forms, f \notin hDoubt' PROVE FormTrue(f)'
    <2>1. FormTrue(f)
      BY <1>2, <1>7 DEF TruthInv
    <2>2. ASSUME NEW o \in Requests, On(o, f) PROVE FALSE
      <3>1. f = hOpened
        BY <2>1, <2>2 DEF FormTrue
      <3>2. Phone!Busy(hOpened) # {}
        BY <2>2, <3>1 DEF On, Phone!Busy
      <3> QED BY <1>1, <1>7, <3>1, <3>2
    <2> QED BY <1>1, <2>1, <2>2 DEF FormTrue, On
  <1> QED BY <1>3, <1>4, <1>5, <1>6, <1>7 DEF TruthInv

\* Nothing moves but the frame on screen.
LEMMA TruthStays ==
    ASSUME TruthInv, UNCHANGED <<hShift, hVisits, hWire, hUi, hOpened, hOnForm, hRun, hSaved, hDoubt>>
    PROVE  TruthInv'
  <1>1. Wired' /\ Kept'
    BY DEF TruthInv, Wired, Kept
  <1>2. ASSUME NEW x \in Phone!Things, x \notin hDoubt' PROVE Sole(x)'
    BY <1>2 DEF TruthInv, Sole, On
  <1>3. ASSUME 0 \notin hDoubt' PROVE BannerTrue'
    <2>1. BannerTrue
      BY <1>3 DEF TruthInv
    <2> QED BY <2>1 DEF BannerTrue, On
  <1>4. ASSUME NEW f \in Phone!Forms, f \notin hDoubt' PROVE FormTrue(f)'
    <2>1. FormTrue(f)
      BY <1>4 DEF TruthInv
    <2> QED BY <2>1 DEF FormTrue, On
  <1> QED BY <1>1, <1>2, <1>3, <1>4 DEF TruthInv

LEMMA TruthStep ==
    ASSUME TapInv, TruthInv, [Phone!Next]_hVars
    PROVE  TruthInv'
  <1>1. CASE UNCHANGED hVars \/ Phone!Render
    <2>1. UNCHANGED <<hShift, hVisits, hWire, hUi, hOpened, hOnForm, hRun, hSaved, hDoubt>>
      BY <1>1 DEF hVars, Phone!Render
    <2> QED BY <2>1, TruthStays
  <1>2. CASE Phone!OpenForm \/ Phone!LeaveForm \/ Phone!Arrive \/ Phone!Restart
    BY <1>2, TruthOpens, TruthLeaves, TruthArrives, TruthRestarts
  <1>3. ASSUME NEW h \in Requests, Phone!TapShift(h) PROVE TruthInv'
    <2>1. /\ Phone!Tap(h, 0, IF hShown.active THEN "locate" ELSE "enrolled")
          /\ hUi' = IF hShown.active THEN [hUi EXCEPT !.busy = TRUE] ELSE hUi
      BY <1>3 DEF Phone!TapShift, Phone!Shift
    <2>2. hUi'.active = hUi.active
      BY <2>1, Zenon DEF TapInv, HandlersInv, Screens
    <2>3. PICK p \in {"enrolled", "locate"} : p = IF hShown.active THEN "locate" ELSE "enrolled"
      OBVIOUS
    <2>4. 0 \in Phone!Things /\ Phone!Tap(h, 0, p)
      BY <2>1, <2>3 DEF Phone!Things, Phone!Shift
    <2> QED BY <2>2, <2>4, TruthTap
  <1>4. ASSUME NEW h \in Requests, Phone!TapSubmit(h) PROVE TruthInv'
    <2>1. hOnForm /\ Phone!Tap(h, hOpened, "enrolled") /\ hUi' = hUi
      BY <1>4 DEF Phone!TapSubmit
    <2>2. hOpened \in Phone!Things
      BY <2>1, FormsAssumption DEF TapInv, HandlersInv, Phone!Things, Phone!Forms
    <2> QED BY <2>1, <2>2, TruthTap
  <1>5. ASSUME NEW h \in Requests, Phone!OpenFace(h) PROVE TruthInv'
    <2>1. /\ hRun[h].pc = "enrolled" /\ ~hRun[h].done
          /\ UNCHANGED <<hShift, hVisits, hWire, hUi, hOpened, hOnForm, hSaved, hDoubt>>
      BY <1>5, TapTypes DEF Phone!OpenFace, Phone!At, Aimed
    <2>2. CASE hRun' = [hRun EXCEPT ![h].pc = "face"]
      <3>1. PICK w : w = [hRun[h] EXCEPT !.pc = "face"]
        OBVIOUS
      <3>2. w \in TapSlots /\ w.pc = "face" /\ w.on = hRun[h].on /\ (w.done <=> hRun[h].done)
        <4>1. hRun[h] \in TapSlots
          BY TapTypes
        <4> QED BY <3>1, <4>1, Zenon DEF TapSlots, TapPcs
      <3>3. hRun' = [hRun EXCEPT ![h] = w]
        BY <2>2, <3>1, Zenon
      <3> QED BY <2>1, <3>2, <3>3, TruthGoesOn DEF Alive
    <2>3. CASE hRun' = [hRun EXCEPT ![h] = Phone!Idle]
      <3>1. Wired'
        BY <2>1 DEF TruthInv, Wired
      <3> QED BY <2>1, <2>3, <3>1, TruthEnds DEF Alive
    <2> QED BY <1>5, <2>2, <2>3 DEF Phone!OpenFace
  <1>6. ASSUME NEW h \in Requests, Phone!FacePass(h) PROVE TruthInv'
    <2>1. /\ hRun[h].pc = "face" /\ ~hRun[h].done
          /\ hRun' = [hRun EXCEPT ![h] = Phone!Goes(h, TRUE)] /\ hUi' = Phone!Working(hRun[h].on, TRUE)
          /\ UNCHANGED <<hShift, hVisits, hWire, hOpened, hOnForm, hSaved, hDoubt>>
      BY <1>6, TapTypes DEF Phone!FacePass, Phone!At, Aimed
    <2>2. PICK w : w = Phone!Goes(h, TRUE)
      OBVIOUS
    <2>3. w \in TapSlots /\ w.pc # "idle" /\ w.on = hRun[h].on /\ ~w.done
      BY <2>1, <2>2, TapGoes, TapTypes
    <2>4. hUi'.active = hUi.active
      BY <2>1, TapWorks, TapTypes DEF TapInv
    <2> QED BY <2>1, <2>2, <2>3, <2>4, TruthGoesOn DEF Alive
  <1>7. ASSUME NEW h \in Requests, Phone!FaceRefuse(h) PROVE TruthInv'
    <2>1. /\ hRun[h].pc = "face" /\ ~hRun[h].done /\ hRun' = [hRun EXCEPT ![h] = Phone!Idle]
          /\ UNCHANGED <<hShift, hVisits, hWire, hUi, hOpened, hOnForm, hSaved, hDoubt>>
      BY <1>7, TapTypes DEF Phone!FaceRefuse, Phone!At, Aimed
    <2>2. Wired'
      BY <2>1 DEF TruthInv, Wired
    <2> QED BY <2>1, <2>2, TruthEnds DEF Alive
  <1>8. ASSUME NEW h \in Requests, Phone!Locate(h) PROVE TruthInv'
    <2>1. /\ hRun[h].pc = "locate" /\ ~hRun[h].done
          /\ hRun' = [hRun EXCEPT ![h].pc = IF hUi.active THEN "end" ELSE "start"]
          /\ UNCHANGED <<hShift, hVisits, hWire, hUi, hOpened, hOnForm, hSaved, hDoubt>>
      BY <1>8, TapTypes DEF Phone!Locate, Phone!At, Aimed
    <2>2. PICK p \in TapPcs : p = (IF hUi.active THEN "end" ELSE "start") /\ p # "idle"
      BY DEF TapPcs
    <2>3. PICK w : w = [hRun[h] EXCEPT !.pc = p]
      OBVIOUS
    <2>4. w \in TapSlots /\ w.pc = p /\ w.on = hRun[h].on /\ (w.done <=> hRun[h].done)
      <3>1. hRun[h] \in TapSlots
        BY TapTypes
      <3> QED BY <2>3, <3>1, Zenon DEF TapSlots
    <2>5. hRun' = [hRun EXCEPT ![h] = w]
      BY <2>1, <2>2, <2>3, Zenon
    <2> QED BY <2>1, <2>2, <2>4, <2>5, TruthGoesOn DEF Alive
  <1>9. ASSUME NEW h \in Requests, Phone!Served(h) PROVE TruthInv'
    BY <1>9, TruthServed
  <1>10. ASSUME NEW h \in Requests, Phone!ToggleAnswer(h) PROVE TruthInv'
    BY <1>10, TruthToggled
  <1>11. ASSUME NEW h \in Requests, Phone!VisitAnswer(h) PROVE TruthInv'
    <2>1. hRun[h].pc = "save" /\ hRun[h].done /\ UNCHANGED <<hShift, hVisits, hWire, hOpened>>
      BY <1>11 DEF Phone!VisitAnswer, Phone!At
    <2>2. CASE hOnForm /\ hRun[h].on = hOpened /\ hFaces # <<>>
      <3>1. PICK g : g = Phone!Top
        OBVIOUS
      <3>2. /\ hRun' = [hRun EXCEPT ![h] = Phone!Idle, ![g] = Phone!Goes(g, FALSE)]
            /\ hUi' = IF hRun[g].on = hRun[h].on THEN Phone!Working(hRun[h].on, TRUE)
                      ELSE [hUi EXCEPT !.submitting = FALSE, !.busy = TRUE]
            /\ hDoubt' = hDoubt \cup {hRun[h].on} /\ UNCHANGED <<hOnForm, hSaved>>
        BY <1>11, <2>2, <3>1 DEF Phone!VisitAnswer, Phone!Mounted
      <3>3. [hUi EXCEPT !.submitting = FALSE, !.busy = TRUE].active = hUi.active
        BY Zenon DEF TapInv, HandlersInv, Screens
      <3>4. hUi'.active = hUi.active
        BY <3>2, <3>3, TapWorks, TapTypes DEF TapInv
      <3> QED BY <2>1, <2>2, <3>1, <3>2, <3>4, TruthWakes
    <2>3. CASE ~(hOnForm /\ hRun[h].on = hOpened /\ hFaces # <<>>)
      <3>1. /\ hRun' = [hRun EXCEPT ![h] = Phone!Idle] /\ hUi' = Phone!Working(hRun[h].on, FALSE)
            /\ hOnForm' = (hOnForm /\ ~(hOnForm /\ hRun[h].on = hOpened)) /\ hDoubt' = hDoubt
            /\ hSaved' = IF hOnForm /\ hRun[h].on = hOpened THEN hSaved \cup {hRun[h].on} ELSE hSaved
        BY <1>11, <2>3 DEF Phone!VisitAnswer, Phone!Mounted
      <3>2. hUi'.active = hUi.active
        BY <3>1, TapWorks, TapTypes DEF TapInv
      <3> QED BY <2>1, <3>1, <3>2, TruthVisited
    <2> QED BY <2>2, <2>3
  <1>12. ASSUME NEW h \in Requests, Phone!GiveUp(h) PROVE TruthInv'
    <2>1. /\ hRun[h].pc \in {"start", "end", "save"} /\ hRun' = [hRun EXCEPT ![h] = Phone!Idle]
          /\ hUi' = Phone!Working(hRun[h].on, FALSE)
          /\ hWire' = hWire \/ hWire' = hWire \cup {[op |-> hRun[h].pc, on |-> hRun[h].on]}
          /\ hDoubt' = IF hRun[h].done \/ hWire' # hWire THEN hDoubt \cup {hRun[h].on} ELSE hDoubt
          /\ UNCHANGED <<hShift, hVisits, hOpened, hOnForm, hSaved>>
      BY <1>12 DEF Phone!GiveUp, Phone!Sent, Phone!UiAfterFailure
    <2>2. hUi'.active = hUi.active
      BY <2>1, TapWorks, TapTypes DEF TapInv
    <2>3. \/ hRun[h].pc = "save" /\ hRun[h].on \in Phone!Forms
          \/ hRun[h].pc \in {"start", "end"} /\ hRun[h].on = 0
      BY <2>1, TapTypes DEF Aimed, Phone!Things, Phone!Shift
    <2>4. Wired'
      <3>1. CASE hWire' = hWire
        BY <2>1, <3>1 DEF TruthInv, Wired
      <3>2. CASE hWire' # hWire
        <4>1. [op |-> hRun[h].pc, on |-> hRun[h].on] \in Phone!Calls /\ hRun[h].on \in hDoubt' /\ hDoubt \subseteq hDoubt'
          BY <2>1, <2>3, <3>2 DEF Phone!Calls, Phone!Shift
        <4> QED BY <2>1, <3>2, <4>1 DEF TruthInv, Wired
      <3> QED BY <3>1, <3>2
    <2>5. hDoubt \subseteq hDoubt' /\ (~hRun[h].done \/ hRun[h].on \in hDoubt')
      BY <2>1
    <2> QED BY <2>1, <2>2, <2>4, <2>5, TruthEnds DEF Alive
  <1> HIDE DEF TapInv, TruthInv
  <1> QED BY <1>1, <1>2, <1>3, <1>4, <1>5, <1>6, <1>7, <1>8, <1>9, <1>10, <1>11, <1>12 DEF Phone!Next

\* What the invariants leave out of FieldPhone!TypeOK.
PhoneRows ==
    /\ hOnForm \in BOOLEAN /\ hShown \in Screens /\ hDoubt \subseteq Phone!Things
    /\ \A f \in Phone!Forms : hVisits[f] <= MaxVisits

\* A visit is stored while there is room for it.
LEMMA PhoneServes ==
    ASSUME TruthInv, PhoneRows, NEW op, NEW f, op = "save" => f \in Phone!Forms, Phone!Serve(op, f)
    PROVE  \A g \in Phone!Forms : hVisits'[g] <= MaxVisits
  <1>1. hVisits \in [Phone!Forms -> Nat]
    BY DEF TruthInv, Kept
  <1>2. CASE op = "save"
    <2>1. hVisits' = [hVisits EXCEPT ![f] = @ + 1] /\ hVisits[f] < MaxVisits /\ f \in Phone!Forms
      BY <1>2 DEF Phone!Serve
    <2>2. ASSUME NEW g \in Phone!Forms PROVE hVisits'[g] <= MaxVisits
      <3>1. hVisits'[g] = (IF g = f THEN hVisits[f] + 1 ELSE hVisits[g]) /\ hVisits[f] \in Nat
        BY <1>1, <2>1
      <3> QED BY <2>1, <3>1, FormsAssumption DEF PhoneRows
    <2> QED BY <2>2
  <1>3. CASE op # "save"
    BY <1>3 DEF Phone!Serve, PhoneRows
  <1> QED BY <1>2, <1>3

\* What a handler in flight is about is a thing.
LEMMA PhoneAbout == ASSUME TapInv, NEW h \in Requests PROVE hRun[h].on \in Phone!Things
  BY TapTypes DEF TapSlots

\* Every step of the phone keeps the types.
LEMMA PhoneRowsStep ==
    ASSUME TapInv, TruthInv, PhoneRows, [Phone!Next]_hVars, TapInv'
    PROVE  PhoneRows'
  <1>0. hUi \in Screens /\ hUi' \in Screens /\ hOpened \in 0..MaxForms
    BY DEF TapInv, HandlersInv
  <1>1. CASE UNCHANGED hVars
    BY <1>1 DEF hVars, PhoneRows
  <1>2. CASE Phone!Render
    BY <1>0, <1>2 DEF Phone!Render, PhoneRows
  <1>3. CASE Phone!OpenForm
    <2>1. hShown' = [hShown EXCEPT !.submitting = FALSE]
      BY <1>3 DEF Phone!OpenForm
    <2>2. hShown' \in Screens
      BY <2>1, Zenon DEF PhoneRows, Screens
    <2>3. hOnForm' \in BOOLEAN /\ UNCHANGED <<hVisits, hDoubt>>
      BY <1>3 DEF Phone!OpenForm
    <2> QED BY <2>2, <2>3 DEF PhoneRows
  <1>4. CASE Phone!LeaveForm
    <2>1. hOnForm /\ hOnForm' = FALSE /\ UNCHANGED <<hVisits, hShown>> /\ hDoubt' \in {hDoubt, hDoubt \cup {hOpened}}
      BY <1>4 DEF Phone!LeaveForm
    <2>2. hOpened \in Phone!Things
      BY <1>0, <2>1, FormsAssumption DEF Phone!Things, Phone!Forms, Phone!Shift
    <2> QED BY <2>1, <2>2 DEF PhoneRows
  <1>5. CASE Phone!Arrive
    <2>1. PICK c \in hWire : Phone!Serve(c.op, c.on)
      BY <1>5 DEF Phone!Arrive
    <2>2. c.op = "save" => c.on \in Phone!Forms
      BY DEF TruthInv, Wired, Phone!Calls
    <2>3. \A g \in Phone!Forms : hVisits'[g] <= MaxVisits
      BY <2>1, <2>2, PhoneServes
    <2> QED BY <1>5, <2>3 DEF Phone!Arrive, PhoneRows
  <1>6. CASE Phone!Restart
    <2>1. PICK answered \in BOOLEAN :
              hDoubt' = hDoubt \cup {hRun[h].on : h \in {o \in Requests : Phone!Sent(o)}}
                               \cup (IF answered THEN {} ELSE {0})
      BY <1>6 DEF Phone!Restart, Phone!Shift
    <2>2. hDoubt' \subseteq Phone!Things
      BY <2>1, PhoneAbout DEF PhoneRows, Phone!Things, Phone!Shift
    <2>3. hOnForm' = FALSE /\ hShown' = hUi' /\ UNCHANGED hVisits
      BY <1>6 DEF Phone!Restart
    <2> QED BY <1>0, <2>2, <2>3 DEF PhoneRows
  <1>7. ASSUME NEW h \in Requests, NEW x \in Phone!Things, NEW pc, Phone!Tap(h, x, pc) PROVE PhoneRows'
    <2>1. hDoubt' \in {hDoubt, hDoubt \cup {x}} /\ UNCHANGED <<hVisits, hShown, hOnForm>>
      BY <1>7 DEF Phone!Tap
    <2> QED BY <2>1 DEF PhoneRows
  <1>8. ASSUME NEW h \in Requests, Phone!TapShift(h) PROVE PhoneRows'
    <2>1. 0 \in Phone!Things /\ \E pc : Phone!Tap(h, 0, pc)
      BY <1>8 DEF Phone!TapShift, Phone!Shift, Phone!Things
    <2> QED BY <1>7, <2>1
  <1>9. ASSUME NEW h \in Requests, Phone!TapSubmit(h) PROVE PhoneRows'
    <2>1. hOnForm /\ Phone!Tap(h, hOpened, "enrolled")
      BY <1>9 DEF Phone!TapSubmit
    <2>2. hOpened \in Phone!Things
      BY <1>0, <2>1, FormsAssumption DEF Phone!Things, Phone!Forms, Phone!Shift
    <2> QED BY <1>7, <2>1, <2>2
  <1>10. ASSUME NEW h \in Requests,
                Phone!OpenFace(h) \/ Phone!FacePass(h) \/ Phone!FaceRefuse(h) \/ Phone!Locate(h) \/ Phone!ToggleAnswer(h)
         PROVE  PhoneRows'
    <2>1. UNCHANGED <<hVisits, hShown, hOnForm, hDoubt>>
      BY <1>10 DEF Phone!OpenFace, Phone!FacePass, Phone!FaceRefuse, Phone!Locate, Phone!ToggleAnswer
    <2> QED BY <2>1 DEF PhoneRows
  <1>11. ASSUME NEW h \in Requests, Phone!Served(h) PROVE PhoneRows'
    <2>1. /\ Phone!Serve(hRun[h].pc, hRun[h].on) /\ UNCHANGED <<hShown, hOnForm>>
          /\ hDoubt' \in {hDoubt, hDoubt \ {Phone!Shift}}
      BY <1>11 DEF Phone!Served
    <2>2. hRun[h].pc = "save" => hRun[h].on \in Phone!Forms
      BY TapTypes, PhoneAbout DEF Aimed, Phone!Things, Phone!Shift
    <2>3. \A g \in Phone!Forms : hVisits'[g] <= MaxVisits
      BY <2>1, <2>2, PhoneServes
    <2> QED BY <2>1, <2>3 DEF PhoneRows
  <1>12. ASSUME NEW h \in Requests, Phone!VisitAnswer(h) PROVE PhoneRows'
    <2>1. UNCHANGED <<hVisits, hShown>> /\ hDoubt' \in {hDoubt, hDoubt \cup {hRun[h].on}}
      BY <1>12 DEF Phone!VisitAnswer
    <2>2. hOnForm' = hOnForm \/ hOnForm' = (hOnForm /\ ~Phone!Mounted(hRun[h].on))
      BY <1>12 DEF Phone!VisitAnswer
    <2>3. hOnForm' \in BOOLEAN
      BY <2>2, Zenon DEF PhoneRows
    <2> QED BY <2>1, <2>3, PhoneAbout DEF PhoneRows
  <1>13. ASSUME NEW h \in Requests, Phone!GiveUp(h) PROVE PhoneRows'
    <2>1. UNCHANGED <<hVisits, hShown, hOnForm>> /\ hDoubt' \in {hDoubt, hDoubt \cup {hRun[h].on}}
      BY <1>13 DEF Phone!GiveUp
    <2> QED BY <2>1, PhoneAbout DEF PhoneRows
  <1> HIDE DEF TapInv, TruthInv, PhoneRows
  <1> QED BY <1>1, <1>2, <1>3, <1>4, <1>5, <1>6, <1>8, <1>9, <1>10, <1>11, <1>12, <1>13 DEF Phone!Next

\* What holds of the phone throughout.
LEMMA PhoneAlways == OfficeSpec => [](part = "phone" => TapInv /\ TruthInv /\ PhoneRows)
  <1> DEFINE Inv == part = "phone" => TapInv /\ TruthInv /\ PhoneRows
  <1>1. OfficeInit => Inv
    <2> SUFFICES ASSUME Phone!Init PROVE TapInv /\ TruthInv /\ PhoneRows
      BY DEF OfficeInit
    <2>1. \A h \in Requests : hRun[h] = Phone!Idle
      BY DEF Phone!Init
    <2>2. TapInv
      BY <2>1, PhoneInit, IdleTap DEF TapInv, Crowded, Aside, Gated, Alive
    <2>3. \A h \in Requests : \A x : ~On(h, x)
      BY <2>1, IdleTap DEF On
    <2>4. Wired /\ Kept
      BY <2>1, IdleTap DEF Phone!Init, Wired, Kept
    <2>5. hUi.active <=> hShift
      BY Zenon DEF Phone!Init, Phone!Quiet
    <2>6. \A f \in Phone!Forms : hVisits[f] = 0 /\ f \notin hSaved
      BY DEF Phone!Init
    <2>7. TruthInv
      BY <2>2, <2>3, <2>4, <2>5, <2>6 DEF TruthInv, Sole, BannerTrue, FormTrue
    <2>8. hShown \in Screens
      BY Zenon DEF Phone!Init, Phone!Quiet, Screens
    <2>9. PhoneRows
      <3>1. hOnForm \in BOOLEAN /\ hDoubt = {}
        BY Zenon DEF Phone!Init
      <3>2. \A f \in Phone!Forms : hVisits[f] <= MaxVisits
        BY <2>6, FormsAssumption
      <3> QED BY <2>8, <3>1, <3>2 DEF PhoneRows
    <2> QED BY <2>2, <2>7, <2>9
  <1>2. Inv /\ [OfficeNext]_officeVars => Inv'
    <2> SUFFICES ASSUME TapInv, TruthInv, PhoneRows, [Phone!Next]_hVars PROVE TapInv' /\ TruthInv' /\ PhoneRows'
      BY PhoneSteps
    <2>1. TapInv'
      BY TapStep
    <2> QED BY <2>1, TruthStep, PhoneRowsStep
  <1> QED BY <1>1, <1>2, PTL DEF OfficeSpec

(* The phone tells the truth about the shift and about the visits it has   *)
(* saved (WorkCubit.load, start and end, VisitFormPage._submit), whatever  *)
(* is lost, late or restarted, but for what the property names.            *)
THEOREM PhoneIsTrue == OfficeSpec => []PhoneTellsTruth
  <1>1. ASSUME TapInv, TruthInv PROVE Phone!PhoneTellsTruth
    <2>1. \A x : \A h \in Requests : h \in Phone!Busy(x) <=> On(h, x)
      BY DEF On, Phone!Busy
    <2>2. ASSUME Phone!Busy(0) = {}, 0 \notin hDoubt PROVE hUi.active = hShift
      <3>1. hUi.active <=> hShift
        BY <1>1, <2>1, <2>2 DEF TruthInv, BannerTrue
      <3>2. hUi.active \in BOOLEAN /\ hShift \in BOOLEAN
        BY <1>1, Zenon DEF TapInv, HandlersInv, Screens, TruthInv, Kept
      <3> QED BY <3>1, <3>2, Zenon
    <2>3. ASSUME NEW f \in Phone!Forms, f \in hSaved PROVE hVisits[f] >= 1
      BY <1>1, <2>3 DEF TruthInv, Kept
    <2>4. ASSUME NEW f \in Phone!Forms, Phone!Busy(f) = {}, f \notin hDoubt
          PROVE  hVisits[f] = IF f \in hSaved THEN 1 ELSE 0
      BY <1>1, <2>1, <2>4 DEF TruthInv, FormTrue
    <2> QED BY <2>2, <2>3, <2>4 DEF Phone!PhoneTellsTruth, Phone!Shift
  <1>2. (part = "phone" => TapInv /\ TruthInv /\ PhoneRows) => PhoneTellsTruth
    BY <1>1 DEF PhoneTellsTruth
  <1> QED BY <1>2, PhoneAlways, PTL

-----------------------------------------------------------------------------
(* SubmitGate.                                                             *)
\* A step of the office is one of the gate, or leaves it alone.
LEMMA GateSteps ==
    ASSUME [OfficeNext]_officeVars
    PROVE  part' = part /\ (part = "gate" => [Gate!Next]_gVars)
  <1>1. CASE UNCHANGED officeVars
    BY <1>1 DEF officeVars, gVars
  <1>2. CASE OfficeNext
    BY <1>2, ZenonT(60) DEF OfficeNext, IdleBut, gVars
  <1> QED BY <1>1, <1>2

\* A firm is the seller of what is bought from a firm, once one is chosen.
FormInv(f) == f \in Gate!Forms /\ (f.kind = "LEGAL" => f.seller \in {"none", "LEGAL"})

\* The row holds the form, but for the seller's kind and the amount.
Copies(c, f) ==
    /\ c.asset = f.asset /\ c.name = f.name /\ c.rest = f.rest /\ c.seller = f.seller
    /\ c.pledges = f.pledges /\ c.total = f.total /\ c.term = f.term /\ c.method = f.method
    /\ c.months = f.months /\ c.principal = f.principal
    /\ c.katm = f.katm /\ c.employer = f.employer /\ c.income = f.income

GateInv == FormInv(gForm) /\ FormInv(gRow) /\ (gClean => Copies(gRow, gForm))

MonthsTyped == {0, 30, 31, 48, 49, 60, 61}

\* A field is typed in.
LEMMA FieldTyped ==
    ASSUME NEW f, FormInv(f)
    PROVE  /\ \A v \in BOOLEAN : /\ FormInv([f EXCEPT !.name = v]) /\ FormInv([f EXCEPT !.rest = v])
                                 /\ FormInv([f EXCEPT !.katm = v]) /\ FormInv([f EXCEPT !.employer = v])
                                 /\ FormInv([f EXCEPT !.income = v])
           /\ \A v \in SUBSET Gate!Pledges : FormInv([f EXCEPT !.pledges = v])
           /\ \A a \in Gate!Amounts : FormInv([f EXCEPT !.total = a]) /\ FormInv([f EXCEPT !.amount = a, !.total = a])
           /\ \A n \in {0, 60, 61} : FormInv([f EXCEPT !.term = n])
           /\ \A a \in Gate!Amounts, m \in Gate!Methods, n \in MonthsTyped :
                 FormInv([f EXCEPT !.principal = a, !.method = m, !.months = n])
  <1>1. f \in Gate!Forms /\ (f.kind = "LEGAL" => f.seller \in {"none", "LEGAL"})
    BY DEF FormInv
  <1>2. ASSUME NEW v \in BOOLEAN
        PROVE  /\ FormInv([f EXCEPT !.name = v]) /\ FormInv([f EXCEPT !.rest = v])
               /\ FormInv([f EXCEPT !.katm = v]) /\ FormInv([f EXCEPT !.employer = v])
               /\ FormInv([f EXCEPT !.income = v])
    <2>1. FormInv([f EXCEPT !.name = v])
      BY <1>1, ZenonT(60) DEF FormInv, Gate!Forms
    <2>2. FormInv([f EXCEPT !.rest = v])
      BY <1>1, ZenonT(60) DEF FormInv, Gate!Forms
    <2>3. FormInv([f EXCEPT !.katm = v])
      BY <1>1, ZenonT(60) DEF FormInv, Gate!Forms
    <2>4. FormInv([f EXCEPT !.employer = v])
      BY <1>1, ZenonT(60) DEF FormInv, Gate!Forms
    <2>5. FormInv([f EXCEPT !.income = v])
      BY <1>1, ZenonT(60) DEF FormInv, Gate!Forms
    <2> QED BY <2>1, <2>2, <2>3, <2>4, <2>5
  <1>3. \A v \in SUBSET Gate!Pledges : FormInv([f EXCEPT !.pledges = v])
    BY <1>1, ZenonT(60) DEF FormInv, Gate!Forms
  <1>4. \A a \in Gate!Amounts : FormInv([f EXCEPT !.total = a]) /\ FormInv([f EXCEPT !.amount = a, !.total = a])
    BY <1>1, ZenonT(60) DEF FormInv, Gate!Forms
  <1>5. \A n \in {0, 60, 61} : FormInv([f EXCEPT !.term = n])
    BY <1>1, ZenonT(60) DEF FormInv, Gate!Forms
  <1>6. \A a \in Gate!Amounts, m \in Gate!Methods, n \in MonthsTyped :
            FormInv([f EXCEPT !.principal = a, !.method = m, !.months = n])
    <2> SUFFICES ASSUME NEW a \in Gate!Amounts, NEW m \in Gate!Methods, NEW n \in MonthsTyped
                 PROVE  FormInv([f EXCEPT !.principal = a, !.method = m, !.months = n])
      OBVIOUS
    <2>1. PICK g : g = [f EXCEPT !.principal = a]
      OBVIOUS
    <2>2. g \in Gate!Forms /\ g.kind = f.kind /\ g.seller = f.seller
      BY <1>1, <2>1, ZenonT(60) DEF Gate!Forms
    <2>3. m \in Gate!Methods \cup {"none"}
      OBVIOUS
    <2>4. PICK j : j = [g EXCEPT !.method = m]
      OBVIOUS
    <2>5. j \in Gate!Forms /\ j.kind = f.kind /\ j.seller = f.seller
      BY <2>2, <2>3, <2>4, ZenonT(60) DEF Gate!Forms
    <2>6. [j EXCEPT !.months = n] \in Gate!Forms
      BY <2>5, ZenonT(60) DEF Gate!Forms, MonthsTyped
    <2>7. [j EXCEPT !.months = n].kind = f.kind /\ [j EXCEPT !.months = n].seller = f.seller
      BY <2>5, ZenonT(60) DEF Gate!Forms
    <2>8. [f EXCEPT !.principal = a, !.method = m, !.months = n] = [j EXCEPT !.months = n]
      BY <2>1, <2>4, Zenon
    <2> QED BY <1>1, <2>6, <2>7, <2>8 DEF FormInv
  <1> QED BY <1>2, <1>3, <1>4, <1>5, <1>6

LEMMA SellerTyped ==
    ASSUME NEW f, FormInv(f), NEW k \in {"LEGAL", "INDIVIDUAL"}, NEW s \in {"none", k}
    PROVE  FormInv([f EXCEPT !.kind = k, !.seller = s])
  <1>1. f \in Gate!Forms /\ k \in Gate!Kinds /\ s \in Gate!Kinds
    BY DEF FormInv, Gate!Kinds
  <1>2. k = "LEGAL" => s \in {"none", "LEGAL"}
    OBVIOUS
  <1> QED BY <1>1, <1>2, ZenonT(60) DEF FormInv, Gate!Forms

LEMMA RepricedTyped ==
    ASSUME NEW f, FormInv(f), NEW g \in Gate!Repriced(f)
    PROVE  FormInv(g)
  <1>1. g = f \/ \E a \in Gate!Amounts : g = [f EXCEPT !.amount = a, !.total = a]
    BY DEF Gate!Repriced, Gate!Financed
  <1>2. \A a \in Gate!Amounts : FormInv([f EXCEPT !.amount = a, !.total = a])
    BY FieldTyped, Zenon
  <1> QED BY <1>1, <1>2, Zenon

LEMMA GateInitial ==
    ASSUME NEW f \in {Gate!Cash, Gate!Bought} PROVE FormInv(f)
  <1>1. FormInv(Gate!Cash)
    BY DEF FormInv, Gate!Cash, Gate!Forms, Gate!Kinds, Gate!Pledges, Gate!Amounts, Gate!Methods, Gate!TERM_CAP
  <1>2. FormInv(Gate!Bought)
    BY ZenonT(60) DEF FormInv, Gate!Cash, Gate!Bought, Gate!Forms, Gate!Kinds, Gate!Pledges, Gate!Amounts, Gate!Methods, Gate!TERM_CAP
  <1> QED BY <1>1, <1>2

\* An edit leaves a form in order, and no longer the one that was stored.
LEMMA GatePatch ==
    ASSUME GateInv, NEW f, FormInv(f), Gate!Patch(f)
    PROVE  GateInv'
  BY DEF GateInv, Gate!Patch

LEMMA GateStep ==
    ASSUME GateInv, [Gate!Next]_gVars
    PROVE  GateInv'
  <1>1. CASE UNCHANGED gVars
    BY <1>1 DEF gVars, GateInv
  <1>2. CASE Gate!SetField
    <2>1. /\ FormInv([gForm EXCEPT !.name = ~@]) /\ FormInv([gForm EXCEPT !.rest = ~@])
          /\ FormInv([gForm EXCEPT !.katm = ~@]) /\ FormInv([gForm EXCEPT !.employer = ~@])
          /\ FormInv([gForm EXCEPT !.income = ~@])
      <3>1. \A b : (~b) \in BOOLEAN
        BY Zenon
      <3> QED BY <3>1, FieldTyped, ZenonT(60) DEF GateInv
    <2> QED BY <1>2, <2>1, GatePatch, Zenon DEF Gate!SetField
  <1>3. CASE Gate!SetCol
    <2>1. gForm.pledges \subseteq Gate!Pledges
      BY Zenon DEF GateInv, FormInv, Gate!Forms
    <2>2. {} \in Gate!Pledges
      BY DEF Gate!Pledges
    <2>3. ASSUME NEW c, NEW p \in Gate!Pledges PROVE FormInv([gForm EXCEPT !.pledges = (@ \ {c}) \cup {p}])
      <3>1. PICK v : v = (gForm.pledges \ {c}) \cup {p}
        OBVIOUS
      <3>2. v \in SUBSET Gate!Pledges
        BY <2>1, <3>1
      <3> QED BY <3>1, <3>2, FieldTyped, Zenon DEF GateInv
    <2>4. ASSUME NEW c PROVE FormInv([gForm EXCEPT !.pledges = @ \ {c}])
      <3>1. PICK v : v = gForm.pledges \ {c}
        OBVIOUS
      <3>2. v \in SUBSET Gate!Pledges
        BY <2>1, <3>1
      <3> QED BY <3>1, <3>2, FieldTyped, Zenon DEF GateInv
    <2>5. FormInv([gForm EXCEPT !.pledges = @ \cup {{}}])
      <3>1. PICK v : v = gForm.pledges \cup {{}}
        OBVIOUS
      <3>2. v \in SUBSET Gate!Pledges
        BY <2>1, <2>2, <3>1
      <3> QED BY <3>1, <3>2, FieldTyped, Zenon DEF GateInv
    <2> HIDE DEF GateInv
    <2> QED BY <1>3, <2>3, <2>4, <2>5, RepricedTyped, GatePatch, ZenonT(60) DEF Gate!SetCol
  <1>4. CASE Gate!SetSeller
    <2>1. \A k \in {"LEGAL", "INDIVIDUAL"} : FormInv([gForm EXCEPT !.kind = k, !.seller = "none"])
      BY SellerTyped, ZenonT(60) DEF GateInv
    <2>2. \A k \in {"LEGAL", "INDIVIDUAL"} : FormInv([gForm EXCEPT !.kind = k, !.seller = k])
      BY SellerTyped, ZenonT(60) DEF GateInv
    <2>3. (IF gForm.kind = "INDIVIDUAL" THEN "INDIVIDUAL" ELSE "LEGAL") \in {"LEGAL", "INDIVIDUAL"}
      OBVIOUS
    <2>4. ASSUME NEW k \in {"LEGAL", "INDIVIDUAL"}, NEW s \in {"none", k}, FormInv([gForm EXCEPT !.kind = k, !.seller = s]),
                 NEW f \in Gate!Repriced([gForm EXCEPT !.kind = k, !.seller = s]), Gate!Patch(f)
          PROVE  GateInv'
      <3>1. FormInv(f)
        BY <2>4, RepricedTyped, Zenon
      <3> QED BY <2>4, <3>1, GatePatch
    <2> HIDE DEF GateInv
    <2>5. \A k \in {"LEGAL", "INDIVIDUAL"} : \A f \in Gate!Repriced([gForm EXCEPT !.kind = k, !.seller = "none"]) :
             Gate!Patch(f) => GateInv'
      BY <2>1, <2>4, Zenon
    <2>6. \A k \in {"LEGAL", "INDIVIDUAL"} : \A f \in Gate!Repriced([gForm EXCEPT !.kind = k, !.seller = k]) :
             Gate!Patch(f) => GateInv'
      BY <2>2, <2>4, Zenon
    <2> QED BY <1>4, <2>3, <2>5, <2>6, ZenonT(60) DEF Gate!SetSeller
  <1>5. CASE Gate!SetDownPayment
    <2>1. ASSUME NEW f \in Gate!Financed(gForm) PROVE FormInv(f)
      <3>1. PICK a \in Gate!Amounts : f = [gForm EXCEPT !.amount = a, !.total = a]
        BY DEF Gate!Financed
      <3> QED BY <3>1, FieldTyped, Zenon DEF GateInv
    <2> QED BY <1>5, <2>1, GatePatch DEF Gate!SetDownPayment
  <1>6. CASE Gate!SetLine
    <2>1. /\ \A a \in Gate!Amounts : FormInv([gForm EXCEPT !.total = a])
          /\ \A n \in {0, 60, 61} : FormInv([gForm EXCEPT !.term = n])
      BY FieldTyped, ZenonT(60) DEF GateInv
    <2> HIDE DEF GateInv
    <2> QED BY <1>6, <2>1, GatePatch, Zenon DEF Gate!SetLine
  <1>7. CASE Gate!SetTranche
    <2>1. gForm.total \in Gate!Amounts /\ gForm.principal \in Gate!Amounts /\ gForm.term \in {0, 60, 61}
      BY Zenon DEF GateInv, FormInv, Gate!Forms
    <2>2. \A a \in Gate!Amounts, m \in Gate!Methods, n \in MonthsTyped :
             FormInv([gForm EXCEPT !.principal = a, !.method = m, !.months = n])
      BY FieldTyped, Zenon DEF GateInv
    <2>3. ASSUME NEW m \in Gate!Methods, NEW n \in {0, 30, 31, 48, 49}
          PROVE  FormInv([gForm EXCEPT !.principal = Gate!Or(gForm.total, @), !.method = m, !.months = Gate!Or(n, gForm.term)])
      <3>1. PICK a \in Gate!Amounts : a = Gate!Or(gForm.total, gForm.principal)
        BY <2>1 DEF Gate!Or
      <3>2. PICK k \in MonthsTyped : k = Gate!Or(n, gForm.term)
        BY <2>1 DEF Gate!Or, MonthsTyped
      <3>3. FormInv([gForm EXCEPT !.principal = a, !.method = m, !.months = k])
        BY <2>2, Zenon
      <3> QED BY <3>1, <3>2, <3>3, Zenon
    <2>4. ASSUME NEW p \in Gate!Amounts, NEW m \in Gate!Methods, NEW n \in {0, 30, 31, 48, 49}
          PROVE  FormInv([gForm EXCEPT !.principal = p, !.method = m, !.months = n])
      <3>1. n \in MonthsTyped
        BY DEF MonthsTyped
      <3> QED BY <2>2, <3>1, Zenon
    <2> HIDE DEF GateInv
    <2> QED BY <1>7, <2>3, <2>4, GatePatch, ZenonT(60) DEF Gate!SetTranche
  <1>8. CASE Gate!Finish
    <2>1. PICK a : a = IF gExists THEN gForm.total ELSE Gate!Or(gForm.total, gForm.amount)
      OBVIOUS
    <2>2. a \in Gate!Amounts /\ gForm \in Gate!Forms /\ "none" \in Gate!Kinds
      <3>1. gForm.total \in Gate!Amounts /\ gForm.amount \in Gate!Amounts
        BY Zenon DEF GateInv, FormInv, Gate!Forms
      <3> QED BY <2>1, <3>1 DEF Gate!Or, GateInv, FormInv, Gate!Kinds
    <2>3. gRow' = [gForm EXCEPT !.kind = "none", !.amount = a] /\ gForm' = gForm
      BY <1>8, <2>1, Zenon DEF Gate!Finish
    <2>4. gRow' \in Gate!Forms /\ gRow'.kind = "none"
      BY <2>2, <2>3, ZenonT(60) DEF Gate!Forms
    <2>5. Copies(gRow', gForm)
      BY <2>2, <2>3, ZenonT(60) DEF Gate!Forms, Copies
    <2>6. FormInv(gRow')
      BY <2>4 DEF FormInv
    <2> QED BY <2>3, <2>5, <2>6 DEF GateInv
  <1>9. CASE Gate!Reload
    <2>1. Copies(gRow, gRow)
      BY Zenon DEF Copies
    <2>2. gForm' = gRow /\ gRow' = gRow
      BY <1>9 DEF Gate!Reload
    <2> QED BY <2>1, <2>2 DEF GateInv
  <1>10. CASE Gate!Leave
    BY <1>10, GateInitial DEF Gate!Leave, GateInv
  <1> QED BY <1>1, <1>2, <1>3, <1>4, <1>5, <1>6, <1>7, <1>8, <1>9, <1>10 DEF Gate!Next

\* What GateInv leaves out of SubmitGate!TypeOK.
GateRows == gExists \in BOOLEAN /\ gClean \in BOOLEAN /\ gEdits \in 0..MaxChanges

\* A page is an edit.
LEMMA PagesPatch ==
    ASSUME Gate!SetField \/ Gate!SetCol \/ Gate!SetSeller \/ Gate!SetDownPayment \/ Gate!SetLine \/ Gate!SetTranche
    PROVE  \E f : Gate!Patch(f)
  <1>1. CASE Gate!SetField
    BY <1>1, Zenon DEF Gate!SetField
  <1>2. CASE Gate!SetCol
    BY <1>2, Zenon DEF Gate!SetCol
  <1>3. CASE Gate!SetSeller
    BY <1>3, Zenon DEF Gate!SetSeller
  <1>4. CASE Gate!SetDownPayment
    BY <1>4, Zenon DEF Gate!SetDownPayment
  <1>5. CASE Gate!SetLine
    BY <1>5, Zenon DEF Gate!SetLine
  <1>6. CASE Gate!SetTranche
    BY <1>6, Zenon DEF Gate!SetTranche
  <1> QED BY <1>1, <1>2, <1>3, <1>4, <1>5, <1>6

\* Every step of the gate keeps the types.
LEMMA GateRowsStep ==
    ASSUME GateRows, [Gate!Next]_gVars
    PROVE  GateRows'
  <1>1. CASE \E f : Gate!Patch(f)
    <2>1. gExists' \in BOOLEAN /\ gClean' \in BOOLEAN
      BY <1>1, Zenon DEF Gate!Patch, GateRows
    <2>2. gEdits < MaxChanges /\ gEdits' = gEdits + 1
      BY <1>1 DEF Gate!Patch
    <2> QED BY <2>1, <2>2, ChangesAssumption DEF GateRows
  <1>2. CASE Gate!Finish \/ Gate!Reload \/ Gate!Leave \/ UNCHANGED gVars
    <2>1. gExists' \in BOOLEAN /\ gClean' \in BOOLEAN
      BY <1>2, Zenon DEF Gate!Finish, Gate!Reload, Gate!Leave, gVars, GateRows
    <2>2. gEdits' \in {0, gEdits}
      BY <1>2 DEF Gate!Finish, Gate!Reload, Gate!Leave, gVars
    <2> QED BY <2>1, <2>2, ChangesAssumption DEF GateRows
  <1> QED BY <1>1, <1>2, PagesPatch DEF Gate!Next

\* The invariant holds while the gate runs, and with it the types.
LEMMA GateAlways == OfficeSpec => [](part = "gate" => GateInv /\ GateRows)
  <1> DEFINE Inv == part = "gate" => GateInv /\ GateRows
  <1>1. OfficeInit => Inv
    <2> SUFFICES ASSUME Gate!Init PROVE GateInv /\ GateRows
      BY DEF OfficeInit
    <2>1. GateInv
      BY GateInitial DEF Gate!Init, GateInv
    <2>2. GateRows
      <3>1. gExists \in BOOLEAN /\ gClean \in BOOLEAN /\ gEdits = 0
        BY Zenon DEF Gate!Init
      <3> QED BY <3>1, ChangesAssumption DEF GateRows
    <2> QED BY <2>1, <2>2
  <1>2. Inv /\ [OfficeNext]_officeVars => Inv'
    BY GateSteps, GateStep, GateRowsStep
  <1> QED BY <1>1, <1>2, PTL DEF OfficeSpec

\* What the wizard's list asks for, error by error.
LEMMA WizardAsks ==
    ASSUME NEW f
    PROVE  Gate!WizardErrors(f) = {} <=>
              /\ f.name /\ f.rest /\ Gate!WizardAmount(f) # 0 /\ f.term \in 1..Gate!LINE_TERM_CAP
              /\ f.pledges # {} /\ (f.asset => f.seller # "none")
              /\ \A c \in f.pledges : Gate!collateralComplete(c, Gate!WizardNewFirm(f))
              /\ Gate!isTermValid(f.method, f.months)
              /\ f.principal # 0 /\ ~Gate!trancheAmountViolations(f.total, f.principal)
              /\ f.katm
              /\ Gate!WizardAmount(f) > Gate!MICRO_THRESHOLD => f.employer /\ f.income
  <1> DEFINE E == Gate!WizardErrors(f)
  <1>1. "borrower" \in E <=> ~(f.name /\ f.rest)
    BY DEF Gate!WizardErrors
  <1>2. "amount" \in E <=> Gate!WizardAmount(f) = 0
    BY DEF Gate!WizardErrors
  <1>3. "lineTerm" \in E <=> f.term \notin 1..Gate!LINE_TERM_CAP
    BY DEF Gate!WizardErrors
  <1>4. "collateral" \in E <=> \/ f.pledges = {}
                               \/ f.asset /\ f.seller = "none"
                               \/ \E c \in f.pledges : ~Gate!collateralComplete(c, Gate!WizardNewFirm(f))
    BY DEF Gate!WizardErrors
  <1>5. "tranche" \in E <=> ~Gate!isTermValid(f.method, f.months)
    BY DEF Gate!WizardErrors
  <1>6. "principal" \in E <=> (f.principal = 0 \/ Gate!trancheAmountViolations(f.total, f.principal))
    BY DEF Gate!WizardErrors
  <1>7. "employment" \in E <=> (Gate!WizardAmount(f) > Gate!MICRO_THRESHOLD /\ ~(f.employer /\ f.income))
    BY DEF Gate!WizardErrors
  <1>8. "katm" \in E <=> ~f.katm
    BY DEF Gate!WizardErrors
  <1>9. E \subseteq {"borrower", "amount", "lineTerm", "collateral", "tranche", "principal", "katm", "employment"}
    BY DEF Gate!WizardErrors
  <1> HIDE DEF E
  <1>10. E = {} <=> /\ "borrower" \notin E /\ "amount" \notin E /\ "lineTerm" \notin E /\ "collateral" \notin E
                    /\ "tranche" \notin E /\ "principal" \notin E /\ "katm" \notin E /\ "employment" \notin E
    BY <1>9
  <1> QED BY <1>1, <1>2, <1>3, <1>4, <1>5, <1>6, <1>7, <1>8, <1>10 DEF E

(* On every application whose line carries the total the wizard's list of  *)
(* errors and the server's gate agree (useOriginationForm's errors,        *)
(* caseSubmitErrors), but for the papers of a purchase loaded again.       *)
THEOREM WizardAndGateAgree == OfficeSpec => []GateAgrees
  <1>1. ASSUME GateInv, gClean, gRow.total > 0
        PROVE  /\ Gate!Valid => Gate!GateAccepts(gRow)
               /\ Gate!GateAccepts(gRow) /\ (Gate!NewFirm(gRow) => gForm.kind = "LEGAL") => Gate!Valid
    <2>1. Copies(gRow, gForm) /\ FormInv(gForm)
      BY <1>1 DEF GateInv
    <2>2. /\ gForm.total \in Gate!Amounts /\ gForm.principal \in Gate!Amounts
      BY <2>1, Zenon DEF FormInv, Gate!Forms
    <2>3. /\ Gate!WizardAmount(gForm) = gForm.total /\ Gate!Or(gRow.total, gRow.amount) = gForm.total
          /\ gForm.total > 0 /\ (gForm.principal # 0 <=> gForm.principal > 0)
      BY <1>1, <2>1, <2>2 DEF Copies, Gate!WizardAmount, Gate!Or, Gate!Amounts
    <2>4. Gate!WizardNewFirm(gForm) /\ gForm.seller # "none" => Gate!NewFirm(gRow)
      BY <2>1 DEF Copies, FormInv, Gate!WizardNewFirm, Gate!NewFirm
    <2>5. Gate!NewFirm(gRow) /\ gForm.kind = "LEGAL" => Gate!WizardNewFirm(gForm)
      BY <2>1 DEF Copies, Gate!WizardNewFirm, Gate!NewFirm
    <2>6. \A c : \A a, b \in BOOLEAN : (a => b) /\ Gate!collateralComplete(c, a) => Gate!collateralComplete(c, b)
      BY DEF Gate!collateralComplete
    <2>7. Gate!WizardNewFirm(gForm) \in BOOLEAN /\ Gate!NewFirm(gRow) \in BOOLEAN
      BY Zenon DEF Gate!WizardNewFirm, Gate!NewFirm
    <2>8. Gate!Valid => Gate!GateAccepts(gRow)
      <3> SUFFICES ASSUME Gate!Valid PROVE Gate!GateAccepts(gRow)
        OBVIOUS
      <3>1. /\ gForm.name /\ gForm.rest /\ gForm.term \in 1..Gate!LINE_TERM_CAP
            /\ gForm.pledges # {} /\ (gForm.asset => gForm.seller # "none")
            /\ \A c \in gForm.pledges : Gate!collateralComplete(c, Gate!WizardNewFirm(gForm))
            /\ Gate!isTermValid(gForm.method, gForm.months)
            /\ gForm.principal # 0 /\ ~Gate!trancheAmountViolations(gForm.total, gForm.principal)
            /\ gForm.katm
            /\ gForm.total > Gate!MICRO_THRESHOLD => gForm.employer /\ gForm.income
        BY <2>3, WizardAsks DEF Gate!Valid
      <3>2. Gate!WizardNewFirm(gForm) => Gate!NewFirm(gRow)
        BY <2>4, <3>1 DEF Gate!WizardNewFirm
      <3>3. \A c \in gForm.pledges : Gate!collateralComplete(c, Gate!NewFirm(gRow))
        BY <2>6, <2>7, <3>1, <3>2
      <3> QED BY <2>1, <2>3, <3>1, <3>3, Zenon DEF Copies, Gate!GateAccepts, Gate!collateralOwnerErrors
    <2>9. ASSUME Gate!GateAccepts(gRow), Gate!NewFirm(gRow) => gForm.kind = "LEGAL" PROVE Gate!Valid
      <3>1. /\ gForm.name /\ gForm.rest /\ gForm.term \in 1..Gate!LINE_TERM_CAP
            /\ gForm.pledges # {} /\ (gForm.asset => gForm.seller # "none")
            /\ \A c \in gForm.pledges : Gate!collateralComplete(c, Gate!NewFirm(gRow))
            /\ Gate!isTermValid(gForm.method, gForm.months)
            /\ gForm.principal > 0 /\ ~Gate!trancheAmountViolations(gForm.total, gForm.principal)
            /\ gForm.katm
            /\ gForm.total > Gate!MICRO_THRESHOLD => gForm.employer /\ gForm.income
        BY <2>1, <2>3, <2>9, Zenon DEF Copies, Gate!GateAccepts
      <3>2. \A c \in gForm.pledges : Gate!collateralComplete(c, Gate!WizardNewFirm(gForm))
        BY <2>5, <2>6, <2>7, <2>9, <3>1
      <3>3. gForm.total # 0
        BY <2>2, <2>3 DEF Gate!Amounts
      <3> QED BY <2>3, <3>1, <3>2, <3>3, WizardAsks DEF Gate!Valid
    <2> QED BY <2>8, <2>9
  <1>2. (part = "gate" => GateInv /\ GateRows) => GateAgrees
    BY <1>1 DEF GateAgrees, Gate!GateAgrees
  <1> QED BY <1>2, GateAlways, PTL

-----------------------------------------------------------------------------
(* OriginationForm.                                                        *)
\* A step of the office is one of the wizard, or leaves it alone.
LEMMA WizardSteps ==
    ASSUME [OfficeNext]_officeVars
    PROVE  part' = part /\ (part = "wizard" => [Wizard!Next]_fVars)
  <1>1. CASE UNCHANGED officeVars
    BY <1>1 DEF officeVars, fVars
  <1>2. CASE OfficeNext
    BY <1>2 DEF OfficeNext, IdleBut, fVars
  <1> QED BY <1>1, <1>2

\* An id is one the server has given, or none.
Drafted(d) == d = Nobody \/ (d \in Drafts /\ fStored[d].exists)

ClickFields == {"kind", "id", "form", "todo", "at", "to", "got", "on", "late"}

\* A handler of a wizard that knows its draft has the id.
ClickInv(q) ==
    /\ DOMAIN q = ClickFields
    /\ Drafted(q.id) /\ Drafted(q.got) /\ Drafted(q.on)
    /\ q.late => q.id # Nobody

WizardInv ==
    /\ DOMAIN fStored = Drafts /\ \A d \in Drafts : DOMAIN fStored[d] = {"exists", "data"}
    /\ DOMAIN fRun = Requests /\ \A h \in Requests : ClickInv(fRun[h])
    /\ Drafted(fCaseId) /\ (fKnown => fCaseId # Nobody)

\* No draft is gone.
Grows ==
    /\ DOMAIN fStored' = Drafts /\ \A d \in Drafts : DOMAIN fStored'[d] = {"exists", "data"}
    /\ \A d \in Drafts : fStored[d].exists => fStored'[d].exists

LEMMA DraftedStays ==
    ASSUME Grows PROVE \A d : Drafted(d) => Drafted(d)'
  BY DEF Grows, Drafted

LEMMA ClickStored ==
    ASSUME NEW q, DOMAIN q = ClickFields, NEW v
    PROVE  /\ LET x == [q EXCEPT !.got = v] IN
                 /\ DOMAIN x = ClickFields /\ x.got = v /\ x.id = q.id /\ x.on = q.on /\ x.late = q.late
           /\ LET x == [q EXCEPT !.todo = v] IN
                 /\ DOMAIN x = ClickFields /\ x.got = q.got /\ x.id = q.id /\ x.on = q.on /\ x.late = q.late
           /\ LET x == [q EXCEPT !.on = v] IN
                 /\ DOMAIN x = ClickFields /\ x.got = q.got /\ x.id = q.id /\ x.on = v /\ x.late = q.late
  BY DEF ClickFields

LEMMA IdleClick ==
    /\ DOMAIN Wizard!Idle = ClickFields
    /\ Wizard!Idle.id = Nobody /\ Wizard!Idle.got = Nobody /\ Wizard!Idle.on = Nobody /\ Wizard!Idle.late = FALSE
  BY DEF Wizard!Idle, ClickFields

\* A handler moves to another slot.
LEMMA OneClick ==
    ASSUME WizardInv, Grows, NEW h \in Requests, NEW w, fRun' = [fRun EXCEPT ![h] = w],
           DOMAIN w = ClickFields, Drafted(w.id)', Drafted(w.got)', Drafted(w.on)', w.late => w.id # Nobody,
           Drafted(fCaseId)', fKnown' => fCaseId' # Nobody
    PROVE  WizardInv'
  <1>1. DOMAIN fRun' = Requests /\ fRun'[h] = w /\ \A o \in Requests \ {h} : fRun'[o] = fRun[o]
    BY DEF WizardInv
  <1>2. ASSUME NEW o \in Requests PROVE ClickInv(fRun[o])'
    <2>1. CASE o = h
      BY <1>1, <2>1 DEF ClickInv, Drafted
    <2>2. CASE o # h
      <3>1. ClickInv(fRun[o]) /\ fRun'[o] = fRun[o]
        BY <1>1, <2>2 DEF WizardInv
      <3>2. Drafted(fRun[o].id)' /\ Drafted(fRun[o].got)' /\ Drafted(fRun[o].on)'
        BY <3>1 DEF ClickInv, Grows, Drafted
      <3> QED BY <3>1, <3>2 DEF ClickInv
    <2> QED BY <2>1, <2>2
  <1> QED BY <1>1, <1>2 DEF WizardInv, Grows

\* Only the page, the form or the flags change, or the draft that is loaded.
LEMMA NoClick ==
    ASSUME WizardInv, UNCHANGED <<fRun, fStored>>, Drafted(fCaseId), fKnown' => fCaseId' # Nobody,
           Drafted(fCaseId')
    PROVE  WizardInv'
  <1>1. Drafted(fCaseId)'
    BY DEF Drafted
  <1>2. ASSUME NEW o \in Requests PROVE ClickInv(fRun[o])'
    BY DEF WizardInv, ClickInv, Drafted
  <1> QED BY <1>1, <1>2 DEF WizardInv

\* The server creates a draft for a handler without an id, or stores into
\* the draft of one that has it.
LEMMA WizardCreates ==
    ASSUME WizardInv, NEW h \in Requests, Wizard!Create(h), fRun[h].id = Nobody, UNCHANGED <<fCaseId, fKnown>>
    PROVE  WizardInv' /\ Wizard!LateMakesNone
  <1>1. PICK d \in Drafts : /\ ~fStored[d].exists
                            /\ fStored' = [fStored EXCEPT ![d] = [exists |-> TRUE, data |-> fRun[h].form]]
                            /\ fMade' = fMade \cup {d} /\ fRun' = [fRun EXCEPT ![h].got = d]
    BY DEF Wizard!Create, Wizard!Exists
  <1>2. Grows /\ fStored'[d].exists
    BY <1>1 DEF WizardInv, Grows
  <1>3. PICK w : w = [fRun[h] EXCEPT !.got = d]
    OBVIOUS
  <1>4. ClickInv(fRun[h])
    BY DEF WizardInv
  <1>5. DOMAIN w = ClickFields /\ w.got = d /\ w.id = fRun[h].id /\ w.on = fRun[h].on /\ w.late = fRun[h].late
    BY <1>3, <1>4, ClickStored DEF ClickInv
  <1>6. fRun' = [fRun EXCEPT ![h] = w]
    BY <1>1, <1>3, Zenon
  <1>7. Drafted(w.id)' /\ Drafted(w.on)'
    BY <1>2, <1>4, <1>5, DraftedStays DEF ClickInv
  <1>8. Drafted(w.got)'
    BY <1>1, <1>2, <1>5 DEF Drafted
  <1>9. Drafted(fCaseId)' /\ (fKnown' => fCaseId' # Nobody)
    BY <1>2 DEF WizardInv, Drafted, Grows
  <1>10. w.late => w.id # Nobody
    BY <1>4, <1>5 DEF ClickInv
  <1>11. WizardInv'
    BY <1>2, <1>5, <1>6, <1>7, <1>8, <1>9, <1>10, OneClick
  <1>12. ASSUME NEW o \in Requests, fRun[o].late, NEW e \in fMade' \ fMade PROVE fRun'[o].got # e
    <2>1. e = d
      BY <1>1, <1>12
    <2>2. o # h
      BY <1>4, <1>12 DEF ClickInv
    <2>3. fRun'[o] = fRun[o] /\ Drafted(fRun[o].got)
      BY <1>6, <2>2 DEF WizardInv, ClickInv
    <2> QED BY <1>1, <2>1, <2>3, DraftsAssumption DEF Drafted
  <1> QED BY <1>11, <1>12 DEF Wizard!LateMakesNone

LEMMA WizardStores ==
    ASSUME WizardInv, NEW h \in Requests, NEW v, Drafted(v), UNCHANGED <<fCaseId, fKnown>>, Grows,
           fRun' = [fRun EXCEPT ![h].got = v]
    PROVE  WizardInv'
  <1>1. PICK w : w = [fRun[h] EXCEPT !.got = v]
    OBVIOUS
  <1>2. ClickInv(fRun[h])
    BY DEF WizardInv
  <1>3. DOMAIN w = ClickFields /\ w.got = v /\ w.id = fRun[h].id /\ w.on = fRun[h].on /\ w.late = fRun[h].late
    BY <1>1, <1>2, ClickStored DEF ClickInv
  <1>4. fRun' = [fRun EXCEPT ![h] = w]
    BY <1>1, Zenon
  <1>5. Drafted(w.id)' /\ Drafted(w.on)' /\ Drafted(w.got)'
    BY <1>2, <1>3, DraftedStays DEF ClickInv
  <1>6. Drafted(fCaseId)' /\ (fKnown' => fCaseId' # Nobody)
    BY DEF WizardInv, Drafted, Grows
  <1>7. w.late => w.id # Nobody
    BY <1>2, <1>3 DEF ClickInv
  <1> QED BY <1>3, <1>4, <1>5, <1>6, <1>7, OneClick

\* The data of a draft changes.
LEMMA WizardGrows ==
    ASSUME WizardInv, NEW d \in Drafts, NEW v, fStored' = [fStored EXCEPT ![d].data = v]
    PROVE  Grows
  <1>1. PICK y : y = fStored[d]
    OBVIOUS
  <1>2. DOMAIN y = {"exists", "data"}
    BY <1>1 DEF WizardInv
  <1>3. PICK z : z = [y EXCEPT !.data = v]
    OBVIOUS
  <1>4. DOMAIN z = {"exists", "data"} /\ z.exists = y.exists
    BY <1>2, <1>3
  <1>5. fStored' = [fStored EXCEPT ![d] = z]
    BY <1>1, <1>3, Zenon
  <1> QED BY <1>1, <1>4, <1>5 DEF WizardInv, Grows

\* A click: its handler takes the id on screen along.
LEMMA WizardStarts ==
    ASSUME WizardInv, NEW h \in Requests, NEW kind, NEW todo, NEW to, Wizard!Start(h, kind, todo, to)
    PROVE  WizardInv' /\ fMade' = fMade
  <1>1. PICK w : w = [Wizard!Idle EXCEPT !.kind = kind, !.id = fCaseId, !.form = fForm, !.todo = todo,
                                         !.at = fStep, !.to = to, !.on = fCaseId, !.late = fKnown]
    OBVIOUS
  <1>2. fRun' = [fRun EXCEPT ![h] = w] /\ UNCHANGED <<fCaseId, fKnown, fStored, fMade>>
    BY <1>1, Zenon DEF Wizard!Start
  <1>3. DOMAIN w = ClickFields /\ w.id = fCaseId /\ w.on = fCaseId /\ w.got = Nobody /\ (w.late <=> fKnown)
    BY <1>1 DEF Wizard!Idle, ClickFields
  <1>4. Grows
    BY <1>2 DEF WizardInv, Grows
  <1>5. Drafted(w.id)' /\ Drafted(w.on)' /\ Drafted(w.got)' /\ Drafted(fCaseId)'
    BY <1>2, <1>3 DEF WizardInv, Drafted
  <1>6. (w.late => w.id # Nobody) /\ (fKnown' => fCaseId' # Nobody)
    BY <1>2, <1>3 DEF WizardInv
  <1>7. WizardInv'
    BY <1>2, <1>3, <1>4, <1>5, <1>6, OneClick
  <1> QED BY <1>2, <1>7

\* The answer: the wizard keeps the id, the handler goes on or is over.
LEMMA WizardAnswers ==
    ASSUME WizardInv, NEW h \in Requests, Wizard!Answer(h)
    PROVE  WizardInv' /\ fMade' = fMade
  <1>1. PICK q : q = fRun[h]
    OBVIOUS
  <1>2. ClickInv(q) /\ q.got # Nobody /\ UNCHANGED <<fStored, fMade>>
    BY <1>1 DEF Wizard!Answer, Wizard!Calling, WizardInv
  <1>3. PICK rest : rest = Tail(q.todo)
    OBVIOUS
  <1>4. PICK on : on = IF Wizard!Op(h) = "ensure" THEN q.got ELSE q.on
    OBVIOUS
  <1>5. PICK more : more = [q EXCEPT !.todo = rest, !.got = Nobody, !.on = on]
    OBVIOUS
  <1>6. fRun' = [fRun EXCEPT ![h] = IF rest = <<>> THEN Wizard!Idle ELSE more]
    <2>1. PICK v : /\ v = [fRun[h] EXCEPT !.todo = Tail(fRun[h].todo), !.got = Nobody,
                                          !.on = IF Wizard!Op(h) = "ensure" THEN fRun[h].got ELSE fRun[h].on]
                   /\ fRun' = [fRun EXCEPT ![h] = IF Tail(fRun[h].todo) = <<>> THEN Wizard!Idle ELSE v]
      BY Zenon DEF Wizard!Answer
    <2>2. Tail(fRun[h].todo) = rest
      BY <1>1, <1>3, Zenon
    <2>3. v = [q EXCEPT !.todo = rest, !.got = Nobody, !.on = IF Wizard!Op(h) = "ensure" THEN q.got ELSE q.on]
      BY <1>1, <2>1, <2>2, Zenon
    <2>4. v = more
      BY <1>4, <1>5, <2>3, Zenon
    <2> QED BY <2>1, <2>2, <2>4, Zenon
  <1>7. DOMAIN more = ClickFields /\ more.id = q.id /\ more.got = Nobody /\ more.on = on /\ more.late = q.late
    BY <1>2, <1>5 DEF ClickInv, ClickFields
  <1>8. Grows
    BY <1>2 DEF WizardInv, Grows
  <1>9. /\ fCaseId' = IF Wizard!Created(h) THEN q.got ELSE fCaseId
        /\ fKnown' => fKnown \/ Wizard!Created(h)
    BY <1>1 DEF Wizard!Answer, Wizard!SetCaseId
  <1>10. Drafted(fCaseId)' /\ (fKnown' => fCaseId' # Nobody)
    BY <1>2, <1>9 DEF WizardInv, ClickInv, Drafted
  <1>11. Drafted(more.id)' /\ Drafted(more.got)' /\ Drafted(more.on)' /\ (more.late => more.id # Nobody)
    BY <1>2, <1>4, <1>7 DEF ClickInv, Drafted
  <1>12. PICK w : w = IF rest = <<>> THEN Wizard!Idle ELSE more
    OBVIOUS
  <1>13. DOMAIN w = ClickFields /\ Drafted(w.id)' /\ Drafted(w.got)' /\ Drafted(w.on)' /\ (w.late => w.id # Nobody)
    BY <1>7, <1>11, <1>12, IdleClick DEF Drafted
  <1>14. fRun' = [fRun EXCEPT ![h] = w]
    BY <1>6, <1>12, Zenon
  <1>15. WizardInv'
    BY <1>8, <1>10, <1>13, <1>14, OneClick, ZenonT(60)
  <1> QED BY <1>2, <1>15

LEMMA WizardStep ==
    ASSUME WizardInv, [Wizard!Next]_fVars
    PROVE  WizardInv' /\ (UNCHANGED fVars \/ Wizard!LateMakesNone)
  <1>0. fMade' = fMade => Wizard!LateMakesNone
    BY DEF Wizard!LateMakesNone
  <1>1. CASE UNCHANGED fVars
    <2>1. UNCHANGED <<fRun, fStored, fCaseId, fKnown>>
      BY <1>1 DEF fVars
    <2> QED BY <1>1, <2>1, NoClick DEF WizardInv
  <1>2. CASE Wizard!Type \/ Wizard!TurnPage \/ Wizard!Load
    <2>1. UNCHANGED <<fRun, fStored, fCaseId, fKnown, fMade>>
      BY <1>2 DEF Wizard!Type, Wizard!TurnPage, Wizard!Load
    <2> QED BY <1>0, <2>1, NoClick DEF WizardInv
  <1>3. CASE Wizard!Reopen
    <2>1. fCaseId' \in Drafts /\ fStored[fCaseId'].exists /\ fMade' = {} /\ UNCHANGED <<fRun, fStored>>
      BY <1>3 DEF Wizard!Reopen, Wizard!Exists
    <2>2. Drafted(fCaseId') /\ fCaseId' # Nobody
      BY <2>1, DraftsAssumption DEF Drafted
    <2>3. WizardInv'
      BY <2>1, <2>2, NoClick DEF WizardInv
    <2>4. Wizard!LateMakesNone
      BY <2>1 DEF Wizard!LateMakesNone
    <2> QED BY <2>3, <2>4
  <1>4. ASSUME NEW h \in Requests,
               Wizard!NextStep(h) \/ Wizard!GoTo(h) \/ Wizard!Finish(h) \/ Wizard!Scan(h) \/ Wizard!Media(h)
        PROVE  WizardInv' /\ Wizard!LateMakesNone
    <2>1. \E kind, todo, to : Wizard!Start(h, kind, todo, to)
      BY <1>4, Zenon DEF Wizard!NextStep, Wizard!GoTo, Wizard!Finish, Wizard!Scan, Wizard!Media
    <2> QED BY <1>0, <2>1, WizardStarts
  <1>5. ASSUME NEW h \in Requests,
               Wizard!CallEnsure(h) \/ Wizard!CallSection(h) \/ Wizard!CallAll(h) \/ Wizard!CallUpload(h)
        PROVE  WizardInv' /\ Wizard!LateMakesNone
    <2>1. UNCHANGED <<fCaseId, fKnown>> /\ ClickInv(fRun[h])
      BY <1>5 DEF Wizard!CallEnsure, Wizard!CallSection, Wizard!CallAll, Wizard!CallUpload, WizardInv
    <2>2. CASE fRun[h].id = Nobody /\ Wizard!Create(h)
      BY <2>1, <2>2, WizardCreates
    <2>3. CASE /\ fRun' = [fRun EXCEPT ![h].got = fRun[h].id] \/ fRun' = [fRun EXCEPT ![h].got = fRun[h].on]
               /\ fMade' = fMade
               /\ \/ fStored' = fStored
                  \/ fRun[h].id # Nobody /\ \E v : fStored' = [fStored EXCEPT ![fRun[h].id].data = v]
      <3>1. fRun[h].id # Nobody => fRun[h].id \in Drafts
        BY <2>1 DEF ClickInv, Drafted
      <3>2. Grows
        <4>1. CASE fStored' = fStored
          BY <4>1 DEF WizardInv, Grows
        <4>2. CASE fRun[h].id # Nobody /\ \E v : fStored' = [fStored EXCEPT ![fRun[h].id].data = v]
          <5>1. PICK d \in Drafts : d = fRun[h].id
            BY <3>1, <4>2
          <5>2. PICK v : fStored' = [fStored EXCEPT ![d].data = v]
            BY <4>2, <5>1
          <5> QED BY <5>2, WizardGrows
        <4> QED BY <2>3, <4>1, <4>2
      <3>3. Drafted(fRun[h].id) /\ Drafted(fRun[h].on)
        BY <2>1 DEF ClickInv
      <3>4. WizardInv'
        BY <2>1, <2>3, <3>2, <3>3, WizardStores
      <3> QED BY <1>0, <2>3, <3>4
    <2>4. CASE Wizard!CallEnsure(h)
      BY <2>2, <2>3, <2>4 DEF Wizard!CallEnsure
    <2>5. CASE Wizard!CallSection(h)
      BY <2>2, <2>3, <2>5 DEF Wizard!CallSection, Wizard!Store
    <2>6. CASE Wizard!CallAll(h)
      BY <2>2, <2>3, <2>6 DEF Wizard!CallAll
    <2>7. CASE Wizard!CallUpload(h)
      BY <2>2, <2>3, <2>7 DEF Wizard!CallUpload
    <2> QED BY <1>5, <2>4, <2>5, <2>6, <2>7
  <1>6. ASSUME NEW h \in Requests, Wizard!Answer(h) PROVE WizardInv' /\ Wizard!LateMakesNone
    BY <1>0, <1>6, WizardAnswers
  <1>7. ASSUME NEW h \in Requests, Wizard!Fail(h) PROVE WizardInv' /\ Wizard!LateMakesNone
    <2>1. fRun' = [fRun EXCEPT ![h] = Wizard!Idle] /\ UNCHANGED <<fCaseId, fKnown, fStored, fMade>>
      BY <1>7 DEF Wizard!Fail
    <2>2. Grows
      BY <2>1 DEF WizardInv, Grows
    <2>3. Drafted(Nobody)' /\ Drafted(fCaseId)' /\ (fKnown' => fCaseId' # Nobody)
      BY <2>1 DEF WizardInv, Drafted
    <2>4. PICK w : w = Wizard!Idle
      OBVIOUS
    <2>5. /\ DOMAIN w = ClickFields /\ w.id = Nobody /\ w.got = Nobody /\ w.on = Nobody /\ ~w.late
          /\ fRun' = [fRun EXCEPT ![h] = w]
      BY <2>1, <2>4, IdleClick
    <2>6. Drafted(w.id)' /\ Drafted(w.got)' /\ Drafted(w.on)'
      BY <2>5 DEF Drafted
    <2>7. WizardInv'
      BY <2>2, <2>3, <2>5, <2>6, OneClick
    <2> QED BY <1>0, <2>1, <2>7
  <1> HIDE DEF WizardInv
  <1> QED BY <1>1, <1>2, <1>3, <1>4, <1>5, <1>6, <1>7 DEF Wizard!Next

\* What WizardInv leaves out of OriginationForm!TypeOK: only a wizard opened
\* on a draft loads it again.
FormPages == 0..Wizard!Last

WizardRows ==
    /\ fForm \subseteq Typed /\ fKept \subseteq Typed /\ fMade \subseteq Drafts /\ fStep \in FormPages
    /\ fLoads \in BOOLEAN /\ fReload \in BOOLEAN /\ fSaving \in BOOLEAN /\ fKnown \in BOOLEAN
    /\ fStored \in [Drafts -> [exists : BOOLEAN, data : SUBSET Typed]]
    /\ (fReload => fLoads) /\ (fLoads => fKnown)
    /\ \A h \in Requests : fRun[h].form \subseteq Typed /\ fRun[h].to \in FormPages

\* A handler moves to another slot that is typed.
LEMMA RowsClick ==
    ASSUME WizardInv, WizardRows, NEW h \in Requests, NEW w, fRun' = [fRun EXCEPT ![h] = w],
           w.form \subseteq Typed, w.to \in FormPages
    PROVE  \A o \in Requests : fRun'[o].form \subseteq Typed /\ fRun'[o].to \in FormPages
  BY DEF WizardInv, WizardRows

\* The sections and the page of a slot that goes on are those it had.
LEMMA ClickGoesOn ==
    ASSUME NEW q, ClickInv(q), NEW v, NEW x, NEW y
    PROVE  /\ [q EXCEPT !.got = v].form = q.form /\ [q EXCEPT !.got = v].to = q.to
           /\ [q EXCEPT !.todo = x, !.got = v, !.on = y].form = q.form
           /\ [q EXCEPT !.todo = x, !.got = v, !.on = y].to = q.to
  BY DEF ClickInv, ClickFields

LEMMA PagesTyped == 0 \in FormPages /\ 1 \in FormPages /\ 1..Wizard!Last \subseteq FormPages
  BY StepsAssumption DEF FormPages, Wizard!Last

\* A row that is stored in a draft is typed.
LEMMA RowStored ==
    ASSUME WizardRows, NEW d \in Drafts, NEW v \in SUBSET Typed
    PROVE  /\ [fStored EXCEPT ![d].data = v] \in [Drafts -> [exists : BOOLEAN, data : SUBSET Typed]]
           /\ [fStored EXCEPT ![d] = [exists |-> TRUE, data |-> v]] \in [Drafts -> [exists : BOOLEAN, data : SUBSET Typed]]
  BY Zenon DEF WizardRows

\* Every step of the wizard keeps the types.
LEMMA WizardRowsStep ==
    ASSUME WizardInv, WizardRows, [Wizard!Next]_fVars
    PROVE  WizardRows'
  <1>1. CASE UNCHANGED fVars
    BY <1>1 DEF fVars, WizardRows
  <1>2. CASE Wizard!Type
    <2>1. PICK x \in Wizard!Fields(STEPS[fStep]) : fForm' = fForm \cup {x}
      BY <1>2 DEF Wizard!Type
    <2>2. fForm' \subseteq Typed
      BY <2>1 DEF Wizard!Fields, WizardRows
    <2>3. UNCHANGED <<fCaseId, fLoads, fReload, fStep, fSaving, fRun, fStored, fKnown, fMade, fKept>>
      BY <1>2 DEF Wizard!Type
    <2> QED BY <2>2, <2>3 DEF WizardRows
  <1>3. CASE Wizard!TurnPage
    <2>1. fStep' \in 1..Wizard!Last
      BY <1>3 DEF Wizard!TurnPage
    <2>2. UNCHANGED <<fForm, fCaseId, fLoads, fReload, fSaving, fRun, fStored, fKnown, fMade, fKept>>
      BY <1>3 DEF Wizard!TurnPage
    <2> QED BY <2>1, <2>2, PagesTyped DEF WizardRows
  <1>4. CASE Wizard!Load
    <2>1. /\ fReload /\ fForm' = fStored[fCaseId].data /\ fReload' = FALSE
          /\ UNCHANGED <<fCaseId, fLoads, fStep, fSaving, fRun, fStored, fKnown, fMade, fKept>>
      BY <1>4 DEF Wizard!Load
    <2>2. fCaseId \in Drafts
      BY <2>1 DEF WizardRows, WizardInv, Drafted
    <2>3. fForm' \subseteq Typed
      BY <2>1, <2>2 DEF WizardRows
    <2> QED BY <2>1, <2>3 DEF WizardRows
  <1>5. CASE Wizard!Reopen
    <2>1. PICK d \in Drafts : fForm' = fStored[d].data
      BY <1>5 DEF Wizard!Reopen
    <2>2. fForm' \subseteq Typed
      BY <2>1 DEF WizardRows
    <2>3. /\ fLoads' = TRUE /\ fReload' = FALSE /\ fStep' = 1 /\ fSaving' = FALSE /\ fKnown' = TRUE
          /\ fMade' = {} /\ fKept' = {} /\ UNCHANGED <<fRun, fStored>>
      BY <1>5 DEF Wizard!Reopen
    <2> QED BY <2>2, <2>3, PagesTyped DEF WizardRows
  <1>6. ASSUME NEW h \in Requests, NEW kind, NEW todo, NEW to \in FormPages, Wizard!Start(h, kind, todo, to)
        PROVE  WizardRows'
    <2>1. PICK w : w = [Wizard!Idle EXCEPT !.kind = kind, !.id = fCaseId, !.form = fForm, !.todo = todo,
                                           !.at = fStep, !.to = to, !.on = fCaseId, !.late = fKnown]
      OBVIOUS
    <2>2. fRun' = [fRun EXCEPT ![h] = w]
      BY <1>6, <2>1, Zenon DEF Wizard!Start
    <2>3. w.form = fForm /\ w.to = to
      BY <2>1 DEF Wizard!Idle
    <2>4. \A o \in Requests : fRun'[o].form \subseteq Typed /\ fRun'[o].to \in FormPages
      BY <1>6, <2>2, <2>3, RowsClick DEF WizardRows
    <2>5. UNCHANGED <<fForm, fLoads, fReload, fStep, fStored, fKnown, fMade, fKept>>
      BY <1>6 DEF Wizard!Start
    <2>6. fSaving' \in BOOLEAN
      BY <1>6, Zenon DEF Wizard!Start
    <2> QED BY <2>4, <2>5, <2>6 DEF WizardRows
  <1>7. ASSUME NEW h \in Requests,
               Wizard!NextStep(h) \/ Wizard!GoTo(h) \/ Wizard!Finish(h) \/ Wizard!Scan(h) \/ Wizard!Media(h)
        PROVE  WizardRows'
    <2>1. fStep \in FormPages /\ (fStep \in 1..(Wizard!Last - 1) => fStep + 1 \in FormPages)
      BY StepsAssumption DEF WizardRows, FormPages, Wizard!Last
    <2>2. ASSUME Wizard!NextStep(h) PROVE \E kind, todo : \E to \in FormPages : Wizard!Start(h, kind, todo, to)
      BY <2>1, <2>2, Zenon DEF Wizard!NextStep
    <2>3. ASSUME Wizard!GoTo(h) PROVE \E kind, todo : \E to \in FormPages : Wizard!Start(h, kind, todo, to)
      <3>1. PICK i \in 1..Wizard!Last \ {fStep} : Wizard!Start(h, "goto", Wizard!Saves(STEPS[fStep]), i)
        BY <2>3 DEF Wizard!GoTo
      <3>2. i \in FormPages
        BY PagesTyped
      <3> QED BY <3>1, <3>2
    <2>4. ASSUME Wizard!Finish(h) \/ Wizard!Scan(h) \/ Wizard!Media(h)
          PROVE  \E kind, todo : \E to \in FormPages : Wizard!Start(h, kind, todo, to)
      BY <2>1, <2>4, Zenon DEF Wizard!Finish, Wizard!Scan, Wizard!Media
    <2>5. \E kind, todo : \E to \in FormPages : Wizard!Start(h, kind, todo, to)
      BY <1>7, <2>2, <2>3, <2>4
    <2> QED BY <1>6, <2>5
  <1>8. ASSUME NEW h \in Requests, NEW v, fRun' = [fRun EXCEPT ![h].got = v]
        PROVE  \A o \in Requests : fRun'[o].form \subseteq Typed /\ fRun'[o].to \in FormPages
    <2>1. PICK w : w = [fRun[h] EXCEPT !.got = v]
      OBVIOUS
    <2>2. fRun' = [fRun EXCEPT ![h] = w]
      BY <1>8, <2>1, Zenon
    <2>3. w.form = fRun[h].form /\ w.to = fRun[h].to
      BY <2>1, ClickGoesOn DEF WizardInv
    <2> QED BY <2>2, <2>3, RowsClick DEF WizardRows
  <1>9. ASSUME NEW h \in Requests,
               Wizard!CallEnsure(h) \/ Wizard!CallSection(h) \/ Wizard!CallAll(h) \/ Wizard!CallUpload(h)
        PROVE  WizardRows'
    <2>1. UNCHANGED <<fForm, fLoads, fReload, fStep, fSaving, fKnown, fKept>>
      BY <1>9 DEF Wizard!CallEnsure, Wizard!CallSection, Wizard!CallAll, Wizard!CallUpload
    <2>2. CASE Wizard!Create(h)
      <3>1. PICK d \in Drafts : /\ fStored' = [fStored EXCEPT ![d] = [exists |-> TRUE, data |-> fRun[h].form]]
                                /\ fMade' = fMade \cup {d} /\ fRun' = [fRun EXCEPT ![h].got = d]
        BY <2>2 DEF Wizard!Create
      <3>2. fStored' \in [Drafts -> [exists : BOOLEAN, data : SUBSET Typed]]
        BY <3>1, RowStored DEF WizardRows
      <3>3. fMade' \subseteq Drafts
        BY <3>1 DEF WizardRows
      <3> QED BY <1>8, <2>1, <3>1, <3>2, <3>3 DEF WizardRows
    <2>3. CASE /\ fRun' = [fRun EXCEPT ![h].got = fRun[h].id] \/ fRun' = [fRun EXCEPT ![h].got = fRun[h].on]
               /\ fMade' = fMade
               /\ \/ fStored' = fStored
                  \/ fRun[h].id # Nobody /\ \E v \in SUBSET Typed : fStored' = [fStored EXCEPT ![fRun[h].id].data = v]
      <3>1. fStored' \in [Drafts -> [exists : BOOLEAN, data : SUBSET Typed]]
        <4>1. CASE fStored' = fStored
          BY <4>1 DEF WizardRows
        <4>2. CASE fRun[h].id # Nobody /\ \E v \in SUBSET Typed : fStored' = [fStored EXCEPT ![fRun[h].id].data = v]
          <5>1. fRun[h].id \in Drafts
            BY <4>2 DEF WizardInv, ClickInv, Drafted
          <5>2. PICK d \in Drafts, v \in SUBSET Typed : fStored' = [fStored EXCEPT ![d].data = v]
            BY <4>2, <5>1
          <5> QED BY <5>2, RowStored
        <4> QED BY <2>3, <4>1, <4>2
      <3>2. \A o \in Requests : fRun'[o].form \subseteq Typed /\ fRun'[o].to \in FormPages
        BY <1>8, <2>3
      <3> QED BY <2>1, <2>3, <3>1, <3>2 DEF WizardRows
    <2>4. CASE Wizard!CallEnsure(h)
      BY <2>2, <2>3, <2>4 DEF Wizard!CallEnsure
    <2>5. CASE Wizard!CallSection(h)
      <3>1. CASE fRun[h].id = Nobody
        BY <2>2, <2>5, <3>1 DEF Wizard!CallSection
      <3>2. CASE fRun[h].id # Nobody
        <4>1. PICK x : fStored' = [fStored EXCEPT ![fRun[h].id].data = (@ \ {x, "borrower"}) \cup ({x, "borrower"} \cap fRun[h].form)]
          BY <2>5, <3>2 DEF Wizard!CallSection, Wizard!Store
        <4>2. PICK v : v = (fStored[fRun[h].id].data \ {x, "borrower"}) \cup ({x, "borrower"} \cap fRun[h].form)
          OBVIOUS
        <4>3. fRun[h].id \in Drafts
          BY <3>2 DEF WizardInv, ClickInv, Drafted
        <4>4. v \in SUBSET Typed
          BY <4>2, <4>3 DEF WizardRows
        <4>5. fStored' = [fStored EXCEPT ![fRun[h].id].data = v]
          BY <4>1, <4>2, Zenon
        <4>6. fRun' = [fRun EXCEPT ![h].got = fRun[h].id] /\ fMade' = fMade
          BY <2>5, <3>2 DEF Wizard!CallSection
        <4> QED BY <2>3, <3>2, <4>4, <4>5, <4>6
      <3> QED BY <3>1, <3>2
    <2>6. CASE Wizard!CallAll(h)
      <3>1. CASE fRun[h].id = Nobody
        BY <2>2, <2>6, <3>1 DEF Wizard!CallAll
      <3>2. CASE fRun[h].id # Nobody
        <4>1. /\ fStored' = [fStored EXCEPT ![fRun[h].id].data = fRun[h].form]
              /\ fRun' = [fRun EXCEPT ![h].got = fRun[h].id] /\ fMade' = fMade
          BY <2>6, <3>2 DEF Wizard!CallAll
        <4>2. fRun[h].form \in SUBSET Typed
          BY DEF WizardRows
        <4> QED BY <2>3, <3>2, <4>1, <4>2
      <3> QED BY <3>1, <3>2
    <2>7. CASE Wizard!CallUpload(h)
      BY <2>3, <2>7 DEF Wizard!CallUpload
    <2> QED BY <1>9, <2>4, <2>5, <2>6, <2>7
  <1>10. Wizard!Idle.form = {} /\ Wizard!Idle.to = 0
    BY DEF Wizard!Idle
  <1>11. ASSUME NEW h \in Requests, NEW kinds PROVE Wizard!PageAfter(h, kinds) \in FormPages
    BY PagesTyped DEF Wizard!PageAfter, WizardRows
  <1>12. ASSUME NEW h \in Requests, Wizard!Answer(h) PROVE WizardRows'
    <2>1. PICK more : /\ more = [fRun[h] EXCEPT !.todo = Tail(fRun[h].todo), !.got = Nobody,
                                           !.on = IF Wizard!Op(h) = "ensure" THEN fRun[h].got ELSE fRun[h].on]
                      /\ fRun' = [fRun EXCEPT ![h] = IF Tail(fRun[h].todo) = <<>> THEN Wizard!Idle ELSE more]
      BY <1>12, Zenon DEF Wizard!Answer
    <2>2. more.form = fRun[h].form /\ more.to = fRun[h].to
      BY <2>1, ClickGoesOn DEF WizardInv
    <2>3. PICK w : w = IF Tail(fRun[h].todo) = <<>> THEN Wizard!Idle ELSE more
      OBVIOUS
    <2>4. w.form \subseteq Typed /\ w.to \in FormPages
      BY <1>10, <2>2, <2>3, PagesTyped DEF WizardRows
    <2>5. \A o \in Requests : fRun'[o].form \subseteq Typed /\ fRun'[o].to \in FormPages
      BY <2>1, <2>3, <2>4, RowsClick
    <2>6. fStep' \in FormPages
      BY <1>11, <1>12 DEF Wizard!Answer, WizardRows
    <2>7. fKept' \subseteq Typed
      BY <1>12 DEF Wizard!Answer, WizardRows
    <2>8. fKnown' \in BOOLEAN /\ fReload' \in BOOLEAN /\ fSaving' \in BOOLEAN
      BY <1>12, Zenon DEF Wizard!Answer
    <2>9. (fReload' => fLoads) /\ (fKnown => fKnown') /\ UNCHANGED <<fForm, fLoads, fStored, fMade>>
      BY <1>12 DEF Wizard!Answer, WizardRows
    <2> QED BY <2>5, <2>6, <2>7, <2>8, <2>9 DEF WizardRows
  <1>13. ASSUME NEW h \in Requests, Wizard!Fail(h) PROVE WizardRows'
    <2>1. /\ fRun' = [fRun EXCEPT ![h] = Wizard!Idle] /\ fSaving' = FALSE /\ fStep' = Wizard!PageAfter(h, {"goto"})
          /\ UNCHANGED <<fForm, fLoads, fReload, fStored, fKnown, fMade, fKept>>
      BY <1>13 DEF Wizard!Fail
    <2>2. PICK w : w = Wizard!Idle
      OBVIOUS
    <2>3. \A o \in Requests : fRun'[o].form \subseteq Typed /\ fRun'[o].to \in FormPages
      BY <1>10, <2>1, <2>2, RowsClick, PagesTyped
    <2> QED BY <1>11, <2>1, <2>3 DEF WizardRows
  <1> HIDE DEF WizardInv, WizardRows
  <1> QED BY <1>1, <1>2, <1>3, <1>4, <1>5, <1>7, <1>9, <1>12, <1>13 DEF Wizard!Next

\* The invariant holds while the wizard runs, and with it the types.
LEMMA WizardAlways == OfficeSpec => [](part = "wizard" => WizardInv /\ WizardRows)
  <1> DEFINE Inv == part = "wizard" => WizardInv /\ WizardRows
  <1>1. OfficeInit => Inv
    <2> SUFFICES ASSUME Wizard!Init PROVE WizardInv /\ WizardRows
      BY DEF OfficeInit
    <2>1. /\ fStored = [d \in Drafts |-> Wizard!NoRow] /\ fRun = [h \in Requests |-> Wizard!Idle]
          /\ fCaseId = Nobody /\ ~fKnown
      BY DEF Wizard!Init
    <2>2. DOMAIN Wizard!NoRow = {"exists", "data"}
      BY DEF Wizard!NoRow
    <2>3. ClickInv(Wizard!Idle)
      BY IdleClick DEF ClickInv, Drafted
    <2>4. \A h \in Requests : fRun[h] = Wizard!Idle
      BY <2>1
    <2>5. \A h \in Requests : ClickInv(fRun[h])
      BY <2>3, <2>4 DEF ClickInv
    <2>6. WizardInv
      BY <2>1, <2>2, <2>5 DEF WizardInv, Drafted
    <2>7. fLoads \in BOOLEAN /\ fReload \in BOOLEAN /\ fSaving \in BOOLEAN /\ fKnown \in BOOLEAN
      BY Zenon DEF Wizard!Init
    <2>8. fForm = {} /\ fKept = {} /\ fMade = {} /\ fStep = 1 /\ ~fLoads /\ ~fReload
      BY DEF Wizard!Init
    <2>9. fStored \in [Drafts -> [exists : BOOLEAN, data : SUBSET Typed]]
      BY <2>1 DEF Wizard!NoRow
    <2>10. Wizard!Idle.form = {} /\ Wizard!Idle.to = 0
      BY DEF Wizard!Idle
    <2>11. WizardRows
      BY <2>4, <2>7, <2>8, <2>9, <2>10, PagesTyped DEF WizardRows
    <2> QED BY <2>6, <2>11
  <1>2. Inv /\ [OfficeNext]_officeVars => Inv'
    BY WizardSteps, WizardStep, WizardRowsStep
  <1> QED BY <1>1, <1>2, PTL DEF OfficeSpec

(* A click made once the wizard has been answered a draft makes no other   *)
(* (setCaseId in ensureCase, saveSection and save).                        *)
THEOREM LateClicksMakeNone == OfficeSpec => DraftOnlyWhenUnknown
  <1>1. (part = "wizard" => WizardInv /\ WizardRows) /\ [OfficeNext]_officeVars
        => [part = "wizard" => Wizard!LateMakesNone]_fVars
    BY WizardSteps, WizardStep
  <1> QED BY <1>1, WizardAlways, PTL DEF OfficeSpec, DraftOnlyWhenUnknown

-----------------------------------------------------------------------------
(* Scoring.                                                                *)
\* A step of the office is one of the score, or leaves it alone.
LEMMA ScoreSteps ==
    ASSUME [OfficeNext]_officeVars
    PROVE  part' = part /\ (part = "score" => [Score!Next]_cVars)
  <1>1. CASE UNCHANGED officeVars
    BY <1>1 DEF officeVars, cVars
  <1>2. CASE OfficeNext
    BY <1>2 DEF OfficeNext, IdleBut, cVars
  <1> QED BY <1>1, <1>2

\* What the first n factors can give a case without income or payments.
Ceiling == <<2, 7, 10, 13, 17, 20, 23, 26, 32, 37, 42, 44, 47, 50, 52, 57, 57, 57, 57, 57>>
Cap(n)  == IF n = 0 THEN 0 ELSE Ceiling[n]

\* What factors 14 and 16 read: the number of running loans, or that it is not given.
Loans(c) == "loans" \in DOMAIN c /\ c.loans \in {Score!None, 0, 1, 2, 3}

LEMMA CapsTyped == \A n \in 0..20 : Cap(n) \in Int
  BY DEF Cap, Ceiling

\* Factor n gives no more than its share of the ceiling.
LEMMA FactorCapped ==
    ASSUME NEW c, Loans(c), Score!NoMoney(c), NEW n \in 1..20, NEW p \in Score!Points(n, c)
    PROVE  p \in Int /\ Cap(n - 1) + p <= Cap(n)
  <1>1. CASE n = 2
    <2>1. p = Score!AgePoints(c) /\ Cap(1) = 2 /\ Cap(2) = 7
      BY <1>1 DEF Score!Points, Cap, Ceiling
    <2> QED BY <1>1, <2>1 DEF Score!AgePoints
  <1>2. CASE n = 5
    <2>1. p \in {0, 2, 4} /\ Cap(4) = 13 /\ Cap(5) = 17
      BY <1>2 DEF Score!Points, Cap, Ceiling
    <2> QED BY <1>2, <2>1
  <1>3. CASE n = 7
    <2>1. p \in {0, 1, 3} /\ Cap(6) = 20 /\ Cap(7) = 23
      BY <1>3 DEF Score!Points, Cap, Ceiling
    <2> QED BY <1>3, <2>1
  <1>4. CASE n = 14
    <2>1. p = Score!LoanCountPoints(c) /\ Cap(13) = 47 /\ Cap(14) = 50
      BY <1>4 DEF Score!Points, Cap, Ceiling
    <2>2. p \in {0, 1, 2, 3}
      BY <2>1 DEF Score!LoanCountPoints, Score!None, Loans
    <2> QED BY <1>4, <2>1, <2>2
  <1>5. CASE n = 16
    <2>1. (\E o : p = Score!CurrentPoints(c, o)) /\ Cap(15) = 52 /\ Cap(16) = 57
      BY <1>5 DEF Score!Points, Cap, Ceiling
    <2>2. p \in {0, 2, 4, 5}
      BY <2>1 DEF Score!CurrentPoints
    <2> QED BY <1>5, <2>1, <2>2
  <1>6. CASE n \in {19, 20}
    <2>1. p = 0
      BY <1>6 DEF Score!Points, Score!TrancheToIncome, Score!SurplusToTranche
    <2> QED BY <1>6, <2>1 DEF Cap, Ceiling
  <1>7. CASE n \notin {2, 5, 7, 14, 16, 19, 20}
    <2>1. p \in Score!Single[n] \cup {0}
      BY <1>7 DEF Score!Points
    <2>2. n \in {1, 3, 4, 6, 8, 9} \/ n \in {10, 11, 12, 13} \/ n \in {15, 17, 18}
      BY <1>7
    <2>3. CASE n \in {1, 3, 4, 6, 8, 9}
      BY <2>1, <2>3 DEF Score!Single, Cap, Ceiling
    <2>4. CASE n \in {10, 11, 12, 13}
      BY <2>1, <2>4 DEF Score!Single, Cap, Ceiling
    <2>5. CASE n \in {15, 17, 18}
      BY <2>1, <2>5 DEF Score!Single, Cap, Ceiling
    <2> QED BY <2>2, <2>3, <2>4, <2>5
  <1> QED BY <1>1, <1>2, <1>3, <1>4, <1>5, <1>6, <1>7

\* Induction up to n, over a set.
LEMMA Reaches ==
    ASSUME NEW n \in Nat, NEW S, 0 \in S, \A k \in 0..n : k \in S /\ k # n => k + 1 \in S
    PROVE  n \in S
  <1> DEFINE T    == {k \in 0..n : k \notin S}
             pred == [k \in T |-> k - 1]
  <1> SUFFICES ASSUME n \notin S PROVE FALSE
    OBVIOUS
  <1>1. IsFiniteSet(T)
    <2>1. T \in SUBSET Nat /\ \A s \in T : s <= n
      OBVIOUS
    <2> HIDE DEF T
    <2> QED BY <2>1, FS_BoundedSetOfNaturals
  <1>2. \A k \in T : k - 1 \in T
    <2> SUFFICES ASSUME NEW k \in T PROVE k - 1 \in T
      OBVIOUS
    <2>1. k \in 1..n
      OBVIOUS
    <2>2. k - 1 \in 0..n /\ k - 1 # n /\ (k - 1) + 1 = k
      BY <2>1
    <2> QED BY <2>2
  <1>3. pred \in Injection(T, T)
    BY <1>2 DEF Injection, IsInjective
  <1>4. pred \in Surjection(T, T)
    <2> HIDE DEF T, pred
    <2> QED BY <1>1, <1>3, FS_Injection
  <1>5. n \in T
    OBVIOUS
  <1>6. PICK k \in T : pred[k] = n
    BY <1>4, <1>5 DEF Surjection
  <1> QED BY <1>6

\* The sums of the first n factors.
Added(sums, n, c) == IF n = 0 THEN {0} ELSE {t + p : t \in sums, p \in Score!Points(n, c)}
Adds(f, m, c)     == f = [n \in 0..m |-> Added(f[n - 1], n, c)]

\* The recursion of Totals has a solution.
LEMMA SumsExist ==
    ASSUME NEW c PROVE \E f : Adds(f, 20, c)
  <1> DEFINE S == {m \in 0..20 : \E f : Adds(f, m, c)}
  <1>1. 0 \in S
    <2> DEFINE f == [n \in 0..0 |-> {0}]
    <2>1. f = [n \in 0..0 |-> Added(f[n - 1], n, c)]
      BY DEF Added
    <2>2. Adds(f, 0, c)
      BY <2>1 DEF Adds
    <2> QED BY <2>2
  <1>2. ASSUME NEW m \in 0..20, m \in S, m # 20 PROVE m + 1 \in S
    <2>1. PICK f : Adds(f, m, c)
      BY <1>2
    <2> DEFINE g == [n \in 0..m + 1 |-> IF n = m + 1 THEN Added(f[m], m + 1, c) ELSE f[n]]
    <2>2. ASSUME NEW n \in 0..m + 1 PROVE g[n] = Added(g[n - 1], n, c)
      <3>1. CASE n = m + 1
        <4>1. g[n] = Added(f[m], n, c) /\ n - 1 = m /\ g[m] = f[m]
          BY <3>1
        <4> QED BY <4>1
      <3>2. CASE n # m + 1
        <4>1. n \in 0..m /\ g[n] = f[n]
          BY <3>2
        <4>2. f[n] = Added(f[n - 1], n, c)
          BY <2>1, <4>1 DEF Adds
        <4>3. n = 0 \/ g[n - 1] = f[n - 1]
          BY <4>1
        <4> HIDE DEF g
        <4>4. n = 0 => Added(f[n - 1], n, c) = Added(g[n - 1], n, c)
          BY DEF Added
        <4> QED BY <4>1, <4>2, <4>3, <4>4
      <3> QED BY <3>1, <3>2
    <2>3. g = [n \in 0..m + 1 |-> g[n]]
      OBVIOUS
    <2> HIDE DEF g
    <2>4. Adds(g, m + 1, c)
      BY <2>2, <2>3 DEF Adds
    <2> QED BY <1>2, <2>4
  <1> HIDE DEF S
  <1>3. 20 \in S
    BY <1>1, <1>2, Reaches
  <1> QED BY <1>3 DEF S

\* The twenty factors add up to something between two bounds that the factors
\* keep one by one.
LEMMA TotalsBetween ==
    ASSUME NEW c, NEW low \in [0..20 -> Int], NEW high \in [0..20 -> Int], low[0] = 0, high[0] = 0,
           \A n \in 1..20 : \A p \in Score!Points(n, c) :
              p \in Int /\ low[n] <= low[n - 1] + p /\ high[n - 1] + p <= high[n],
           NEW t \in Score!Totals(c)
    PROVE  t \in Int /\ low[20] <= t /\ t <= high[20]
  <1> DEFINE sums == CHOOSE f : Adds(f, 20, c)
             S    == {m \in 0..20 : \A u \in sums[m] : u \in Int /\ low[m] <= u /\ u <= high[m]}
  <1>1. Adds(sums, 20, c)
    BY SumsExist
  <1>2. Score!Totals(c) = sums[20]
    BY DEF Score!Totals, Adds, Added
  <1> HIDE DEF sums
  <1>3. 0 \in S
    <2>1. sums[0] = {0}
      BY <1>1 DEF Adds, Added
    <2> QED BY <2>1
  <1>4. ASSUME NEW m \in 0..20, m \in S, m # 20 PROVE m + 1 \in S
    <2>1. m + 1 \in 1..20 /\ (m + 1) - 1 = m
      BY <1>4
    <2>2. sums[m + 1] = Added(sums[m], m + 1, c)
      BY <1>1, <2>1 DEF Adds
    <2>3. ASSUME NEW u \in sums[m], NEW p \in Score!Points(m + 1, c)
          PROVE  u + p \in Int /\ low[m + 1] <= u + p /\ u + p <= high[m + 1]
      <3>1. u \in Int /\ low[m] <= u /\ u <= high[m]
        BY <1>4
      <3>2. p \in Int /\ low[m + 1] <= low[m] + p /\ high[m] + p <= high[m + 1]
        BY <2>1
      <3>3. low[m] \in Int /\ low[m + 1] \in Int /\ high[m] \in Int /\ high[m + 1] \in Int
        BY <2>1
      <3> HIDE DEF S
      <3> QED BY <3>1, <3>2, <3>3
    <2>4. ASSUME NEW w \in sums[m + 1] PROVE w \in Int /\ low[m + 1] <= w /\ w <= high[m + 1]
      <3>1. PICK u \in sums[m], p \in Score!Points(m + 1, c) : w = u + p
        BY <2>1, <2>2 DEF Added
      <3> QED BY <2>3, <3>1
    <2> QED BY <2>1, <2>4
  <1> HIDE DEF S
  <1>5. 20 \in S
    BY <1>3, <1>4, Reaches
  <1> QED BY <1>2, <1>5 DEF S

\* The least the first n factors can give: two of them only take points.
Floor(n) == IF n < 17 THEN 0 ELSE IF n = 17 THEN -5 ELSE -10

\* No factor but these two takes any.
LEMMA FactorFloored ==
    ASSUME NEW c, Loans(c), NEW n \in 1..20, NEW p \in Score!Points(n, c)
    PROVE  p \in Int /\ Floor(n) <= Floor(n - 1) + p
  <1>1. CASE n \in {17, 18}
    <2>1. p \in {-5, 0}
      BY <1>1 DEF Score!Points, Score!Single
    <2> QED BY <1>1, <2>1 DEF Floor
  <1>2. CASE n \notin {17, 18}
    <2>1. p \in Nat
      <3>1. CASE n = 2
        BY <3>1 DEF Score!Points, Score!AgePoints
      <3>2. CASE n = 5 \/ n = 7
        BY <3>2 DEF Score!Points
      <3>3. CASE n = 14
        BY <3>3 DEF Score!Points, Score!LoanCountPoints, Score!None, Loans
      <3>4. CASE n = 16
        BY <3>4 DEF Score!Points, Score!CurrentPoints
      <3>5. CASE n = 19
        BY <3>5 DEF Score!Points, Score!TrancheToIncome
      <3>6. CASE n = 20
        BY <3>6 DEF Score!Points, Score!SurplusToTranche
      <3>7. CASE n \in {1, 3, 4, 6, 8, 9}
        BY <3>7 DEF Score!Points, Score!Single
      <3>8. CASE n \in {10, 11, 12, 13, 15}
        BY <3>8 DEF Score!Points, Score!Single
      <3> QED BY <1>2, <3>1, <3>2, <3>3, <3>4, <3>5, <3>6, <3>7, <3>8
    <2>2. Floor(n) = Floor(n - 1) \/ (Floor(n) = 0 /\ Floor(n - 1) = 0)
      BY <1>2 DEF Floor
    <2> QED BY <2>1, <2>2 DEF Floor
  <1> QED BY <1>1, <1>2

\* What the first n factors can give a case at most; factor 14 counts the
\* running loans, and factor 16 gives less the more of them there are.
Most(n, c) ==
    IF n <= 13 THEN Cap(n)
    ELSE IF n = 14 THEN 47 + Score!LoanCountPoints(c)
    ELSE IF n = 15 THEN 49 + Score!LoanCountPoints(c)
    ELSE IF n <= 18 THEN 55 ELSE IF n = 19 THEN 77 ELSE 98

LEMMA LoanPoints == ASSUME NEW c, Loans(c) PROVE Score!LoanCountPoints(c) \in {0, 1, 2, 3}
  BY DEF Score!LoanCountPoints, Score!None, Loans

\* Factor n gives no more than its share of the most.
LEMMA FactorMost ==
    ASSUME NEW c, Loans(c), NEW n \in 1..20, NEW p \in Score!Points(n, c)
    PROVE  Most(n - 1, c) + p <= Most(n, c)
  <1>0. Score!LoanCountPoints(c) \in {0, 1, 2, 3}
    BY LoanPoints
  <1>1. CASE n = 2
    <2>1. p = Score!AgePoints(c) /\ Most(1, c) = 2 /\ Most(2, c) = 7
      BY <1>1 DEF Score!Points, Most, Cap, Ceiling
    <2> QED BY <1>1, <2>1 DEF Score!AgePoints
  <1>2. CASE n = 5
    <2>1. p \in {0, 2, 4} /\ Most(4, c) = 13 /\ Most(5, c) = 17
      BY <1>2 DEF Score!Points, Most, Cap, Ceiling
    <2> QED BY <1>2, <2>1
  <1>3. CASE n = 7
    <2>1. p \in {0, 1, 3} /\ Most(6, c) = 20 /\ Most(7, c) = 23
      BY <1>3 DEF Score!Points, Most, Cap, Ceiling
    <2> QED BY <1>3, <2>1
  <1>4. CASE n = 14
    <2>1. p = Score!LoanCountPoints(c) /\ Most(13, c) = 47 /\ Most(14, c) = 47 + Score!LoanCountPoints(c)
      BY <1>4 DEF Score!Points, Most, Cap, Ceiling
    <2> QED BY <1>0, <1>4, <2>1
  <1>5. CASE n = 16
    <2>1. /\ \E o : p = Score!CurrentPoints(c, o)
          /\ Most(15, c) = 49 + Score!LoanCountPoints(c) /\ Most(16, c) = 55
      BY <1>5 DEF Score!Points, Most
    <2>2. Score!LoanCountPoints(c) + p <= 6
      BY <2>1 DEF Score!CurrentPoints, Score!LoanCountPoints, Score!None, Loans
    <2>3. p \in {0, 2, 4, 5}
      BY <2>1 DEF Score!CurrentPoints
    <2> QED BY <1>0, <1>5, <2>1, <2>2, <2>3
  <1>6. CASE n = 19
    <2>1. p \in {0, 22} /\ Most(18, c) = 55 /\ Most(19, c) = 77
      BY <1>6 DEF Score!Points, Score!TrancheToIncome, Most
    <2> QED BY <1>6, <2>1
  <1>7. CASE n = 20
    <2>1. p \in {0, 16, 21} /\ Most(19, c) = 77 /\ Most(20, c) = 98
      BY <1>7 DEF Score!Points, Score!SurplusToTranche, Most
    <2> QED BY <1>7, <2>1
  <1>8. CASE n \notin {2, 5, 7, 14, 16, 19, 20}
    <2>1. p \in Score!Single[n] \cup {0}
      BY <1>8 DEF Score!Points
    <2>2. n \in {1, 3, 4, 6, 8, 9} \/ n \in {10, 11, 12, 13} \/ n \in {15, 17, 18}
      BY <1>8
    <2>3. CASE n \in {1, 3, 4, 6, 8, 9}
      BY <2>1, <2>3 DEF Score!Single, Most, Cap, Ceiling
    <2>4. CASE n \in {10, 11, 12, 13}
      BY <2>1, <2>4 DEF Score!Single, Most, Cap, Ceiling
    <2>5. CASE n \in {15, 17, 18}
      BY <1>0, <2>1, <2>5 DEF Score!Single, Most
    <2> QED BY <2>2, <2>3, <2>4, <2>5
  <1> QED BY <1>1, <1>2, <1>3, <1>4, <1>5, <1>6, <1>7, <1>8

\* The bounds as functions.
LEMMA BoundsTyped ==
    ASSUME NEW c, Loans(c)
    PROVE  /\ [n \in 0..20 |-> Floor(n)] \in [0..20 -> Int]
           /\ [n \in 0..20 |-> Cap(n)] \in [0..20 -> Int]
           /\ [n \in 0..20 |-> Most(n, c)] \in [0..20 -> Int]
  <1>1. \A n \in 0..20 : Floor(n) \in Int
    BY DEF Floor
  <1>2. \A n \in 0..20 : Most(n, c) \in Int
    BY CapsTyped, LoanPoints DEF Most
  <1> QED BY <1>1, <1>2, CapsTyped

\* No case has more than 98 points, nor fewer than -10.
LEMMA TotalsTyped ==
    ASSUME NEW c, Loans(c), NEW t \in Score!Totals(c)
    PROVE  t \in -10..98
  <1> DEFINE low  == [n \in 0..20 |-> Floor(n)]
             high == [n \in 0..20 |-> Most(n, c)]
  <1>1. low \in [0..20 -> Int] /\ high \in [0..20 -> Int]
    BY BoundsTyped
  <1>2. low[0] = 0 /\ high[0] = 0 /\ low[20] = -10 /\ high[20] = 98
    BY DEF Floor, Most, Cap
  <1>3. ASSUME NEW n \in 1..20, NEW p \in Score!Points(n, c)
        PROVE  p \in Int /\ low[n] <= low[n - 1] + p /\ high[n - 1] + p <= high[n]
    BY FactorFloored, FactorMost
  <1> HIDE DEF low, high
  <1>4. t \in Int /\ low[20] <= t /\ t <= high[20]
    BY <1>1, <1>2, <1>3, TotalsBetween, SMTT(60)
  <1> QED BY <1>2, <1>4

\* Without income or payments the twenty factors add up to 57 at most.
LEMMA TotalsCapped ==
    ASSUME NEW c, Loans(c), Score!NoMoney(c), NEW t \in Score!Totals(c)
    PROVE  t \in Int /\ t <= 57
  <1> DEFINE low  == [n \in 0..20 |-> Floor(n)]
             high == [n \in 0..20 |-> Cap(n)]
  <1>1. low \in [0..20 -> Int] /\ high \in [0..20 -> Int]
    BY BoundsTyped
  <1>2. low[0] = 0 /\ high[0] = 0 /\ high[20] = 57
    BY DEF Floor, Cap, Ceiling
  <1>3. ASSUME NEW n \in 1..20, NEW p \in Score!Points(n, c)
        PROVE  p \in Int /\ low[n] <= low[n - 1] + p /\ high[n - 1] + p <= high[n]
    BY FactorFloored, FactorCapped
  <1> HIDE DEF low, high
  <1> QED BY <1>1, <1>2, <1>3, TotalsBetween, SMTT(60)

\* A save leaves the case typed.
LEMMA CaseSaved ==
    ASSUME NEW c \in Score!Cases
    PROVE  /\ \A v \in Ages : [c EXCEPT !.age = v] \in Score!Cases
           /\ [c EXCEPT !.pledged = ~@] \in Score!Cases
           /\ \A v \in {Score!None, 0, 1, 2, 3} : [c EXCEPT !.loans = v] \in Score!Cases
           /\ \A v \in Incomes : [c EXCEPT !.income = v] \in Score!Cases
           /\ \A v \in Sums : /\ [c EXCEPT !.payment = v] \in Score!Cases
                              /\ [c EXCEPT !.existing = v] \in Score!Cases
                              /\ [c EXCEPT !.expense = v] \in Score!Cases
  <1>1. \A b : (~b) \in BOOLEAN
    BY Zenon
  <1>2. [c EXCEPT !.pledged = ~@] \in Score!Cases
    BY <1>1, Zenon DEF Score!Cases
  <1>3. \A v \in Ages : [c EXCEPT !.age = v] \in Score!Cases
    BY Zenon DEF Score!Cases
  <1>4. \A v \in {Score!None, 0, 1, 2, 3} : [c EXCEPT !.loans = v] \in Score!Cases
    BY Zenon DEF Score!Cases
  <1>5. \A v \in Incomes : [c EXCEPT !.income = v] \in Score!Cases
    BY Zenon DEF Score!Cases
  <1>6. \A v \in Sums : /\ [c EXCEPT !.payment = v] \in Score!Cases
                        /\ [c EXCEPT !.existing = v] \in Score!Cases
                        /\ [c EXCEPT !.expense = v] \in Score!Cases
    BY Zenon DEF Score!Cases
  <1> QED BY <1>2, <1>3, <1>4, <1>5, <1>6

\* The total is that of the case as it was last saved, or not yet added up.
CaseInv == cCase \in Score!Cases /\ (cTotal = Score!Unscored \/ cTotal \in Score!Totals(cCase))

\* The invariant holds while the score runs.
LEMMA CaseAlways == OfficeSpec => [](part = "score" => CaseInv)
  <1> DEFINE Inv == part = "score" => CaseInv
  <1>1. OfficeInit => Inv
    BY DEF OfficeInit, Score!Init, CaseInv
  <1>2. Inv /\ [OfficeNext]_officeVars => Inv'
    <2> SUFFICES ASSUME CaseInv, [Score!Next]_cVars PROVE CaseInv'
      BY ScoreSteps
    <2>1. CASE UNCHANGED cVars
      BY <2>1 DEF cVars, CaseInv
    <2>2. CASE Score!Save
      <3>1. cCase' \in Score!Cases
        <4>1. cCase \in Score!Cases
          BY DEF CaseInv
        <4>2. \/ \E v \in Ages : cCase' = [cCase EXCEPT !.age = v]
              \/ cCase' = [cCase EXCEPT !.pledged = ~@]
              \/ \E v \in {Score!None, 0, 1, 2, 3} : cCase' = [cCase EXCEPT !.loans = v]
              \/ \E v \in Incomes : cCase' = [cCase EXCEPT !.income = v]
              \/ \E v \in Sums : \/ cCase' = [cCase EXCEPT !.payment = v]
                                 \/ cCase' = [cCase EXCEPT !.existing = v]
                                 \/ cCase' = [cCase EXCEPT !.expense = v]
          BY <2>2, Zenon DEF Score!Save
        <4> QED BY <4>1, <4>2, CaseSaved, ZenonT(60)
      <3>2. cTotal' = Score!Unscored
        BY <2>2 DEF Score!Save
      <3> QED BY <3>1, <3>2 DEF CaseInv
    <2>3. CASE Score!Score
      <3>1. cTotal' \in Score!Totals(cCase) /\ cCase' = cCase
        BY <2>3 DEF Score!Score
      <3>2. cTotal' \in Score!Totals(cCase')
        BY <3>1
      <3> QED BY <3>1, <3>2, Zenon DEF CaseInv
    <2> QED BY <2>1, <2>2, <2>3 DEF Score!Next
  <1> QED BY <1>1, <1>2, PTL DEF OfficeSpec

\* What the factors read of a case is there.
LEMMA CaseLoans == ASSUME CaseInv PROVE Loans(cCase)
  BY DEF CaseInv, Score!Cases, Loans

(* A case whose income or payments are not entered is refused, whatever    *)
(* the other eighteen factors give (scoreCase): they add up to 57 at most, *)
(* and 60 is the least that verdictFor accepts.                            *)
THEOREM IncomeIsDecisive == OfficeSpec => []IncomeDecides
  <1>1. ASSUME CaseInv, cTotal # Score!Unscored, Score!NoMoney(cCase)
        PROVE  Score!verdictFor(cTotal, cCase.age) = "BELOW_MIN"
    <2>1. cTotal \in Int /\ cTotal <= 57
      BY <1>1, CaseLoans, TotalsCapped DEF CaseInv
    <2> QED BY <2>1 DEF Score!verdictFor, Score!SCORE_MIN
  <1>2. (part = "score" => CaseInv) => IncomeDecides
    BY <1>1 DEF IncomeDecides, Score!IncomeDecides
  <1> QED BY <1>2, CaseAlways, PTL

-----------------------------------------------------------------------------
(* The office as a whole.                                                  *)
\* What the invariants of the screens say of the types; see OfficeTyped.
LEMMA ScreensTyped ==
    /\ TapInv /\ TruthInv /\ PhoneRows => Phone!TypeOK
    /\ GateInv /\ GateRows => Gate!TypeOK
    /\ WizardInv /\ WizardRows => Wizard!TypeOK
    /\ CaseInv => Score!TypeOK
  <1>1. ASSUME TapInv, TruthInv, PhoneRows PROVE Phone!TypeOK
    <2>1. hVisits \in [Phone!Forms -> 0..MaxVisits]
      BY <1>1, FormsAssumption DEF TruthInv, Kept, PhoneRows
    <2>2. hFaces \in Seq(Requests) /\ \A h \in Requests : hRun[h].pc = "face" <=> \E i \in DOMAIN hFaces : hFaces[i] = h
      BY <1>1 DEF TapInv, HandlersInv, FacesInv
    <2>3. hRun \in [Requests -> TapSlots] /\ hOpened \in 0..MaxForms /\ (hOnForm => hOpened # 0) /\ hUi \in Screens
      BY <1>1 DEF TapInv, HandlersInv
    <2>4. hShift \in BOOLEAN /\ hSaved \subseteq Phone!Forms /\ hWire \subseteq Phone!Calls
      BY <1>1 DEF TruthInv, Kept, Wired
    <2> QED BY <1>1, <2>1, <2>2, <2>3, <2>4 DEF Phone!TypeOK, Phone!At, TapSlots, TapPcs, Screens, PhoneRows
  <1>2. GateInv /\ GateRows => Gate!TypeOK
    BY DEF GateInv, FormInv, GateRows, Gate!TypeOK
  <1>3. WizardInv /\ WizardRows => Wizard!TypeOK
    BY DraftsAssumption DEF WizardInv, Drafted, WizardRows, FormPages, Wizard!TypeOK, Wizard!Exists
  <1>4. CaseInv => Score!TypeOK
    BY CaseLoans, TotalsTyped DEF CaseInv, Score!TypeOK, Score!SCORE_MAX
  <1> QED BY <1>1, <1>2, <1>3, <1>4

(* The office runs its collections as Collections specifies them, so that  *)
(* the theorems of CollectionsProofs hold of it: its two bounds only leave *)
(* steps out, and the other components touch none of its variables.        *)
THEOREM OfficeCollects == OfficeSpec => Spec
  <1>1. OfficeInit => Init
    BY DEF OfficeInit
  <1>2. [OfficeNext]_officeVars => [Next]_vars
    <2>1. ASSUME UNCHANGED officeVars PROVE UNCHANGED vars
      BY <2>1 DEF officeVars
    <2>2. ASSUME OfficeNext PROVE [Next]_vars
      BY <2>2, ZenonT(60) DEF OfficeNext, IdleBut
    <2> QED BY <2>1, <2>2
  <1> QED BY <1>1, <1>2, PTL DEF OfficeSpec, Spec

(* And it runs every other component as that one's module specifies it:    *)
(* whichever part is picked at the start, the office's behaviour is one of *)
(* the component's own specification, so that what is proved or checked of *)
(* OfficeSpec is about the components and not about how they are combined. *)
THEOREM OfficeRunsEach ==
    OfficeSpec =>
        /\ part = "reminders" => Reminders!Spec
        /\ part = "chat" => Chat!Spec
        /\ part = "papers" => Papers!Spec
        /\ part = "people" => People!Spec
        /\ part = "work" => Work!Spec
        /\ part = "wizard" => Wizard!Spec
        /\ part = "score" => Score!Spec
        /\ part = "gate" => Gate!Spec
        /\ part = "plan" => Plan!Spec
        /\ part = "phone" => Phone!Spec
  <1>1. OfficeSpec => (part = "reminders" => Reminders!Spec)
    <2>1. OfficeInit => (part = "reminders" => Reminders!Init)
      BY DEF OfficeInit
    <2>2. [OfficeNext]_officeVars => (part = "reminders" => (part = "reminders")' /\ [Reminders!Next]_tVars)
      BY ReminderSteps
    <2> QED BY <2>1, <2>2, PTL DEF OfficeSpec, Reminders!Spec, Reminders!vars, tVars
  <1>2. OfficeSpec => (part = "chat" => Chat!Spec)
    <2>1. OfficeInit => (part = "chat" => Chat!Init)
      BY DEF OfficeInit
    <2>2. [OfficeNext]_officeVars => (part = "chat" => (part = "chat")' /\ [Chat!Next]_mVars)
      BY ChatSteps
    <2> QED BY <2>1, <2>2, PTL DEF OfficeSpec, Chat!Spec, Chat!vars, mVars
  <1>3. OfficeSpec => (part = "papers" => Papers!Spec)
    <2>1. OfficeInit => (part = "papers" => Papers!Init)
      BY DEF OfficeInit
    <2>2. [OfficeNext]_officeVars => (part = "papers" => (part = "papers")' /\ [Papers!Next]_dVars)
      BY PaperSteps
    <2> QED BY <2>1, <2>2, PTL DEF OfficeSpec, Papers!Spec, Papers!vars, dVars
  <1>4. OfficeSpec => (part = "people" => People!Spec)
    <2>1. OfficeInit => (part = "people" => People!Init)
      BY DEF OfficeInit
    <2>2. [OfficeNext]_officeVars => (part = "people" => (part = "people")' /\ [People!Next]_aVars)
      BY PeopleSteps
    <2> QED BY <2>1, <2>2, PTL DEF OfficeSpec, People!Spec, People!vars, aVars
  <1>5. OfficeSpec => (part = "work" => Work!Spec)
    <2>1. OfficeInit => (part = "work" => Work!Init)
      BY DEF OfficeInit
    <2>2. [OfficeNext]_officeVars => (part = "work" => (part = "work")' /\ [Work!Next]_wVars)
      BY WorkSteps
    <2> QED BY <2>1, <2>2, PTL DEF OfficeSpec, Work!Spec, Work!vars, wVars
  <1>6. OfficeSpec => (part = "wizard" => Wizard!Spec)
    <2>1. OfficeInit => (part = "wizard" => Wizard!Init)
      BY DEF OfficeInit
    <2>2. [OfficeNext]_officeVars => (part = "wizard" => (part = "wizard")' /\ [Wizard!Next]_fVars)
      BY WizardSteps
    <2> QED BY <2>1, <2>2, PTL DEF OfficeSpec, Wizard!Spec, Wizard!vars, fVars
  <1>7. OfficeSpec => (part = "score" => Score!Spec)
    <2>1. OfficeInit => (part = "score" => Score!Init)
      BY DEF OfficeInit
    <2>2. [OfficeNext]_officeVars => (part = "score" => (part = "score")' /\ [Score!Next]_cVars)
      BY ScoreSteps
    <2> QED BY <2>1, <2>2, PTL DEF OfficeSpec, Score!Spec, Score!vars, cVars
  <1>8. OfficeSpec => (part = "gate" => Gate!Spec)
    <2>1. OfficeInit => (part = "gate" => Gate!Init)
      BY DEF OfficeInit
    <2>2. [OfficeNext]_officeVars => (part = "gate" => (part = "gate")' /\ [Gate!Next]_gVars)
      BY GateSteps
    <2> QED BY <2>1, <2>2, PTL DEF OfficeSpec, Gate!Spec, Gate!vars, gVars
  <1>9. OfficeSpec => (part = "plan" => Plan!Spec)
    <2>1. OfficeInit => (part = "plan" => Plan!Init)
      BY DEF OfficeInit
    <2>2. [OfficeNext]_officeVars => (part = "plan" => (part = "plan")' /\ [Plan!Next]_pVars)
      BY PlanSteps
    <2> QED BY <2>1, <2>2, PTL DEF OfficeSpec, Plan!Spec, Plan!vars, pVars
  <1>10. OfficeSpec => (part = "phone" => Phone!Spec)
    <2>1. OfficeInit => (part = "phone" => Phone!Init)
      BY DEF OfficeInit
    <2>2. [OfficeNext]_officeVars => (part = "phone" => (part = "phone")' /\ [Phone!Next]_hVars)
      BY PhoneSteps
    <2> QED BY <2>1, <2>2, PTL DEF OfficeSpec, Phone!Spec, Phone!vars, hVars
  <1> QED BY <1>1, <1>2, <1>3, <1>4, <1>5, <1>6, <1>7, <1>8, <1>9, <1>10

(* Whatever the components do, their rows, requests and counters stay in   *)
(* their domains, with what ties them there: a stored schedule was         *)
(* computed, an open shift is somebody's, the draft on screen exists, the  *)
(* face pages are those of the handlers that wait, no file of one document *)
(* is taken for no file, and no case has 99 points.                        *)
THEOREM OfficeTypes == OfficeSpec => []TypesOK
  <1>1. OfficeSpec => []TypeOK
    BY OfficeCollects, TypeCorrect, PTL
  <1>2. FlagInv => Reminders!TypeOK
    BY DEF FlagInv
  <1>3. ChatInv => Chat!TypeOK
    BY DEF ChatInv
  <1>4. PaperInv => Papers!TypeOK
    BY DEF PaperInv
  <1>5. /\ TypeOK
        /\ part = "reminders" => FlagInv
        /\ part = "chat" => ChatInv
        /\ part = "papers" => PaperInv
        /\ part = "people" => SeatInv
        /\ part = "work" => ShiftInv /\ ShiftRows
        /\ part = "wizard" => WizardInv /\ WizardRows
        /\ part = "score" => CaseInv
        /\ part = "gate" => GateInv /\ GateRows
        /\ part = "plan" => PlanInv /\ PlanRows
        /\ part = "phone" => TapInv /\ TruthInv /\ PhoneRows
        => TypesOK
    BY <1>2, <1>3, <1>4, OfficeTyped, ScreensTyped DEF TypesOK
  <1> QED BY <1>1, <1>5, FlagAlways, ChatAlways, PaperAlways, SeatAlways, ShiftAlways, WizardAlways, CaseAlways,
             GateAlways, PlanAlways, PhoneAlways, PTL
=============================================================================
