------------------------- MODULE ContentField_proofs -------------------------
(***************************************************************************)
(* What is drawn in the fields of a page: answers to the latest check, on  *)
(* fields that were not released, under one popover, for any number of     *)
(* fields, of their attaches, of checks and of moves of the page.          *)
(***************************************************************************)
EXTENDS ContentField, TLAPS

Names == {"dom", "text", "running", "watch", "leaving", "released", "made", "kept", "past", "shown",
          "drawn", "check", "debounce", "grace", "popover", "active", "started", "moves"}

Shape(p) ==
  /\ DOMAIN p = Names
  /\ DOMAIN p.check = States /\ DOMAIN p.shown = States
  /\ DOMAIN p.popover = Fields /\ DOMAIN p.made = Fields
  /\ p.drawn \subseteq States

\* Nothing is drawn, and no answer is awaited, for a state that was detached.
Bare(p) == p.drawn \subseteq p.kept /\ \A s \in States : p.check[s] # None => s \in p.kept

\* A popover is over an attached field, the active one, about what it shows.
Live(p) ==
  \A f \in Fields : p.popover[f] # None =>
    /\ Attached(p, f) /\ p.active = f
    /\ Current(p, f) \in States /\ p.popover[f] = p.shown[Current(p, f)]

IInv(p) == Shape(p) /\ Bare(p) /\ Live(p)

\* What is drawn of any state stays or goes, and so do its checks, but for a new
\* one of a state that is kept.
Easy(p, q) ==
  /\ Shape(q)
  /\ \A s \in States :
       /\ q.shown[s] \in {p.shown[s], None}
       /\ q.check[s] \in {p.check[s], None} \/ s \in q.kept
  /\ \A s : s \in q.drawn => s \in p.drawn
  /\ \A s : s \in p.kept => s \in q.kept \/ (s \notin q.drawn /\ (s \in States => q.check[s] = None))

\* An easy handler, which leaves no popover about what is gone.
Fine(p, q) == Easy(p, q) /\ (Live(p) => Live(q))

-----------------------------------------------------------------------------
(* The handlers. *)

\* Handlers compose.
LEMMA EasyTwice ==
  ASSUME NEW p, NEW q, NEW r, Easy(p, q), Easy(q, r)
  PROVE  Easy(p, r)
  <1>1. ASSUME NEW s \in States
        PROVE  /\ r.shown[s] \in {p.shown[s], None}
               /\ r.check[s] \in {p.check[s], None} \/ s \in r.kept
    BY DEF Easy
  <1>2. \A s : s \in r.drawn => s \in p.drawn
    BY DEF Easy
  <1>3. \A s : s \in p.kept => s \in r.kept \/ (s \notin r.drawn /\ (s \in States => r.check[s] = None))
    BY DEF Easy
  <1> QED
    BY <1>1, <1>2, <1>3 DEF Easy

\* So do those that keep popovers right.
LEMMA FineTwice ==
  ASSUME NEW p, NEW q, NEW r, Fine(p, q), Fine(q, r)
  PROVE  Fine(p, r)
  BY EasyTwice DEF Fine

\* A handler that leaves checks, drawings, popovers and attachments alone.
LEMMA SameFine ==
  ASSUME NEW p, NEW q, Shape(p), DOMAIN q = Names,
         q.check = p.check, q.shown = p.shown, q.drawn = p.drawn, q.kept = p.kept,
         q.popover = p.popover, q.active = p.active, q.running = p.running, q.made = p.made, q.past = p.past
  PROVE  Fine(p, q)
  <1>1. Shape(q)
    BY DEF Shape
  <1>2. Easy(p, q)
    BY <1>1 DEF Easy
  <1>3. Live(p) => Live(q)
    BY DEF Live, Attached, Current
  <1> QED
    BY <1>2, <1>3 DEF Fine

\* A popover closes.
LEMMA CloseFine ==
  ASSUME NEW p, Shape(p), NEW f
  PROVE  /\ Fine(p, ClosePopover(p, f))
         /\ \A s : Fine(p, HidePopover(p, s))
         /\ f \in Fields => ClosePopover(p, f).popover[f] = None
         /\ \A s : Mine(p, s) /\ s[1] \in Fields => HidePopover(p, s).popover[s[1]] = None
  <1>1. ASSUME NEW q, DOMAIN q = Names, NEW g, q.popover = [p.popover EXCEPT ![g] = None],
               q.active \in {p.active, IF p.active = g THEN None ELSE p.active},
               \A n \in Names \ {"popover", "active"} : q[n] = p[n]
        PROVE  Fine(p, q) /\ (g \in Fields => q.popover[g] = None)
    <2>1. /\ q.check = p.check /\ q.shown = p.shown /\ q.drawn = p.drawn /\ q.kept = p.kept
          /\ q.running = p.running /\ q.made = p.made /\ q.past = p.past
      BY <1>1 DEF Names
    <2>2. Shape(q)
      BY <1>1, <2>1 DEF Shape
    <2>3. Easy(p, q)
      BY <2>1, <2>2 DEF Easy
    <2>4. \A f_1 \in Fields : q.popover[f_1] # None => q.popover[f_1] = p.popover[f_1] /\ f_1 # g
      BY <1>1 DEF Shape
    <2>5. Live(p) => Live(q)
      BY <1>1, <2>1, <2>4 DEF Live, Attached, Current
    <2> QED
      BY <1>1, <2>3, <2>5 DEF Fine, Shape
  <1>2. Fine(p, ClosePopover(p, f)) /\ (f \in Fields => ClosePopover(p, f).popover[f] = None)
    <2> DEFINE q == ClosePopover(p, f)
    <2>1. /\ DOMAIN q = Names /\ q.popover = [p.popover EXCEPT ![f] = None]
          /\ q.active = (IF p.active = f THEN None ELSE p.active)
          /\ \A n \in Names \ {"popover", "active"} : q[n] = p[n]
      BY DEF ClosePopover, Shape, Names
    <2> HIDE DEF q
    <2> QED
      BY <1>1, <2>1 DEF q
  <1>3. ASSUME NEW s
        PROVE  Fine(p, HidePopover(p, s)) /\
               (Mine(p, s) /\ s[1] \in Fields => HidePopover(p, s).popover[s[1]] = None)
    <2>1. CASE Mine(p, s)
      <3> DEFINE q == [p EXCEPT !.popover[s[1]] = None]
                 g == s[1]
      <3>1. /\ DOMAIN q = Names /\ q.popover = [p.popover EXCEPT ![g] = None] /\ q.active = p.active
            /\ \A n \in Names \ {"popover", "active"} : q[n] = p[n]
        BY DEF Shape, Names
      <3>2. HidePopover(p, s) = q
        BY <2>1 DEF HidePopover
      <3> HIDE DEF q, g
      <3>3. Fine(p, q) /\ (g \in Fields => q.popover[g] = None)
        BY <1>1, <3>1
      <3> QED
        BY <3>2, <3>3 DEF g
    <2>2. CASE ~Mine(p, s)
      BY <2>2, SameFine DEF HidePopover, Shape
    <2> QED
      BY <2>1, <2>2
  <1> QED
    BY <1>2, <1>3

\* What is drawn of a state is drawn anew, and its popover goes.
LEMMA RedrawLive ==
  ASSUME NEW p, Live(p), NEW s, NEW t, Shape(t), NEW shows, t.shown = [p.shown EXCEPT ![s] = shows],
         DOMAIN p.shown = States,
         t.popover = p.popover, t.active = p.active, t.running = p.running, t.made = p.made,
         t.past = p.past, t.kept = p.kept
  PROVE  Live(HidePopover(t, s))
  <1> DEFINE q == HidePopover(t, s)
  <1>1. /\ \A n \in Names \ {"popover"} : q[n] = t[n]
        /\ \A f \in Fields : q.popover[f] # None => q.popover[f] = t.popover[f] /\ ~(Mine(t, s) /\ s[1] = f)
    <2>1. CASE Mine(t, s)
      <3> DEFINE g == s[1]
      <3>1. q = [t EXCEPT !.popover[g] = None]
        BY <2>1 DEF HidePopover
      <3> HIDE DEF q, g
      <3>2. q.popover = [t.popover EXCEPT ![g] = None] /\ \A n \in Names \ {"popover"} : q[n] = t[n]
        BY <3>1 DEF Shape, Names
      <3> QED
        BY <3>2 DEF Shape, g
    <2>2. CASE ~Mine(t, s)
      BY <2>2 DEF HidePopover
    <2> QED
      BY <2>1, <2>2
  <1> HIDE DEF q
  <1>2. /\ q.shown = t.shown /\ q.active = t.active /\ q.running = t.running /\ q.made = t.made
        /\ q.past = t.past /\ q.kept = t.kept
    BY <1>1 DEF Names
  <1>3. ASSUME NEW f \in Fields, q.popover[f] # None
        PROVE  /\ Attached(q, f) /\ q.active = f
               /\ Current(q, f) \in States /\ q.popover[f] = q.shown[Current(q, f)]
    <2>1. p.popover[f] # None /\ q.popover[f] = p.popover[f] /\ ~(Mine(t, s) /\ s[1] = f)
      BY <1>1, <1>3
    <2>2. /\ Attached(p, f) /\ p.active = f
          /\ Current(p, f) \in States /\ p.popover[f] = p.shown[Current(p, f)]
      BY <2>1 DEF Live
    <2>3. Attached(q, f) /\ q.active = f /\ Current(q, f) = Current(p, f)
      BY <1>2, <2>2 DEF Attached, Current
    <2>4. Mine(t, Current(p, f)) /\ Current(p, f)[1] = f
      BY <2>2 DEF Attached, Current, Mine
    <2>5. s # Current(p, f)
      BY <2>1, <2>4
    <2>6. q.shown[Current(p, f)] = p.shown[Current(p, f)]
      BY <1>2, <2>2, <2>5
    <2> QED
      BY <2>1, <2>2, <2>3, <2>6
  <1> QED
    BY <1>3 DEF Live, q

\* A check starts, or a field that is gone is cleared.
LEMMA RerunFine ==
  ASSUME NEW p, Shape(p), NEW s
  PROVE  Fine(p, Rerun(p, s))
  <1>1. CASE s \notin p.kept
    BY <1>1, SameFine DEF Rerun, Shape
  <1>2. CASE s \in p.kept /\ p.dom[s[1]] = "gone"
    <2> DEFINE t == [p EXCEPT !.shown[s] = None, !.drawn = @ \ {s}]
    <2>1. /\ DOMAIN t = Names /\ t.shown = [p.shown EXCEPT ![s] = None] /\ t.drawn = p.drawn \ {s}
          /\ \A n \in Names \ {"shown", "drawn"} : t[n] = p[n]
      BY DEF Shape, Names
    <2>2. Rerun(p, s) = HidePopover(t, s)
      BY <1>2 DEF Rerun
    <2> HIDE DEF t
    <2>3. /\ t.check = p.check /\ t.kept = p.kept /\ t.popover = p.popover /\ t.active = p.active
          /\ t.running = p.running /\ t.made = p.made /\ t.past = p.past
      BY <2>1 DEF Names
    <2>4. Shape(t)
      BY <2>1, <2>3 DEF Shape
    <2>5. Easy(p, t)
      BY <2>1, <2>3, <2>4 DEF Easy, Shape
    <2>6. Fine(t, HidePopover(t, s))
      BY <2>4, CloseFine
    <2>7. Easy(p, HidePopover(t, s))
      <3>1. Easy(t, HidePopover(t, s))
        BY <2>6 DEF Fine
      <3> QED
        BY <2>5, <3>1, EasyTwice
    <2>8. Live(p) => Live(HidePopover(t, s))
      BY <2>1, <2>3, <2>4, RedrawLive DEF Shape
    <2> QED
      BY <2>2, <2>7, <2>8 DEF Fine
  <1>3. CASE s \in p.kept /\ p.dom[s[1]] # "gone"
    <2> DEFINE text == p.text[s[1]]
               t == [p EXCEPT !.check[s] = text, !.started = @ + 1]
    <2>1. Rerun(p, s) = t
      BY <1>3 DEF Rerun
    <2> HIDE DEF text
    <2>2. /\ DOMAIN t = Names /\ t.check = [p.check EXCEPT ![s] = text]
          /\ \A n \in Names \ {"check", "started"} : t[n] = p[n]
      BY DEF Shape, Names
    <2> HIDE DEF t
    <2>3. /\ t.shown = p.shown /\ t.drawn = p.drawn /\ t.kept = p.kept /\ t.popover = p.popover
          /\ t.active = p.active /\ t.running = p.running /\ t.made = p.made /\ t.past = p.past
      BY <2>2 DEF Names
    <2>4. Shape(t)
      BY <2>2, <2>3 DEF Shape
    <2>5. Easy(p, t)
      BY <1>3, <2>2, <2>3, <2>4 DEF Easy, Shape
    <2>6. Live(p) => Live(t)
      BY <2>3 DEF Live, Attached, Current
    <2> QED
      BY <2>1, <2>5, <2>6 DEF Fine
  <1> QED
    BY <1>1, <1>2, <1>3

\* Fields are attached; the one that had the focus is checked.
LEMMA AttachFine ==
  ASSUME NEW p, Shape(p), NEW fs, fs \subseteq Fields, NEW first
  PROVE  Fine(p, Attach(p, fs, first))
  <1> DEFINE new  == {f \in fs : ~Attached(p, f)}
             made == [f \in Fields |-> IF f \in new THEN p.made[f] + 1 ELSE p.made[f]]
             kept == p.kept \cup {<<f, p.made[f] + 1>> : f \in new}
             q    == [p EXCEPT !.made = made, !.kept = kept]
  <1>1. Attach(p, fs, first) = IF first \in new THEN Rerun(q, Current(q, first)) ELSE q
    BY DEF Attach
  <1>2. /\ DOMAIN made = Fields /\ \A f \in Fields : Attached(p, f) => made[f] = p.made[f]
        /\ p.kept \subseteq kept
    OBVIOUS
  <1> HIDE DEF new, made, kept
  <1>3. /\ DOMAIN q = Names /\ q.made = made /\ q.kept = kept
        /\ \A n \in Names \ {"made", "kept"} : q[n] = p[n]
    BY DEF Shape, Names
  <1> HIDE DEF q
  <1>4. /\ q.check = p.check /\ q.shown = p.shown /\ q.drawn = p.drawn /\ q.popover = p.popover
        /\ q.active = p.active /\ q.running = p.running /\ q.past = p.past
    BY <1>3 DEF Names
  <1>5. Shape(q)
    BY <1>2, <1>3, <1>4 DEF Shape
  <1>6. Easy(p, q)
    BY <1>2, <1>3, <1>4, <1>5 DEF Easy
  <1>7. Live(p) => Live(q)
    <2> SUFFICES ASSUME Live(p), NEW f \in Fields, q.popover[f] # None
                 PROVE  /\ Attached(q, f) /\ q.active = f
                        /\ Current(q, f) \in States /\ q.popover[f] = q.shown[Current(q, f)]
      BY DEF Live
    <2>1. /\ Attached(p, f) /\ p.active = f
          /\ Current(p, f) \in States /\ p.popover[f] = p.shown[Current(p, f)]
      BY <1>4 DEF Live
    <2>2. q.made[f] = p.made[f]
      BY <1>2, <1>3, <2>1
    <2> QED
      BY <1>2, <1>3, <1>4, <2>1, <2>2 DEF Attached, Current
  <1>8. Fine(p, q)
    BY <1>6, <1>7 DEF Fine
  <1>9. Fine(q, Rerun(q, Current(q, first)))
    BY <1>5, RerunFine
  <1> QED
    BY <1>1, <1>8, <1>9, FineTwice

\* Fields are detached, with all they have.
LEMMA DetachFine ==
  ASSUME NEW p, Shape(p), NEW fs
  PROVE  Fine(p, Detach(p, fs))
  <1> DEFINE left  == {Current(p, f) : f \in {g \in fs : Attached(p, g)}}
             check == [s \in States |-> IF s \in left THEN None ELSE p.check[s]]
             over  == [f \in Fields |-> IF Current(p, f) \in left THEN None ELSE p.popover[f]]
             top   == IF p.active # None /\ Current(p, p.active) \in left THEN None ELSE p.active
             q     == [p EXCEPT !.kept = @ \ left, !.drawn = @ \ left, !.check = check,
                                !.debounce = @ \ left, !.grace = @ \ left,
                                !.popover = over, !.active = top]
  <1>1. Detach(p, fs) = q
    BY DEF Detach
  <1> HIDE DEF left
  <1>2. /\ DOMAIN check = States /\ \A s \in States : check[s] = IF s \in left THEN None ELSE p.check[s]
        /\ DOMAIN over = Fields /\ \A f \in Fields : over[f] # None =>
           over[f] = p.popover[f] /\ Current(p, f) \notin left
        /\ \A f \in Fields : p.active = f /\ Current(p, f) \notin left => top = f
    OBVIOUS
  <1> HIDE DEF check, over, top
  <1>3. /\ DOMAIN q = Names /\ q.kept = p.kept \ left /\ q.drawn = p.drawn \ left /\ q.check = check
        /\ q.popover = over /\ q.active = top
        /\ q.shown = p.shown /\ q.running = p.running /\ q.made = p.made /\ q.past = p.past
    BY DEF Shape, Names
  <1> HIDE DEF q
  <1>4. Shape(q)
    BY <1>2, <1>3 DEF Shape
  <1>5. Easy(p, q)
    BY <1>2, <1>3, <1>4 DEF Easy
  <1>6. Live(p) => Live(q)
    BY <1>2, <1>3 DEF Live, Attached, Current
  <1> QED
    BY <1>1, <1>5, <1>6 DEF Fine

\* An edit is heard: what it drops is not what a popover is about.
LEMMA HearFine ==
  ASSUME NEW p, Shape(p), NEW f \in Fields, NEW decision, NEW keeps
  PROVE  Fine(p, Hear(p, f, decision, keeps))
  <1> DEFINE heard == {s \in p.kept : s[1] = f}
             shown == [s \in States |-> IF s \in heard /\ ~keeps THEN None ELSE p.shown[s]]
             wait  == IF decision = "check" THEN p.debounce \cup heard ELSE p.debounce \ heard
             later == IF decision = "grace" THEN p.grace \cup heard ELSE p.grace \ heard
             q     == [p EXCEPT !.shown = shown, !.debounce = wait, !.grace = later]
             closes == p.popover[f] # None /\ \E s \in heard : Mine(p, s)
  <1>1. Hear(p, f, decision, keeps) =
          IF decision = "skip" THEN p ELSE IF closes THEN ClosePopover(q, f) ELSE q
    BY DEF Hear, Edited
  <1>2. /\ DOMAIN shown = States
        /\ \A s \in States : shown[s] \in {p.shown[s], None} /\ (s \notin heard => shown[s] = p.shown[s])
    OBVIOUS
  <1> HIDE DEF shown, wait, later
  <1>3. /\ DOMAIN q = Names /\ q.shown = shown
        /\ \A n \in Names \ {"shown", "debounce", "grace"} : q[n] = p[n]
    BY DEF Shape, Names
  <1> HIDE DEF q
  <1>4. /\ q.check = p.check /\ q.drawn = p.drawn /\ q.kept = p.kept /\ q.popover = p.popover
        /\ q.active = p.active /\ q.running = p.running /\ q.made = p.made /\ q.past = p.past
    BY <1>3 DEF Names
  <1>5. Shape(q)
    BY <1>2, <1>3, <1>4 DEF Shape
  <1>6. Easy(p, q)
    BY <1>2, <1>3, <1>4, <1>5 DEF Easy
  <1>7. ASSUME Live(p), NEW g \in Fields, p.popover[g] # None, g # f \/ ~closes
        PROVE  /\ Attached(p, g) /\ p.active = g /\ Current(p, g) \in States
               /\ p.popover[g] = shown[Current(p, g)]
    <2>1. /\ Attached(p, g) /\ p.active = g
          /\ Current(p, g) \in States /\ p.popover[g] = p.shown[Current(p, g)]
      BY <1>7 DEF Live
    <2>2. Current(p, g) \in p.kept /\ Mine(p, Current(p, g)) /\ Current(p, g)[1] = g
      BY <2>1 DEF Attached, Current, Mine
    <2>3. Current(p, g) \notin heard
      BY <1>7, <2>2
    <2> QED
      BY <1>2, <2>1, <2>3
  <1>8. CASE decision = "skip"
    BY <1>1, <1>8, SameFine DEF Shape
  <1>9. CASE decision # "skip" /\ ~closes
    <2>1. Live(p) => Live(q)
      BY <1>3, <1>4, <1>7, <1>9 DEF Live, Attached, Current
    <2> QED
      BY <1>1, <1>6, <1>9, <2>1 DEF Fine
  <1>10. CASE decision # "skip" /\ closes
    <2> DEFINE r == ClosePopover(q, f)
    <2>1. Easy(p, r)
      BY <1>5, <1>6, CloseFine, EasyTwice DEF Fine
    <2>2. /\ \A g \in Fields : r.popover[g] # None => g # f /\ r.popover[g] = p.popover[g]
          /\ r.active = (IF p.active = f THEN None ELSE p.active)
          /\ r.shown = shown /\ r.kept = p.kept /\ r.running = p.running /\ r.made = p.made /\ r.past = p.past
      <3>1. /\ r.popover = [q.popover EXCEPT ![f] = None]
            /\ r.active = (IF q.active = f THEN None ELSE q.active)
            /\ r.shown = q.shown /\ r.kept = q.kept /\ r.running = q.running /\ r.made = q.made
            /\ r.past = q.past
        BY <1>5 DEF ClosePopover, Shape, Names
      <3> QED
        BY <1>3, <1>4, <1>5, <3>1 DEF Shape
    <2> HIDE DEF r
    <2>3. Live(p) => Live(r)
      BY <1>7, <2>2 DEF Live, Attached, Current
    <2> QED
      BY <1>1, <1>10, <2>1, <2>3 DEF Fine, r
  <1> QED
    BY <1>8, <1>9, <1>10

-----------------------------------------------------------------------------
(* From the page to the question. *)

\* The steps LatestCheck allows.
Moves(p, q, s) ==
  \/ q.shown[s] \in {p.shown[s], None}
  \/ p.check[s] # None /\ q.shown[s] = p.check[s] /\ q.check[s] = None

Good(p, q) == IInv(q) /\ \A s \in States : Moves(p, q, s)

\* Every handler but the answer's is fine.
LEMMA FineGood ==
  ASSUME NEW p, NEW q, IInv(p), Fine(p, q)
  PROVE  Good(p, q)
  <1>1. Bare(q)
    BY DEF IInv, Fine, Easy, Bare
  <1>2. Shape(q) /\ Live(q)
    BY DEF IInv, Fine, Easy
  <1>3. \A s \in States : Moves(p, q, s)
    BY DEF Fine, Easy, Moves
  <1> QED
    BY <1>1, <1>2, <1>3 DEF Good, IInv

\* An answer is drawn, over whatever popover was there.
LEMMA AnswerGood ==
  ASSUME IInv(page), NEW s \in States, Answered(s)
  PROVE  Good(page, page')
  <1>1. PICK question \in {page.check[s], None} :
          page' = Render([page EXCEPT !.shown[s] = question, !.check[s] = None], s)
    BY DEF Answered, Step
  <1> DEFINE p == [page EXCEPT !.shown[s] = question, !.check[s] = None]
             t == [p EXCEPT !.drawn = @ \cup {s}]
  <1>2. page' = HidePopover(t, s)
    BY <1>1 DEF Render
  <1>3. /\ DOMAIN p = Names /\ p.shown = [page.shown EXCEPT ![s] = question]
        /\ p.check = [page.check EXCEPT ![s] = None]
        /\ \A n \in Names \ {"shown", "check"} : p[n] = page[n]
    BY DEF IInv, Shape, Names
  <1> HIDE DEF p
  <1>4. /\ DOMAIN t = Names /\ t.drawn = p.drawn \cup {s} /\ \A n \in Names \ {"drawn"} : t[n] = p[n]
    BY <1>3 DEF Names
  <1> HIDE DEF t
  <1>5. /\ t.shown = [page.shown EXCEPT ![s] = question] /\ t.check = [page.check EXCEPT ![s] = None]
        /\ t.drawn = page.drawn \cup {s}
        /\ t.kept = page.kept /\ t.popover = page.popover /\ t.active = page.active
        /\ t.running = page.running /\ t.made = page.made /\ t.past = page.past
    BY <1>3, <1>4 DEF Names
  <1>6. Shape(t)
    BY <1>4, <1>5 DEF IInv, Shape
  <1>7. Live(page')
    BY <1>2, <1>5, <1>6, RedrawLive DEF IInv, Shape
  <1>8. Shape(page') /\ page'.shown = t.shown /\ page'.check = t.check /\ page'.drawn = t.drawn
        /\ page'.kept = t.kept
    BY <1>2, <1>6 DEF HidePopover, Shape, Names
  <1>9. page.check[s] # None /\ s \in page.kept
    BY DEF Answered, IInv, Bare
  <1>10. Bare(page')
    BY <1>5, <1>8, <1>9 DEF IInv, Bare, Shape
  <1>11. ASSUME NEW q \in States PROVE Moves(page, page', q)
    BY <1>5, <1>8, <1>9 DEF IInv, Moves, Shape
  <1> QED
    BY <1>7, <1>8, <1>10, <1>11 DEF Good, IInv

-----------------------------------------------------------------------------
(* The steps. *)

\* Fields come and go, and the observer notes it.
LEMMA PageSteps ==
  ASSUME Shape(page), NEW f, Comes(f) \/ Goes(f)
  PROVE  Fine(page, page')
  <1>1. PICK dom, watch, leaving :
          page' = Moved([page EXCEPT !.dom[f] = dom, !.watch[f] = watch, !.leaving = leaving])
    <2>1. CASE Comes(f)
      <3>1. PICK watch : page' = Moved([page EXCEPT !.dom[f] = "in", !.watch[f] = watch])
        BY <2>1 DEF Comes, Step
      <3>2. [page EXCEPT !.dom[f] = "in", !.watch[f] = watch] =
              [page EXCEPT !.dom[f] = "in", !.watch[f] = watch, !.leaving = page.leaving]
        BY DEF Shape, Names
      <3>3. page' = Moved([page EXCEPT !.dom[f] = "in", !.watch[f] = watch, !.leaving = page.leaving])
        BY <3>1, <3>2
      <3> WITNESS "in", watch, page.leaving
      <3> QED
        BY <3>3
    <2>2. CASE Goes(f)
      <3> DEFINE leaving == IF page.watch[f] = "reported" THEN page.leaving \cup {f} ELSE page.leaving
      <3>1. PICK dom \in {"unfit", "gone"} :
              page' = Moved([page EXCEPT !.dom[f] = dom, !.watch[f] = "unknown", !.leaving = leaving])
        BY <2>2, Zenon DEF Goes, Step
      <3> HIDE DEF leaving
      <3> WITNESS dom, "unknown", leaving
      <3> QED
        BY <3>1, Zenon
    <2> QED
      BY <2>1, <2>2
  <1> DEFINE q == [page EXCEPT !.dom[f] = dom, !.watch[f] = watch, !.leaving = leaving]
  <1>2. DOMAIN q = Names /\ \A n \in Names \ {"dom", "watch", "leaving"} : q[n] = page[n]
    BY DEF Shape, Names
  <1>3. page' = [q EXCEPT !.moves = @ + 1]
    BY <1>1 DEF Moved
  <1> HIDE DEF q
  <1>4. DOMAIN page' = Names /\ \A n \in Names \ {"dom", "watch", "leaving", "moves"} : page'[n] = page[n]
    BY <1>2, <1>3 DEF Names
  <1>5. /\ page'.check = page.check /\ page'.shown = page.shown /\ page'.drawn = page.drawn
        /\ page'.kept = page.kept /\ page'.popover = page.popover /\ page'.active = page.active
        /\ page'.running = page.running /\ page'.made = page.made /\ page'.past = page.past
    BY <1>4 DEF Names
  <1> QED
    BY ONLY Shape(page), <1>4, <1>5, SameFine

\* The animation frame attaches, then detaches.
LEMMA DrainStep ==
  ASSUME Shape(page), Drain
  PROVE  Fine(page, page')
  <1> DEFINE came == {f \in Fields : page.watch[f] = "seen"}
  <1>1. PICK first, watch, released :
          page' = [Detach(Attach(page, came, first), page.leaving \ page.released) EXCEPT
                     !.watch = watch, !.leaving = {}, !.released = released]
    BY DEF Drain, Step
  <1> DEFINE p == Attach(page, came, first)
             q == Detach(p, page.leaving \ page.released)
  <1>2. Fine(page, p)
    BY AttachFine
  <1> HIDE DEF came, p
  <1>3. Fine(p, q)
    BY <1>2, DetachFine DEF Fine, Easy
  <1>4. page' = [q EXCEPT !.watch = watch, !.leaving = {}, !.released = released]
    BY <1>1 DEF p
  <1> HIDE DEF q
  <1>5. Shape(q)
    BY <1>3 DEF Fine, Easy
  <1>6. DOMAIN page' = Names /\ \A n \in Names \ {"watch", "leaving", "released"} : page'[n] = q[n]
    BY <1>4, <1>5 DEF Shape, Names
  <1>7. Fine(q, page')
    BY <1>5, <1>6, SameFine DEF Names
  <1> QED
    BY <1>2, <1>3, <1>7, FineTwice

\* The user types.
LEMMA TypeStep ==
  ASSUME Shape(page), NEW f \in Fields, Type(f)
  PROVE  Fine(page, page')
  <1>1. PICK text \in Drafts, decision \in {"check", "grace", "skip"}, keeps \in BOOLEAN :
          page' = Hear([page EXCEPT !.text[f] = text], f, decision, keeps)
    BY DEF Type, Step
  <1> DEFINE p == [page EXCEPT !.text[f] = text]
  <1>2. DOMAIN p = Names /\ \A n \in Names \ {"text"} : p[n] = page[n]
    BY DEF Shape, Names
  <1> HIDE DEF p
  <1>3. Fine(page, p)
    BY <1>2, SameFine DEF Names
  <1>4. page' = Hear(p, f, decision, keeps) /\ Shape(p)
    BY <1>1, <1>3 DEF p, Fine, Easy
  <1>5. Fine(p, page')
    BY <1>4, HearFine
  <1> QED
    BY <1>3, <1>5, FineTwice

\* The user leaves the field.
LEMMA BlurStep ==
  ASSUME Shape(page), NEW f \in Fields, Blur(f)
  PROVE  Fine(page, page')
  <1> DEFINE s == Current(page, f)
             p == [page EXCEPT !.shown[s] = None]
  <1>1. page' = IF p.popover[f] = None THEN p ELSE ClosePopover(p, f)
    BY DEF Blur, Step
  <1>2. /\ DOMAIN p = Names /\ p.shown = [page.shown EXCEPT ![s] = None]
        /\ \A n \in Names \ {"shown"} : p[n] = page[n]
    BY DEF Shape, Names
  <1>3. s[1] = f
    BY DEF Current
  <1> HIDE DEF p, s
  <1>4. /\ p.check = page.check /\ p.drawn = page.drawn /\ p.kept = page.kept
        /\ p.popover = page.popover /\ p.active = page.active /\ p.running = page.running
        /\ p.made = page.made /\ p.past = page.past
    BY <1>2 DEF Names
  <1>5. Shape(p)
    BY <1>2, <1>4 DEF Shape
  <1>6. Easy(page, p)
    BY <1>2, <1>4, <1>5 DEF Easy, Shape
  <1>7. ASSUME Live(page), NEW g \in Fields \ {f}, page.popover[g] # None
        PROVE  /\ Attached(p, g) /\ p.active = g
               /\ Current(p, g) \in States /\ page.popover[g] = p.shown[Current(p, g)]
    <2>1. /\ Attached(page, g) /\ page.active = g
          /\ Current(page, g) \in States /\ page.popover[g] = page.shown[Current(page, g)]
      BY <1>7 DEF Live
    <2>2. Current(page, g) # s /\ Current(p, g) = Current(page, g)
      BY <1>3, <1>4 DEF Current
    <2> QED
      BY <1>2, <1>4, <2>1, <2>2 DEF Attached, Shape
  <1>8. CASE p.popover[f] = None
    <2>1. Live(page) => Live(p)
      BY <1>4, <1>7, <1>8 DEF Live
    <2> QED
      BY <1>1, <1>6, <1>8, <2>1 DEF Fine
  <1>9. CASE p.popover[f] # None
    <2> DEFINE q == ClosePopover(p, f)
    <2>1. Easy(page, q)
      BY <1>5, <1>6, CloseFine, EasyTwice DEF Fine
    <2>2. /\ q.popover = [p.popover EXCEPT ![f] = None]
          /\ q.active = (IF p.active = f THEN None ELSE p.active)
          /\ q.shown = p.shown /\ q.kept = p.kept /\ q.running = p.running /\ q.made = p.made
          /\ q.past = p.past
      BY <1>5 DEF ClosePopover, Shape, Names
    <2> HIDE DEF q
    <2>3. Live(page) => Live(q)
      BY <1>4, <1>5, <1>7, <2>2 DEF Live, Attached, Current, Shape
    <2> QED
      BY <1>1, <1>9, <2>1, <2>3 DEF Fine, q
  <1> QED
    BY <1>8, <1>9

\* A popover opens, and another one closes.
LEMMA ClickStep ==
  ASSUME Shape(page), NEW f \in Fields, Click(f)
  PROVE  Fine(page, page')
  <1> DEFINE s == Current(page, f)
             p == IF page.active \in Fields \ {f} THEN ClosePopover(page, page.active) ELSE page
             q == ClosePopover(p, f)
  <1>1. /\ page' = [q EXCEPT !.popover[f] = page.shown[s], !.active = f]
        /\ Attached(page, f) /\ s \in page.drawn
    BY DEF Click, Step
  <1>2. Shape(p) /\ Easy(page, p)
    <2>1. Fine(page, page)
      BY SameFine DEF Shape
    <2>2. Fine(page, p)
      BY <2>1, CloseFine
    <2> QED
      BY <2>2 DEF Fine, Easy
  <1>3. Shape(q) /\ Easy(page, q)
    <2>1. Easy(p, q)
      BY <1>2, CloseFine DEF Fine
    <2>2. Easy(page, q)
      BY <1>2, <2>1, EasyTwice
    <2> QED
      BY <2>2 DEF Easy
  <1>4. /\ p.shown = page.shown /\ p.kept = page.kept /\ p.running = page.running
        /\ p.made = page.made /\ p.past = page.past /\ p.check = page.check /\ p.drawn = page.drawn
        /\ \A g \in Fields \ {f} : p.popover[g] # None => (p.popover[g] = page.popover[g] /\ page.active # g)
           \/ ~Live(page)
    <2>1. CASE page.active \in Fields \ {f}
      <3>1. p = [page EXCEPT !.popover[page.active] = None,
                             !.active = IF @ = page.active THEN None ELSE @]
        BY <2>1 DEF ClosePopover
      <3>2. /\ p.popover = [page.popover EXCEPT ![page.active] = None]
            /\ \A n \in Names \ {"popover", "active"} : p[n] = page[n]
        BY <3>1 DEF Shape, Names
      <3> HIDE DEF p
      <3>3. \A g \in Fields : p.popover[g] # None => p.popover[g] = page.popover[g] /\ page.active # g
        BY <2>1, <3>2 DEF Shape
      <3> QED
        BY <3>2, <3>3 DEF Names
    <2>2. CASE page.active \notin Fields \ {f}
      BY <2>2
    <2> QED
      BY <2>1, <2>2
  <1> HIDE DEF p
  <1>5. /\ q.popover = [p.popover EXCEPT ![f] = None]
        /\ q.shown = p.shown /\ q.kept = p.kept /\ q.running = p.running /\ q.made = p.made
        /\ q.past = p.past /\ q.check = p.check /\ q.drawn = p.drawn
    BY <1>2 DEF ClosePopover, Shape, Names
  <1> HIDE DEF q
  <1>6. /\ DOMAIN page' = Names /\ page'.popover = [q.popover EXCEPT ![f] = page.shown[s]]
        /\ page'.active = f /\ \A n \in Names \ {"popover", "active"} : page'[n] = q[n]
    BY <1>1, <1>3 DEF Shape, Names
  <1>7. /\ page'.shown = page.shown /\ page'.kept = page.kept /\ page'.running = page.running
        /\ page'.made = page.made /\ page'.past = page.past /\ page'.check = page.check
        /\ page'.drawn = page.drawn
    BY <1>4, <1>5, <1>6 DEF Names
  <1>8. Shape(page')
    BY <1>3, <1>6, <1>7 DEF Shape
  <1>9. Easy(page, page')
    BY <1>7, <1>8 DEF Easy
  <1>10. ASSUME Live(page), NEW g \in Fields \ {f} PROVE page'.popover[g] = None
    <2>1. page'.popover[g] = p.popover[g]
      BY <1>2, <1>3, <1>5, <1>6 DEF Shape
    <2>2. page.popover[g] # None => page.active = g
      BY <1>10 DEF Live
    <2> QED
      BY <1>4, <1>10, <2>1, <2>2
  <1>11. /\ Attached(page', f) /\ Current(page', f) = s /\ s \in States
         /\ page'.popover[f] = page'.shown[s]
    <2>1. s \in States
      BY <1>1 DEF Shape
    <2>2. page'.popover[f] = page.shown[s]
      BY <1>3, <1>6 DEF Shape
    <2>3. Attached(page', f) /\ Current(page', f) = s
      BY <1>1, <1>7 DEF Attached, Current
    <2> QED
      BY <1>7, <2>1, <2>2, <2>3
  <1>12. Live(page) => Live(page')
    BY <1>6, <1>10, <1>11 DEF Live
  <1> QED
    BY <1>9, <1>12 DEF Fine

\* Other steps of the user: they set timers, ask, or close the popover.
LEMMA UserSteps ==
  ASSUME Shape(page), NEW f \in Fields, Paste(f) \/ UndoKey(f) \/ Apply(f) \/ Recheck(f)
  PROVE  Fine(page, page')
  <1>1. CASE Paste(f) \/ UndoKey(f)
    <2>1. /\ Paste(f) => page' = [page EXCEPT !.debounce = @ \ {Current(page, f)},
                                             !.grace = @ \cup {Current(page, f)}]
          /\ UndoKey(f) => page' = [page EXCEPT !.grace = @ \ {Current(page, f)},
                                               !.debounce = @ \cup {Current(page, f)}]
      BY DEF Paste, UndoKey, Step
    <2>2. DOMAIN page' = Names /\ \A n \in Names \ {"debounce", "grace"} : page'[n] = page[n]
      BY <1>1, <2>1 DEF Shape, Names
    <2> QED
      BY <2>2, SameFine DEF Names
  <1>2. CASE Apply(f)
    <2> DEFINE p == ClosePopover(page, f)
    <2>1. PICK text : page' = Rerun([p EXCEPT !.text[f] = text], Current(page, f))
      BY <1>2 DEF Apply, Step
    <2>2. Fine(page, p)
      BY CloseFine
    <2> HIDE DEF p
    <2> DEFINE q == [p EXCEPT !.text[f] = text]
    <2>3. Shape(p)
      BY <2>2 DEF Fine, Easy
    <2>4. DOMAIN q = Names /\ \A n \in Names \ {"text"} : q[n] = p[n]
      BY <2>3 DEF Shape, Names
    <2> HIDE DEF q
    <2>5. Fine(p, q)
      BY <2>3, <2>4, SameFine DEF Names
    <2>6. Fine(q, page')
      BY <2>1, <2>5, RerunFine DEF q, Fine, Easy
    <2> QED
      BY <2>2, <2>5, <2>6, FineTwice
  <1>3. CASE Recheck(f)
    BY <1>3, RerunFine DEF Recheck, Step
  <1> QED
    BY <1>1, <1>2, <1>3

\* All popovers close.
LEMMA ScrollSteps ==
  ASSUME Shape(page), Scroll \/ LocationChange
  PROVE  Fine(page, page')
  <1>1. PICK active : page' = [page EXCEPT !.popover = [f \in Fields |-> None], !.active = active]
    <2>1. NoPopover(page) = [page EXCEPT !.popover = [f \in Fields |-> None], !.active = page.active]
      BY DEF NoPopover, Shape, Names
    <2> QED
      BY <2>1 DEF Scroll, LocationChange, NoPopover, Step
  <1>2. /\ DOMAIN page' = Names /\ page'.popover = [f \in Fields |-> None]
        /\ \A n \in Names \ {"popover", "active"} : page'[n] = page[n]
    BY <1>1 DEF Shape, Names
  <1>3. page'.check = page.check /\ page'.shown = page.shown /\ page'.drawn = page.drawn
        /\ page'.kept = page.kept /\ page'.made = page.made
    BY <1>2 DEF Names
  <1>4. Shape(page')
    BY <1>2, <1>3 DEF Shape
  <1>5. Easy(page, page')
    BY <1>3, <1>4 DEF Easy
  <1>6. Live(page')
    BY <1>2 DEF Live
  <1> QED
    BY <1>5, <1>6 DEF Fine

\* Timers run out, and a check fails.
LEMMA TimerSteps ==
  ASSUME Shape(page), NEW s \in States, DebounceIsOver(s) \/ GraceIsOver(s) \/ Fails(s)
  PROVE  Fine(page, page')
  <1>1. CASE DebounceIsOver(s) \/ GraceIsOver(s)
    <2> DEFINE p == IF DebounceIsOver(s) THEN [page EXCEPT !.debounce = @ \ {s}]
                    ELSE [page EXCEPT !.grace = @ \ {s}]
    <2>1. page' = Rerun(p, s)
      BY <1>1 DEF DebounceIsOver, GraceIsOver, Step
    <2>2. DOMAIN p = Names /\ \A n \in Names \ {"debounce", "grace"} : p[n] = page[n]
      BY DEF Shape, Names
    <2> HIDE DEF p
    <2>3. Fine(page, p)
      BY <2>2, SameFine DEF Names
    <2>4. Fine(p, page')
      BY <2>1, <2>3, RerunFine DEF Fine, Easy
    <2> QED
      BY <2>3, <2>4, FineTwice
  <1>2. CASE Fails(s)
    <2>1. page' = [page EXCEPT !.check[s] = None]
      BY <1>2 DEF Fails, Step
    <2>2. /\ DOMAIN page' = Names /\ page'.check = [page.check EXCEPT ![s] = None]
          /\ \A n \in Names \ {"check"} : page'[n] = page[n]
      BY <2>1 DEF Shape, Names
    <2>3. /\ page'.shown = page.shown /\ page'.drawn = page.drawn /\ page'.kept = page.kept
          /\ page'.popover = page.popover /\ page'.active = page.active
          /\ page'.running = page.running /\ page'.made = page.made /\ page'.past = page.past
      BY <2>2 DEF Names
    <2>4. Shape(page')
      BY <2>2, <2>3 DEF Shape
    <2>5. Easy(page, page')
      BY <2>2, <2>3, <2>4 DEF Easy, Shape
    <2>6. Live(page) => Live(page')
      BY <2>3 DEF Live, Attached, Current
    <2> QED
      BY <2>5, <2>6 DEF Fine
  <1> QED
    BY <1>1, <1>2

\* The runtime goes, and comes back; with none, there is no popover.
LEMMA RuntimeSteps ==
  ASSUME Shape(page), Teardown \/ Mount
  PROVE  Fine(page, page')
  <1>1. CASE Teardown
    <2> DEFINE ends == {Current(page, f) : f \in {g \in Fields : Attached(page, g)}}
               p == NoPopover(page)
    <2>1. PICK watch : page' = Moved([p EXCEPT
                !.running = FALSE, !.active = None, !.past = page.made,
                !.grace = @ \ ends, !.drawn = @ \ ends,
                !.watch = watch, !.leaving = {}, !.released = {}])
      BY <1>1 DEF Teardown, Step
    <2>2. /\ DOMAIN p = Names /\ p.popover = [f \in Fields |-> None]
          /\ \A n \in Names \ {"popover"} : p[n] = page[n]
      BY DEF NoPopover, Shape, Names
    <2> HIDE DEF p, ends
    <2> DEFINE q == [p EXCEPT
                !.running = FALSE, !.active = None, !.past = page.made,
                !.grace = @ \ ends, !.drawn = @ \ ends,
                !.watch = watch, !.leaving = {}, !.released = {}]
    <2>3. /\ DOMAIN q = Names /\ q.popover = p.popover /\ q.drawn = p.drawn \ ends
          /\ q.check = p.check /\ q.shown = p.shown /\ q.kept = p.kept /\ q.made = p.made
      BY <2>2 DEF Names
    <2>4. page' = [q EXCEPT !.moves = @ + 1]
      BY <2>1 DEF Moved
    <2> HIDE DEF q
    <2>5. /\ DOMAIN page' = Names /\ page'.popover = p.popover /\ page'.drawn = p.drawn \ ends
          /\ page'.check = p.check /\ page'.shown = p.shown /\ page'.kept = p.kept /\ page'.made = p.made
      BY <2>3, <2>4 DEF Names
    <2>6. p.drawn = page.drawn /\ p.check = page.check /\ p.shown = page.shown /\ p.kept = page.kept
          /\ p.made = page.made
      BY <2>2 DEF Names
    <2>7. Shape(page')
      BY <2>2, <2>5, <2>6 DEF Shape
    <2>8. Easy(page, page')
      BY <2>5, <2>6, <2>7 DEF Easy
    <2>9. Live(page')
      BY <2>2, <2>5 DEF Live
    <2> QED
      BY <2>8, <2>9 DEF Fine
  <1>2. CASE Mount
    <2>1. PICK watch : page' = Moved([page EXCEPT !.running = TRUE, !.watch = watch])
      BY <1>2 DEF Mount, Step
    <2> DEFINE q == [page EXCEPT !.running = TRUE, !.watch = watch]
    <2>2. DOMAIN q = Names /\ \A n \in Names \ {"running", "watch"} : q[n] = page[n]
      BY DEF Shape, Names
    <2>3. page' = [q EXCEPT !.moves = @ + 1]
      BY <2>1 DEF Moved
    <2> HIDE DEF q
    <2>4. DOMAIN page' = Names /\ \A n \in Names \ {"running", "watch", "moves"} : page'[n] = page[n]
      BY <2>2, <2>3 DEF Names
    <2>5. /\ page'.shown = page.shown /\ page'.drawn = page.drawn /\ page'.kept = page.kept
          /\ page'.popover = page.popover /\ page'.check = page.check /\ page'.made = page.made
      BY <2>4 DEF Names
    <2>6. Shape(page')
      BY <2>4, <2>5 DEF Shape
    <2>7. Easy(page, page')
      BY <2>5, <2>6 DEF Easy
    <2>8. ~page.running
      BY <1>2 DEF Mount
    <2>9. Live(page) => Live(page')
      BY <2>5, <2>8 DEF Live, Attached
    <2> QED
      BY <2>7, <2>9 DEF Fine
  <1> QED
    BY <1>1, <1>2

\* Every step keeps the invariant, and moves every state as LatestCheck allows.
LEMMA StepGood ==
  ASSUME IInv(page), [Next]_page
  PROVE  Good(page, page')
  <1>1. Shape(page)
    BY DEF IInv
  <1>2. Fine(page, page') => Good(page, page')
    BY FineGood
  <1>3. CASE page' = page
    <2>1. Fine(page, page')
      BY <1>1, <1>3, SameFine DEF Shape
    <2> QED
      BY <1>2, <2>1
  <1>4. ASSUME NEW f \in Fields,
               \/ Comes(f) \/ Goes(f) \/ Type(f) \/ Paste(f) \/ UndoKey(f) \/ Blur(f) \/ Click(f)
               \/ Apply(f) \/ Recheck(f)
        PROVE  Good(page, page')
    BY <1>1, <1>2, <1>4, PageSteps, TypeStep, BlurStep, ClickStep, UserSteps
  <1>5. CASE Drain \/ Scroll \/ LocationChange \/ Teardown \/ Mount
    BY <1>1, <1>2, <1>5, DrainStep, ScrollSteps, RuntimeSteps
  <1>6. ASSUME NEW s \in States, DebounceIsOver(s) \/ GraceIsOver(s) \/ Answered(s) \/ Fails(s)
        PROVE  Good(page, page')
    BY <1>1, <1>2, <1>6, TimerSteps, AnswerGood
  <1> QED
    BY <1>3, <1>4, <1>5, <1>6 DEF Next

-----------------------------------------------------------------------------

\* At first nothing is attached, asked or drawn.
LEMMA InvariantInit == Init => IInv(page)
  <1> SUFFICES ASSUME Init PROVE IInv(page)
    OBVIOUS
  <1>1. /\ DOMAIN page = Names /\ page.drawn = {}
        /\ page.made = [f \in Fields |-> 0]
        /\ page.shown = [s \in States |-> None] /\ page.check = [s \in States |-> None]
        /\ page.popover = [f \in Fields |-> None]
    BY DEF Init, Names
  <1> QED
    BY <1>1 DEF IInv, Shape, Bare, Live

\* No step breaks the invariant.
LEMMA InvariantStep == IInv(page) /\ [Next]_page => IInv(page')
  BY StepGood DEF Good

\* What the invariant says of the two properties.
LEMMA InvariantShows == IInv(page) => DetachedStayBare /\ PopoverIsLive
  BY DEF IInv, Bare, Live, DetachedStayBare, PopoverIsLive

\* At first nothing is asked or drawn, in any state.
LEMMA LatestStarts == Init => LatestInit
  <1> SUFFICES ASSUME Init, NEW s \in States PROVE Latest(s)!Init
    BY DEF LatestInit
  <1>1. page.check[s] = None /\ page.shown[s] = None
    BY DEF Init
  <1> QED
    BY <1>1 DEF Latest!Init

\* For each state, every step is one of LatestCheck's.
LEMMA LatestMoves == IInv(page) /\ [Next]_page => LatestStep
  <1> SUFFICES ASSUME IInv(page), [Next]_page, NEW s \in States PROVE Latest(s)!Step
    BY DEF LatestStep
  <1>1. Moves(page, page', s)
    BY StepGood DEF Good
  <1> QED
    BY <1>1 DEF Moves, Latest!Step, Latest!Next, Latest!Ask, Latest!Draw, Latest!Forget, Latest!Clear

\* The inductive invariant, for any number of fields, attaches and moves.
THEOREM Invariant == Spec => []IInv(page)
  <1>1. IInv(page) /\ [Next]_page => IInv(page)'
    BY InvariantStep
  <1> QED
    BY <1>1, InvariantInit, PTL DEF Spec

\* A field released with a check under way stays bare: no answer that comes
\* late, by whatever path, draws on a state that was detached.
THEOREM ReleasedStayBare == Spec => []DetachedStayBare
  BY InvariantShows, Invariant, PTL

\* One popover is open at a time, over an attached field, about suggestions the
\* field still shows.
THEOREM OnePopover == Spec => []PopoverIsLive
  BY InvariantShows, Invariant, PTL

\* For each state, suggestions are drawn only in answer to its latest check; one
\* aborted or given up draws nothing.
THEOREM ShowsLatest == Spec => LatestInit /\ [][LatestStep]_page
  <1>1. IInv(page) /\ [Next]_page => [LatestStep]_page
    BY LatestMoves
  <1> QED
    BY <1>1, LatestStarts, Invariant, PTL DEF Spec

-----------------------------------------------------------------------------
(* The first life of a field. *)

\* What says which fields are attached, and what the observer knows of them.
Roll == {"dom", "running", "watch", "leaving", "released", "made", "kept", "past"}

\* While there is a runtime, its observer knows which fields are there, and of those
\* not released, nor about to be, the reported ones are attached; when a runtime
\* goes, so do its attachments.
Life(p) ==
  /\ DOMAIN p.dom = Fields /\ DOMAIN p.watch = Fields /\ DOMAIN p.past = Fields
  /\ \A f \in Fields :
       /\ p.past[f] \in Nat /\ p.made[f] \in Nat /\ p.past[f] <= p.made[f]
       /\ p.watch[f] \in {"unknown", "seen", "reported"}
  /\ p.running => \A f \in Fields :
       /\ p.watch[f] = "unknown" <=> p.dom[f] # "in"
       /\ f \notin p.released /\ f \notin p.leaving => (Attached(p, f) <=> p.watch[f] = "reported")
  /\ ~p.running => p.past = p.made

Steady(p, q) == Shape(q) /\ \A n \in Roll : q[n] = p[n]

\* Steps that leave the roll alone keep the invariant.
LEMMA SteadyLife ==
  ASSUME NEW p, NEW q, Life(p), Steady(p, q)
  PROVE  Life(q)
  <1>1. /\ q.dom = p.dom /\ q.running = p.running /\ q.watch = p.watch /\ q.leaving = p.leaving
        /\ q.released = p.released /\ q.made = p.made /\ q.kept = p.kept /\ q.past = p.past
    BY DEF Steady, Roll
  <1> QED
    BY <1>1 DEF Life, Attached

\* Closing a popover, and starting a check, leave the roll alone.
LEMMA HandlersSteady ==
  ASSUME NEW p, Shape(p)
  PROVE  /\ \A f : Steady(p, ClosePopover(p, f))
         /\ \A s : Steady(p, HidePopover(p, s))
         /\ \A s : Steady(p, Rerun(p, s))
  <1>1. ASSUME NEW f PROVE Steady(p, ClosePopover(p, f))
    <2>1. Shape(ClosePopover(p, f))
      BY CloseFine DEF Fine, Easy
    <2>2. \A n \in Names \ {"popover", "active"} : ClosePopover(p, f)[n] = p[n]
      BY DEF ClosePopover, Shape, Names
    <2> QED
      BY <2>1, <2>2 DEF Steady, Roll, Names
  <1>2. ASSUME NEW t, Shape(t), \A n \in Roll : t[n] = p[n], NEW s
        PROVE  Steady(p, HidePopover(t, s))
    <2>1. Shape(HidePopover(t, s))
      BY <1>2, CloseFine DEF Fine, Easy
    <2>2. \A n \in Names \ {"popover"} : HidePopover(t, s)[n] = t[n]
      BY <1>2 DEF HidePopover, Shape, Names
    <2> QED
      BY <1>2, <2>1, <2>2 DEF Steady, Roll, Names
  <1>3. ASSUME NEW s PROVE Steady(p, Rerun(p, s))
    <2>1. Shape(Rerun(p, s))
      BY RerunFine DEF Fine, Easy
    <2>2. CASE s \notin p.kept
      BY <2>2 DEF Steady, Rerun
    <2>3. CASE s \in p.kept /\ p.dom[s[1]] = "gone"
      <3> DEFINE t == [p EXCEPT !.shown[s] = None, !.drawn = @ \ {s}]
      <3>1. /\ DOMAIN t = Names /\ t.shown = [p.shown EXCEPT ![s] = None] /\ t.drawn = p.drawn \ {s}
            /\ \A n \in Names \ {"shown", "drawn"} : t[n] = p[n]
        BY DEF Shape, Names
      <3>2. Rerun(p, s) = HidePopover(t, s)
        BY <2>3 DEF Rerun
      <3> HIDE DEF t
      <3>3. Shape(t)
        BY <3>1 DEF Shape, Names
      <3>4. \A n \in Roll : t[n] = p[n]
        BY <3>1 DEF Roll, Names
      <3> QED
        BY <1>2, <3>2, <3>3, <3>4
    <2>4. CASE s \in p.kept /\ p.dom[s[1]] # "gone"
      <3> DEFINE text == p.text[s[1]]
      <3>1. Rerun(p, s) = [p EXCEPT !.check[s] = text, !.started = @ + 1]
        BY <2>4 DEF Rerun
      <3> HIDE DEF text
      <3>2. \A n \in Names \ {"check", "started"} : Rerun(p, s)[n] = p[n]
        BY <3>1 DEF Shape, Names
      <3> QED
        BY <2>1, <3>2 DEF Steady, Roll, Names
    <2> QED
      BY <2>2, <2>3, <2>4
  <1>4. \A s : Steady(p, HidePopover(p, s))
    BY <1>2
  <1> QED
    BY <1>1, <1>3, <1>4

\* Such steps compose.
LEMMA SteadyTwice ==
  ASSUME NEW p, NEW q, NEW r, Steady(p, q), Steady(q, r)
  PROVE  Steady(p, r)
  BY DEF Steady

\* The user's steps, timers and answers leave the roll alone.
LEMMA StepsSteady ==
  ASSUME Shape(page), NEW f, NEW s,
         \/ f \in Fields /\ (Type(f) \/ Paste(f) \/ UndoKey(f) \/ Blur(f) \/ Click(f) \/ Apply(f) \/
                             Recheck(f))
         \/ Scroll \/ LocationChange
         \/ s \in States /\ (DebounceIsOver(s) \/ GraceIsOver(s) \/ Answered(s) \/ Fails(s))
  PROVE  Steady(page, page')
  <1>1. ASSUME NEW p, DOMAIN p = Names,
               \A n \in Names \ {"text", "debounce", "grace", "started"} : p[n] = page[n]
        PROVE  Steady(page, p)
    <2>1. /\ p.check = page.check /\ p.shown = page.shown /\ p.popover = page.popover
          /\ p.drawn = page.drawn /\ p.made = page.made
      BY <1>1 DEF Names
    <2>2. Shape(p)
      BY <1>1, <2>1 DEF Shape
    <2> QED
      BY <1>1, <2>2 DEF Steady, Roll, Names
  <1>2. CASE f \in Fields /\ Type(f)
    <2>1. PICK text, decision, keeps : page' = Hear([page EXCEPT !.text[f] = text], f, decision, keeps)
      BY <1>2 DEF Type, Step
    <2> DEFINE p == [page EXCEPT !.text[f] = text]
               heard == {t \in p.kept : t[1] = f}
    <2>2. Steady(page, p)
      <3>1. DOMAIN p = Names /\ \A n \in Names \ {"text"} : p[n] = page[n]
        BY DEF Shape, Names
      <3> HIDE DEF p
      <3> QED
        BY <1>1, <3>1
    <2> HIDE DEF p
    <2>3. Shape(p)
      BY <2>2 DEF Steady
    <2>4. CASE decision = "skip"
      BY <2>1, <2>2, <2>4 DEF Hear, p
    <2>5. CASE decision # "skip"
      <3> DEFINE shown == [t \in States |-> IF t \in heard /\ ~keeps THEN None ELSE p.shown[t]]
                 wait  == IF decision = "check" THEN p.debounce \cup heard ELSE p.debounce \ heard
                 later == IF decision = "grace" THEN p.grace \cup heard ELSE p.grace \ heard
                 q == [p EXCEPT !.shown = shown, !.debounce = wait, !.grace = later]
      <3>1. page' \in {q, ClosePopover(q, f)}
        <4>1. page' = Hear(p, f, decision, keeps)
          BY <2>1 DEF p
        <4> QED
          BY <2>5, <4>1 DEF Hear, Edited
      <3>2. DOMAIN shown = States
        OBVIOUS
      <3> HIDE DEF shown, wait, later
      <3>3. /\ DOMAIN q = Names /\ q.shown = shown
            /\ \A n \in Names \ {"shown", "debounce", "grace"} : q[n] = p[n]
        BY <2>3 DEF Shape, Names
      <3> HIDE DEF q
      <3>4. Shape(q)
        <4>1. q.check = p.check /\ q.popover = p.popover /\ q.drawn = p.drawn /\ q.made = p.made
          BY <3>3 DEF Names
        <4> QED
          BY <2>3, <3>2, <3>3, <4>1 DEF Shape
      <3>5. Steady(page, q)
        <4>1. \A n \in Roll : q[n] = p[n]
          BY <3>3 DEF Roll, Names
        <4> QED
          BY <2>2, <3>4, <4>1 DEF Steady
      <3> QED
        BY <3>1, <3>4, <3>5, HandlersSteady, SteadyTwice
    <2> QED
      BY <2>4, <2>5
  <1>3. CASE f \in Fields /\ (Paste(f) \/ UndoKey(f))
    <2>1. /\ Paste(f) => page' = [page EXCEPT !.debounce = @ \ {Current(page, f)},
                                             !.grace = @ \cup {Current(page, f)}]
          /\ UndoKey(f) => page' = [page EXCEPT !.grace = @ \ {Current(page, f)},
                                               !.debounce = @ \cup {Current(page, f)}]
      BY DEF Paste, UndoKey, Step
    <2>2. DOMAIN page' = Names /\ \A n \in Names \ {"debounce", "grace"} : page'[n] = page[n]
      BY <1>3, <2>1 DEF Shape, Names
    <2> QED
      BY <1>1, <2>2
  <1>4. CASE f \in Fields /\ Blur(f)
    <2> DEFINE c == Current(page, f)
               p == [page EXCEPT !.shown[c] = None]
    <2>1. page' \in {p, ClosePopover(p, f)}
      BY <1>4 DEF Blur, Step
    <2> HIDE DEF c
    <2>2. /\ DOMAIN p = Names /\ p.shown = [page.shown EXCEPT ![c] = None]
          /\ \A n \in Names \ {"shown"} : p[n] = page[n]
      BY DEF Shape, Names
    <2> HIDE DEF p
    <2>3. Shape(p)
      <3>1. p.check = page.check /\ p.popover = page.popover /\ p.drawn = page.drawn /\ p.made = page.made
        BY <2>2 DEF Names
      <3> QED
        BY <2>2, <3>1 DEF Shape
    <2>4. Steady(page, p)
      BY <2>2, <2>3 DEF Steady, Roll, Names
    <2> QED
      BY <2>1, <2>3, <2>4, HandlersSteady, SteadyTwice
  <1>5. CASE f \in Fields /\ Click(f)
    <2> DEFINE p == IF page.active \in Fields \ {f} THEN ClosePopover(page, page.active) ELSE page
               q == ClosePopover(p, f)
    <2>1. PICK about : page' = [q EXCEPT !.popover[f] = about, !.active = f]
      BY <1>5 DEF Click, Step
    <2>2. Steady(page, p)
      BY HandlersSteady DEF Steady
    <2> HIDE DEF p
    <2>3. Steady(page, q)
      BY <2>2, HandlersSteady, SteadyTwice DEF Steady
    <2> HIDE DEF q
    <2>4. /\ DOMAIN page' = Names /\ page'.popover = [q.popover EXCEPT ![f] = about]
          /\ \A n \in Names \ {"popover", "active"} : page'[n] = q[n]
      BY <2>1, <2>3 DEF Steady, Shape, Names
    <2>5. Shape(page')
      <3>1. page'.check = q.check /\ page'.shown = q.shown /\ page'.drawn = q.drawn /\ page'.made = q.made
        BY <2>4 DEF Names
      <3> QED
        BY <2>3, <2>4, <3>1 DEF Steady, Shape
    <2> QED
      BY <2>3, <2>4, <2>5 DEF Steady, Roll, Names
  <1>6. CASE f \in Fields /\ Apply(f)
    <2> DEFINE p == ClosePopover(page, f)
    <2>1. PICK text : page' = Rerun([p EXCEPT !.text[f] = text], Current(page, f))
      BY <1>6 DEF Apply, Step
    <2>2. Steady(page, p)
      BY HandlersSteady
    <2> HIDE DEF p
    <2> DEFINE q == [p EXCEPT !.text[f] = text]
    <2>3. DOMAIN q = Names /\ \A n \in Names \ {"text"} : q[n] = p[n]
      BY <2>2 DEF Steady, Shape, Names
    <2> HIDE DEF q
    <2>4. Shape(q)
      <3>1. /\ q.check = p.check /\ q.shown = p.shown /\ q.popover = p.popover /\ q.drawn = p.drawn
            /\ q.made = p.made
        BY <2>3 DEF Names
      <3> QED
        BY <2>2, <2>3, <3>1 DEF Steady, Shape
    <2>5. Steady(p, q)
      BY <2>3, <2>4 DEF Steady, Roll, Names
    <2> QED
      BY <2>1, <2>2, <2>4, <2>5, HandlersSteady, SteadyTwice DEF q
  <1>7. CASE f \in Fields /\ Recheck(f)
    BY <1>7, HandlersSteady DEF Recheck, Step
  <1>8. CASE Scroll \/ LocationChange
    <2>1. PICK active : page' = [page EXCEPT !.popover = [g \in Fields |-> None], !.active = active]
      <3>1. NoPopover(page) = [page EXCEPT !.popover = [g \in Fields |-> None], !.active = page.active]
        BY DEF NoPopover, Shape, Names
      <3> QED
        BY <1>8, <3>1 DEF Scroll, LocationChange, NoPopover, Step
    <2>2. /\ DOMAIN page' = Names /\ page'.popover = [g \in Fields |-> None]
          /\ \A n \in Names \ {"popover", "active"} : page'[n] = page[n]
      BY <2>1 DEF Shape, Names
    <2>3. Shape(page')
      <3>1. /\ page'.check = page.check /\ page'.shown = page.shown /\ page'.drawn = page.drawn
            /\ page'.made = page.made
        BY <2>2 DEF Names
      <3> QED
        BY <2>2, <3>1 DEF Shape
    <2> QED
      BY <2>2, <2>3 DEF Steady, Roll, Names
  <1>9. CASE s \in States /\ (DebounceIsOver(s) \/ GraceIsOver(s))
    <2> DEFINE p == IF DebounceIsOver(s) THEN [page EXCEPT !.debounce = @ \ {s}]
                    ELSE [page EXCEPT !.grace = @ \ {s}]
    <2>1. page' = Rerun(p, s)
      BY <1>9 DEF DebounceIsOver, GraceIsOver, Step
    <2>2. DOMAIN p = Names /\ \A n \in Names \ {"debounce", "grace"} : p[n] = page[n]
      BY DEF Shape, Names
    <2> HIDE DEF p
    <2>3. Steady(page, p)
      BY <1>1, <2>2
    <2> QED
      BY <2>1, <2>3, HandlersSteady, SteadyTwice DEF Steady
  <1>10. CASE s \in States /\ Fails(s)
    <2>1. page' = [page EXCEPT !.check[s] = None]
      BY <1>10 DEF Fails, Step
    <2>2. /\ DOMAIN page' = Names /\ page'.check = [page.check EXCEPT ![s] = None]
          /\ \A n \in Names \ {"check"} : page'[n] = page[n]
      BY <2>1 DEF Shape, Names
    <2>3. Shape(page')
      <3>1. /\ page'.shown = page.shown /\ page'.popover = page.popover /\ page'.drawn = page.drawn
            /\ page'.made = page.made
        BY <2>2 DEF Names
      <3> QED
        BY <2>2, <3>1 DEF Shape
    <2> QED
      BY <2>2, <2>3 DEF Steady, Roll, Names
  <1>11. CASE s \in States /\ Answered(s)
    <2>1. PICK question : page' = Render([page EXCEPT !.shown[s] = question, !.check[s] = None], s)
      BY <1>11 DEF Answered, Step
    <2> DEFINE p == [page EXCEPT !.shown[s] = question, !.check[s] = None]
               t == [p EXCEPT !.drawn = @ \cup {s}]
    <2>2. page' = HidePopover(t, s)
      BY <2>1 DEF Render
    <2>3. /\ DOMAIN p = Names /\ p.shown = [page.shown EXCEPT ![s] = question]
          /\ p.check = [page.check EXCEPT ![s] = None]
          /\ \A n \in Names \ {"shown", "check"} : p[n] = page[n]
      BY DEF Shape, Names
    <2> HIDE DEF p
    <2>4. /\ DOMAIN t = Names /\ t.drawn = p.drawn \cup {s} /\ \A n \in Names \ {"drawn"} : t[n] = p[n]
      BY <2>3 DEF Names
    <2> HIDE DEF t
    <2>5. Shape(t)
      <3>1. /\ t.check = p.check /\ t.shown = p.shown /\ t.popover = page.popover
            /\ t.drawn = page.drawn \cup {s} /\ t.made = page.made
        BY <2>3, <2>4 DEF Names
      <3> QED
        BY <1>11, <2>3, <2>4, <3>1 DEF Shape
    <2>6. Steady(page, t)
      BY <2>3, <2>4, <2>5 DEF Steady, Roll, Names
    <2> QED
      BY <2>2, <2>5, <2>6, HandlersSteady, SteadyTwice
  <1> QED
    BY <1>2, <1>3, <1>4, <1>5, <1>6, <1>7, <1>8, <1>9, <1>10, <1>11

\* Fields come and go: the observer notes what it knew of.
LEMMA PageLife ==
  ASSUME Shape(page), Life(page), NEW f \in Fields, Comes(f) \/ Goes(f)
  PROVE  Life(page')
  <1>1. PICK dom, watch, leaving :
          /\ page' = Moved([page EXCEPT !.dom[f] = dom, !.watch[f] = watch, !.leaving = leaving])
          /\ \/ /\ page.dom[f] # "in" /\ dom = "in" /\ leaving = page.leaving
                /\ watch = IF page.watch[f] = "unknown" /\ page.running THEN "seen" ELSE page.watch[f]
             \/ /\ page.dom[f] = "in" /\ dom # "in" /\ watch = "unknown"
                /\ leaving = IF page.watch[f] = "reported" THEN page.leaving \cup {f} ELSE page.leaving
    <2>1. CASE Comes(f)
      <3> DEFINE seen == IF page.watch[f] = "unknown" /\ page.running THEN "seen" ELSE page.watch[f]
      <3>1. /\ page.dom[f] # "in"
            /\ page' = Moved([page EXCEPT !.dom[f] = "in", !.watch[f] = seen])
        BY <2>1 DEF Comes, Step
      <3>2. [page EXCEPT !.dom[f] = "in", !.watch[f] = seen] =
              [page EXCEPT !.dom[f] = "in", !.watch[f] = seen, !.leaving = page.leaving]
        BY DEF Shape, Names
      <3> QED
        BY <3>1, <3>2
    <2>2. CASE Goes(f)
      <3>1. PICK dom \in {"unfit", "gone"} :
              /\ page.dom[f] = "in"
              /\ page' = Moved([page EXCEPT
                   !.dom[f] = dom, !.watch[f] = "unknown",
                   !.leaving = IF page.watch[f] = "reported" THEN @ \cup {f} ELSE @])
        BY <2>2 DEF Goes, Step
      <3>2. dom # "in"
        BY <3>1
      <3> QED
        BY <3>1, <3>2
    <2> QED
      BY <2>1, <2>2
  <1> DEFINE q == [page EXCEPT !.dom[f] = dom, !.watch[f] = watch, !.leaving = leaving]
  <1>2. /\ DOMAIN q = Names /\ q.dom = [page.dom EXCEPT ![f] = dom] /\
           q.watch = [page.watch EXCEPT ![f] = watch]
        /\ q.leaving = leaving /\ \A n \in Names \ {"dom", "watch", "leaving"} : q[n] = page[n]
    BY DEF Shape, Names
  <1>3. page' = [q EXCEPT !.moves = @ + 1]
    BY <1>1 DEF Moved
  <1> HIDE DEF q
  <1>4. /\ page'.dom = [page.dom EXCEPT ![f] = dom] /\ page'.watch = [page.watch EXCEPT ![f] = watch]
        /\ page'.leaving = leaving /\ page'.running = page.running /\ page'.released = page.released
        /\ page'.made = page.made /\ page'.kept = page.kept /\ page'.past = page.past
    BY <1>2, <1>3 DEF Names
  <1>5. \A g \in Fields : Attached(page', g) <=> Attached(page, g)
    BY <1>4 DEF Attached
  <1>6. /\ page'.dom[f] = dom /\ page'.watch[f] = watch
        /\ \A g \in Fields \ {f} : /\ page'.dom[g] = page.dom[g] /\ page'.watch[g] = page.watch[g]
                                   /\ g \in page'.leaving <=> g \in page.leaving
    BY <1>1, <1>4 DEF Life
  <1>7. watch \in {"unknown", "seen", "reported"}
    BY <1>1 DEF Life
  <1>8. ASSUME page.running
        PROVE  /\ watch = "unknown" <=> dom # "in"
               /\ f \notin page.released /\ f \notin leaving => (Attached(page, f) <=> watch = "reported")
    <2>1. /\ page.watch[f] = "unknown" <=> page.dom[f] # "in"
          /\ f \notin page.released /\ f \notin page.leaving =>
               (Attached(page, f) <=> page.watch[f] = "reported")
      BY <1>8 DEF Life
    <2>2. page.watch[f] \in {"unknown", "seen", "reported"}
      BY DEF Life
    <2> QED
      BY <1>1, <1>8, <2>1, <2>2
  <1>9. page'.running => \A g \in Fields :
          /\ page'.watch[g] = "unknown" <=> page'.dom[g] # "in"
          /\ g \notin page'.released /\ g \notin page'.leaving =>
               (Attached(page', g) <=> page'.watch[g] = "reported")
    <2> SUFFICES ASSUME page.running, NEW g \in Fields
                 PROVE  /\ page'.watch[g] = "unknown" <=> page'.dom[g] # "in"
                        /\ g \notin page'.released /\ g \notin page'.leaving =>
                             (Attached(page', g) <=> page'.watch[g] = "reported")
      BY <1>4
    <2>1. CASE g = f
      BY <1>4, <1>5, <1>6, <1>8, <2>1
    <2>2. CASE g # f
      BY <1>4, <1>5, <1>6, <2>2 DEF Life
    <2> QED
      BY <2>1, <2>2
  <1>10. /\ DOMAIN page'.dom = Fields /\ DOMAIN page'.watch = Fields /\ DOMAIN page'.past = Fields
         /\ \A g \in Fields :
              /\ page'.past[g] \in Nat /\ page'.made[g] \in Nat /\ page'.past[g] <= page'.made[g]
              /\ page'.watch[g] \in {"unknown", "seen", "reported"}
         /\ ~page'.running => page'.past = page'.made
    BY <1>4, <1>6, <1>7 DEF Life
  <1> QED
    BY <1>9, <1>10 DEF Life

\* What the frame attaches and detaches.
Attaches(p, fresh, r) ==
  /\ Shape(r)
  /\ \A f \in Fields : r.made[f] = IF f \in fresh THEN p.made[f] + 1 ELSE p.made[f]
  /\ \A s : s \in r.kept <=> (s \in p.kept \/ \E f \in fresh : s = <<f, p.made[f] + 1>>)
  /\ \A n \in Roll \ {"made", "kept"} : r[n] = p[n]

\* The fields that were not attached are, and nothing else of the roll changes.
LEMMA AttachRoll ==
  ASSUME NEW p, Shape(p), NEW fs, fs \subseteq Fields, NEW first,
         NEW fresh, fresh = {f \in fs : ~Attached(p, f)},
         NEW r, r = Attach(p, fs, first)
  PROVE  Attaches(p, fresh, r)
  <1> DEFINE new  == {f \in fs : ~Attached(p, f)}
             made == [f \in Fields |-> IF f \in new THEN p.made[f] + 1 ELSE p.made[f]]
             kept == p.kept \cup {<<f, p.made[f] + 1>> : f \in new}
             q    == [p EXCEPT !.made = made, !.kept = kept]
  <1>1. r = IF first \in new THEN Rerun(q, Current(q, first)) ELSE q
    BY DEF Attach
  <1>2. DOMAIN made = Fields
    OBVIOUS
  <1> HIDE DEF new, made, kept
  <1>3. /\ DOMAIN q = Names /\ q.made = made /\ q.kept = kept
        /\ \A n \in Names \ {"made", "kept"} : q[n] = p[n]
    BY DEF Shape, Names
  <1> HIDE DEF q
  <1>4. Shape(q)
    <2>1. q.check = p.check /\ q.shown = p.shown /\ q.drawn = p.drawn /\ q.popover = p.popover
      BY <1>3 DEF Names
    <2> QED
      BY <1>2, <1>3, <2>1 DEF Shape
  <1>5. Steady(q, r)
    BY <1>1, <1>4, HandlersSteady DEF Steady
  <1>6. Shape(r) /\ r.made = made /\ r.kept = kept /\ \A n \in Roll \ {"made", "kept"} : r[n] = p[n]
    BY <1>3, <1>5 DEF Steady, Roll, Names
  <1> QED
    BY <1>6 DEF Attaches, made, kept, new

\* Only the states of the fields it is of are detached.
LEMMA DetachRoll ==
  ASSUME NEW p, Shape(p), NEW fs
  PROVE  LET q == Detach(p, fs) IN
         /\ Shape(q)
         /\ q.kept = p.kept \ {Current(p, f) : f \in {g \in fs : Attached(p, g)}}
         /\ \A n \in Roll \ {"kept"} : q[n] = p[n]
  <1> DEFINE left  == {Current(p, f) : f \in {g \in fs : Attached(p, g)}}
             check == [s \in States |-> IF s \in left THEN None ELSE p.check[s]]
             over  == [f \in Fields |-> IF Current(p, f) \in left THEN None ELSE p.popover[f]]
             top   == IF p.active # None /\ Current(p, p.active) \in left THEN None ELSE p.active
             q     == [p EXCEPT !.kept = @ \ left, !.drawn = @ \ left, !.check = check,
                                !.debounce = @ \ left, !.grace = @ \ left,
                                !.popover = over, !.active = top]
  <1>1. Detach(p, fs) = q
    BY DEF Detach
  <1> HIDE DEF left, check, over, top
  <1>2. /\ q.kept = p.kept \ left
        /\ \A n \in Names \ {"kept", "drawn", "check", "debounce", "grace", "popover", "active"} : q[n] = p[n]
    BY DEF Shape, Names
  <1> HIDE DEF q
  <1>3. Shape(q)
    BY <1>1, DetachFine DEF Fine, Easy
  <1>4. \A n \in Roll \ {"kept"} : q[n] = p[n]
    BY <1>2 DEF Roll, Names
  <1> QED
    BY <1>1, <1>2, <1>3, <1>4 DEF left

\* The animation frame: what came is attached, and what went is released.
LEMMA DrainLife ==
  ASSUME Shape(page), Life(page), Drain
  PROVE  Life(page')
  <1> DEFINE came == {f \in Fields : page.watch[f] = "seen"}
             goes == page.leaving \ page.released
             new  == {f \in came : ~Attached(page, f)}
  <1>1. PICK first :
          /\ page' = [Detach(Attach(page, came, first), goes) EXCEPT
                       !.watch = [f \in Fields |-> IF f \in came THEN "reported" ELSE @[f]],
                       !.leaving = {}, !.released = @ \cup page.leaving]
          /\ page.running
    BY DEF Drain, Step
  <1> DEFINE p == Attach(page, came, first)
             q == Detach(p, goes)
             left == {Current(p, f) : f \in {g \in goes : Attached(p, g)}}
  <1>2. /\ Shape(p)
        /\ \A f \in Fields : p.made[f] = IF f \in new THEN page.made[f] + 1 ELSE page.made[f]
        /\ \A s : s \in p.kept <=> (s \in page.kept \/ \E f \in new : s = <<f, page.made[f] + 1>>)
        /\ \A n \in Roll \ {"made", "kept"} : p[n] = page[n]
    <2>1. came \subseteq Fields /\ new = {f \in came : ~Attached(page, f)}
      OBVIOUS
    <2> HIDE DEF came, new, p
    <2>2. p = Attach(page, came, first)
      BY DEF p
    <2>3. Attaches(page, new, p)
      BY <2>1, <2>2, AttachRoll
    <2> QED
      BY <2>3 DEF Attaches
  <1> HIDE DEF p
  <1>3. Shape(q) /\ q.kept = p.kept \ left /\ \A n \in Roll \ {"kept"} : q[n] = p[n]
    BY <1>2, DetachRoll
  <1>4. page' = [q EXCEPT !.watch = [f \in Fields |-> IF f \in came THEN "reported" ELSE @[f]],
                          !.leaving = {}, !.released = @ \cup page.leaving]
    BY <1>1 DEF p
  <1> HIDE DEF q
  <1>5. /\ page'.watch = [f \in Fields |-> IF f \in came THEN "reported" ELSE q.watch[f]]
        /\ page'.leaving = {} /\ page'.released = q.released \cup page.leaving
        /\ page'.dom = q.dom /\ page'.running = q.running /\ page'.made = q.made /\ page'.kept = q.kept
        /\ page'.past = q.past
    BY <1>3, <1>4 DEF Shape, Names
  <1>6. /\ page'.watch = [f \in Fields |-> IF f \in came THEN "reported" ELSE page.watch[f]]
        /\ page'.leaving = {} /\ page'.released = page.released \cup page.leaving
        /\ page'.dom = page.dom /\ page'.running = page.running /\ page'.past = page.past
        /\ page'.made = p.made /\ page'.kept = p.kept \ left /\ p.running = page.running /\ p.past = page.past
    BY <1>2, <1>3, <1>5 DEF Roll
  <1>7. ASSUME NEW f \in Fields, f \notin page'.released
        PROVE  Attached(page', f) <=> Attached(p, f)
    <2>1. f \notin goes
      BY <1>6, <1>7
    <2>2. <<f, p.made[f]>> \notin left
      BY <2>1 DEF Current
    <2> QED
      BY <1>6, <2>2 DEF Attached
  <1>8. ASSUME NEW f \in Fields
        PROVE  /\ f \in came => Attached(p, f)
               /\ f \notin came => (Attached(p, f) <=> Attached(page, f))
               /\ p.made[f] \in Nat /\ page.past[f] <= p.made[f]
    <2>1. /\ page.past[f] \in Nat /\ page.made[f] \in Nat /\ page.past[f] <= page.made[f]
      BY DEF Life
    <2>2. CASE f \in new
      <3>1. p.made[f] = page.made[f] + 1
        BY <1>2, <2>2
      <3>2. <<f, p.made[f]>> \in p.kept
        BY <1>2, <2>2, <3>1
      <3>3. p.made[f] > p.past[f]
        BY <1>6, <2>1, <3>1
      <3>4. Attached(p, f)
        BY <1>1, <1>6, <3>2, <3>3 DEF Attached
      <3> QED
        BY <2>1, <2>2, <3>1, <3>4
    <2>3. CASE f \notin new
      <3>1. p.made[f] = page.made[f]
        BY <1>2, <2>3
      <3>2. <<f, page.made[f]>> \in p.kept <=> <<f, page.made[f]>> \in page.kept
        BY <1>2, <2>3
      <3>3. Attached(p, f) <=> Attached(page, f)
        BY <1>6, <3>1, <3>2 DEF Attached
      <3> QED
        BY <2>1, <2>3, <3>1, <3>3
    <2> QED
      BY <2>2, <2>3
  <1>9. \A f \in Fields :
          /\ page'.watch[f] \in {"unknown", "seen", "reported"}
          /\ page'.watch[f] = "unknown" <=> page.watch[f] = "unknown"
          /\ page'.watch[f] = "reported" <=> (f \in came \/ page.watch[f] = "reported")
    BY <1>6 DEF Life
  <1>10. ASSUME NEW f \in Fields
         PROVE  /\ page'.watch[f] = "unknown" <=> page'.dom[f] # "in"
                /\ f \notin page'.released /\ f \notin page'.leaving =>
                     (Attached(page', f) <=> page'.watch[f] = "reported")
    <2>1. page'.watch[f] = "unknown" <=> page'.dom[f] # "in"
      <3>1. page.watch[f] = "unknown" <=> page.dom[f] # "in"
        BY <1>1 DEF Life
      <3> QED
        BY <1>6, <1>9, <3>1
    <2>2. ASSUME f \notin page'.released
          PROVE  Attached(page', f) <=> page'.watch[f] = "reported"
      <3>1. Attached(page, f) <=> page.watch[f] = "reported"
        BY <1>1, <1>6, <2>2 DEF Life
      <3> QED
        BY <1>7, <1>8, <1>9, <2>2, <3>1
    <2> QED
      BY <2>1, <2>2
  <1>11. DOMAIN page'.dom = Fields /\ DOMAIN page'.watch = Fields /\ DOMAIN page'.past = Fields
    BY <1>6 DEF Life
  <1>12. \A f \in Fields : page'.past[f] \in Nat /\ page'.made[f] \in Nat /\ page'.past[f] <= page'.made[f]
    BY <1>6, <1>8 DEF Life
  <1> QED
    BY <1>1, <1>6, <1>9, <1>10, <1>11, <1>12 DEF Life

\* The runtime goes with its attachments, and the next one begins with none.
LEMMA RuntimeLife ==
  ASSUME Shape(page), Life(page), Teardown \/ Mount
  PROVE  Life(page')
  <1>1. CASE Teardown
    <2> DEFINE ends == {Current(page, f) : f \in {g \in Fields : Attached(page, g)}}
               p == NoPopover(page)
               off == FALSE
               quiet == [f \in Fields |-> "unknown"]
    <2>1. page' = Moved([p EXCEPT
                !.running = off, !.active = None, !.past = page.made,
                !.grace = @ \ ends, !.drawn = @ \ ends,
                !.watch = quiet, !.leaving = {}, !.released = {}])
      BY <1>1 DEF Teardown, Step
    <2>2. ~off
      OBVIOUS
    <2> HIDE DEF off
    <2>3. DOMAIN p = Names /\ \A n \in Names \ {"popover"} : p[n] = page[n]
      BY DEF NoPopover, Shape, Names
    <2>4. DOMAIN quiet = Fields /\ \A f \in Fields : quiet[f] = "unknown"
      OBVIOUS
    <2> HIDE DEF p, ends, quiet
    <2> DEFINE q == [p EXCEPT
                !.running = off, !.active = None, !.past = page.made,
                !.grace = @ \ ends, !.drawn = @ \ ends,
                !.watch = quiet, !.leaving = {}, !.released = {}]
    <2>5. /\ DOMAIN q = Names /\ q.past = page.made /\ q.watch = quiet /\ q.made = p.made /\ q.dom = p.dom
      BY <2>3 DEF Names
    <2>6. q.running <=> off
      BY <2>3, Zenon DEF Names
    <2>7. page' = [q EXCEPT !.moves = @ + 1]
      BY <2>1 DEF Moved
    <2> HIDE DEF q
    <2>8. /\ page'.past = page.made /\ page'.watch = quiet /\ page'.made = page.made /\ page'.dom = page.dom
          /\ page'.running = q.running
      BY <2>3, <2>5, <2>7 DEF Names
    <2>9. ~page'.running
      BY <2>2, <2>6, <2>8
    <2> QED
      BY <2>4, <2>8, <2>9 DEF Life, Shape
  <1>2. CASE Mount
    <2> DEFINE on == TRUE
               swept == Sweep(page.dom)
    <2>1. page' = Moved([page EXCEPT !.running = on, !.watch = swept]) /\ ~page.running
      BY <1>2 DEF Mount, Step
    <2> DEFINE q == [page EXCEPT !.running = on, !.watch = swept]
    <2>2. DOMAIN swept = Fields /\ \A f \in Fields : swept[f] = IF page.dom[f] = "in" THEN "seen"
                                                                ELSE "unknown"
      BY DEF Sweep
    <2> HIDE DEF on, swept
    <2>3. /\ DOMAIN q = Names /\ q.watch = swept
          /\ \A n \in Names \ {"running", "watch"} : q[n] = page[n]
      BY DEF Shape, Names
    <2>4. page' = [q EXCEPT !.moves = @ + 1]
      BY <2>1 DEF Moved
    <2> HIDE DEF q
    <2>5. /\ page'.watch = swept /\ page'.dom = page.dom /\ page'.past = page.past /\ page'.made = page.made
          /\ page'.kept = page.kept
      BY <2>3, <2>4 DEF Names
    <2>6. page.past = page.made
      BY <2>1 DEF Life
    <2>7. \A f \in Fields : ~Attached(page', f)
      BY <2>5, <2>6 DEF Attached, Life
    <2>8. page'.running
      <3>1. q.running <=> on
        BY Zenon DEF q, Shape, Names
      <3>2. on
        BY DEF on
      <3>3. page'.running = q.running
        BY <2>3, <2>4 DEF Names
      <3> QED
        BY <3>1, <3>2, <3>3
    <2> QED
      BY <2>2, <2>5, <2>7, <2>8 DEF Life
  <1> QED
    BY <1>1, <1>2

\* No step breaks the roll.
LEMMA LifeStep ==
  ASSUME Shape(page), Life(page), [Next]_page
  PROVE  Life(page')
  <1>1. CASE page' = page
    BY <1>1
  <1>2. ASSUME NEW f \in Fields, Comes(f) \/ Goes(f) PROVE Life(page')
    BY <1>2, PageLife
  <1>3. CASE Drain \/ Teardown \/ Mount
    BY <1>3, DrainLife, RuntimeLife
  <1>4. ASSUME NEW f \in Fields,
               \/ Type(f) \/ Paste(f) \/ UndoKey(f) \/ Blur(f) \/ Click(f) \/ Apply(f) \/ Recheck(f)
        PROVE  Life(page')
    <2>1. Steady(page, page')
      BY <1>4, StepsSteady
    <2> QED
      BY <2>1, SteadyLife
  <1>5. CASE Scroll \/ LocationChange
    <2>1. Steady(page, page')
      BY <1>5, StepsSteady
    <2> QED
      BY <2>1, SteadyLife
  <1>6. ASSUME NEW s \in States, DebounceIsOver(s) \/ GraceIsOver(s) \/ Answered(s) \/ Fails(s)
        PROVE  Life(page')
    <2>1. Steady(page, page')
      BY <1>6, StepsSteady
    <2> QED
      BY <2>1, SteadyLife
  <1> QED
    BY <1>1, <1>2, <1>3, <1>4, <1>5, <1>6 DEF Next

\* At first nothing is attached, and the observer has swept the page.
LEMMA LifeInit == Init => Life(page)
  <1> SUFFICES ASSUME Init PROVE Life(page)
    OBVIOUS
  <1>1. PICK dom \in [Fields -> {"in", "gone"}] :
          /\ page.dom = dom /\ page.watch = Sweep(dom) /\ page.kept = {}
          /\ page.made = [f \in Fields |-> 0] /\ page.past = [f \in Fields |-> 0]
    BY DEF Init
  <1>2. page.running = TRUE
    BY DEF Init
  <1>3. /\ DOMAIN page.dom = Fields /\ DOMAIN page.watch = Fields /\ DOMAIN page.past = Fields
        /\ \A f \in Fields : /\ page.watch[f] = IF page.dom[f] = "in" THEN "seen" ELSE "unknown"
                             /\ page.past[f] = 0 /\ page.made[f] = 0
    BY <1>1 DEF Sweep
  <1> QED
    BY <1>1, <1>2, <1>3 DEF Life, Attached

\* What the invariant says of the property.
LEMMA LifeShows == Life(page) => FirstLifeIsRight
  BY DEF Life, FirstLifeIsRight

\* Until its first release, once the frame's mutations are reported, a field is
\* attached exactly if it is there to be edited.
THEOREM FirstLife == Spec => []FirstLifeIsRight
  <1>1. Init => Life(page)
    BY LifeInit
  <1>2. IInv(page) /\ Life(page) /\ [Next]_page => Life(page)'
    BY LifeStep DEF IInv
  <1> QED
    BY <1>1, <1>2, LifeShows, Invariant, PTL DEF Spec
=============================================================================
