--------------------------- MODULE NativeHighlights ----------------------------
(***************************************************************************)
(* The highlighter of editable fields (clients/browser/src/overlay/        *)
(* native-highlight.ts) where the browser has CSS highlights: a registry   *)
(* of the page that the highlighter writes in parts, and never reads.  A   *)
(* range stands for where an item is in its field, None for an item whose  *)
(* span is in no text node.                                                *)
(***************************************************************************)
EXTENDS Naturals, Sequences

CONSTANTS Fields, Categories, Places, None, MaxItems

VARIABLE highlighter

Item == [category : Categories, range : Places \cup {None}]
Keys == Categories \X {"idle", "strong"}
NoHover == [el |-> None, index |-> 0]

Painted == highlighter.painted

TypeOK ==
  /\ \A el \in Fields : Len(highlighter.items[el]) <= MaxItems
  /\ highlighter.shown \subseteq Fields
  /\ highlighter.focused \in Fields \cup {None}
  /\ highlighter.hover.el \in Fields \cup {None}
  /\ Painted \subseteq [key : Keys, el : Fields, index : 1..MaxItems, range : Places]

Init ==
  highlighter = [items |-> [el \in Fields |-> <<>>],
                 shown |-> {},           \* the fields that have an entry
                 focused |-> None,
                 hover |-> NoHover,
                 hoverRange |-> None,
                 painted |-> {},         \* the registry: ranges by key
                 hovered |-> None]       \* and the one of gf-hover

-----------------------------------------------------------------------------
(* Slip_... definitions are slips the definition after them could have;    *)
(* nothing uses them.                                                      *)

\* What the items of these categories come to.
Buckets(h, categories) ==
  UNION {{[key |-> <<h.items[el][i].category, IF el = h.focused THEN "strong" ELSE "idle">>,
           el |-> el, index |-> i, range |-> h.items[el][i].range] :
             i \in {i \in DOMAIN h.items[el] : /\ h.items[el][i].category \in categories
                                              /\ h.items[el][i].range # None}} : el \in h.shown}

\* rebuildCategories, of all or of some: the others keep what they have.
Rebuild(h, touched) ==
  [h EXCEPT !.painted = IF h.shown = {} THEN {}
                        ELSE {p \in @ : p.key[1] \notin touched} \cup Buckets(h, touched)]

ApplyHover(h) == [h EXCEPT !.hovered = h.hoverRange]

\* The hovered item has this range now; without one it is not hovered.
Rehover(h, range) ==
  [h EXCEPT !.hoverRange = range, !.hover = IF range = None THEN NoHover ELSE @]

RangeAt(h, el, index) ==
  IF el \in h.shown /\ index <= Len(h.items[el]) THEN h.items[el][index].range ELSE None

SetFieldHighlights(el, items) ==
  /\ items # <<>> \/ el \in highlighter.shown
  /\ LET h == [highlighter EXCEPT !.items[el] = items, !.shown = @ \cup {el}]
         g == IF h.hover.el = el THEN Rehover(h, RangeAt(h, el, h.hover.index)) ELSE h
     IN  highlighter' = ApplyHover(Rebuild(g, Categories))

Slip_FocusOfSomeField(el) ==
  /\ el # highlighter.focused
  /\ highlighter' = IF el = None THEN [highlighter EXCEPT !.focused = el]
                    ELSE Rebuild([highlighter EXCEPT !.focused = el], Categories)

\* None when no field has the focus.
SetFocusedField(el) ==
  /\ el # highlighter.focused
  /\ highlighter' = Rebuild([highlighter EXCEPT !.focused = el], Categories)

SetHoverItem(el, index) ==
  /\ highlighter.hover # [el |-> el, index |-> index]
  /\ highlighter' = ApplyHover([highlighter EXCEPT
       !.hover = [el |-> el, index |-> index], !.hoverRange = RangeAt(highlighter, el, index)])

EndHover ==
  /\ highlighter.hover # NoHover
  /\ highlighter' = ApplyHover(Rehover(highlighter, None))

ClearField(el) ==
  /\ el \in highlighter.shown
  /\ LET h == [highlighter EXCEPT !.items[el] = <<>>, !.shown = @ \ {el},
                                  !.focused = IF @ = el THEN None ELSE @]
         g == IF h.hover.el = el THEN Rehover(h, None) ELSE h
     IN  highlighter' = ApplyHover(Rebuild(g, Categories))

\* The items of el but for one, which has become item.
Changed(el, index, item, touched) ==
  LET h == Rebuild([highlighter EXCEPT !.items[el][index] = item], touched)
  IN  highlighter' = ApplyHover(IF h.hover = [el |-> el, index |-> index]
                                THEN Rehover(h, item.range) ELSE h)

Slip_UpdateNewBucket(el, index, item) ==
  /\ el \in highlighter.shown /\ index <= Len(highlighter.items[el])
  /\ Changed(el, index, item, {item.category})

\* The buckets it leaves and enters are rebuilt.
UpdateItem(el, index, item) ==
  /\ el \in highlighter.shown /\ index <= Len(highlighter.items[el])
  /\ Changed(el, index, item, {highlighter.items[el][index].category, item.category})

ClearItem(el, index) ==
  /\ el \in highlighter.shown /\ index <= Len(highlighter.items[el])
  /\ LET item == [highlighter.items[el][index] EXCEPT !.range = None]
     IN  Changed(el, index, item, {item.category})

\* The next call makes another highlighter.
Destroy ==
  highlighter' = [items |-> [el \in Fields |-> <<>>], shown |-> {}, focused |-> None,
                  hover |-> NoHover, hoverRange |-> None, painted |-> {}, hovered |-> None]

Next ==
  \/ \E el \in Fields : \E n \in 0..MaxItems : \E items \in [1..n -> Item] : SetFieldHighlights(el, items)
  \/ \E el \in Fields \cup {None} : SetFocusedField(el)
  \/ \E el \in Fields, index \in 1..MaxItems : SetHoverItem(el, index)
  \/ EndHover
  \/ \E el \in Fields : ClearField(el)
  \/ \E el \in Fields, index \in 1..MaxItems, item \in Item : UpdateItem(el, index, item)
  \/ \E el \in Fields, index \in 1..MaxItems : ClearItem(el, index)
  \/ Destroy

Spec == Init /\ [][Next]_highlighter

-----------------------------------------------------------------------------
(* Safety. *)

\* Whatever was rebuilt in part, the registry is what the items and the focus
\* come to, and the hover is where the hovered item is now.
PaintedIsCurrent ==
  /\ Painted = Buckets(highlighter, Categories)
  /\ highlighter.hovered =
       IF highlighter.hover = NoHover THEN None
       ELSE RangeAt(highlighter, highlighter.hover.el, highlighter.hover.index)
=============================================================================
