------------------------------ MODULE SlidePatch ------------------------------
(***************************************************************************)
(* Saving the edits of a PPTX slide.  PptxParser decides which elements'   *)
(* text and geometry the editor offers; the source map finds the elements, *)
(* those in groups too, in the slide's XML; PptxPatcher replaces the text  *)
(* body or the transform of the element with the edited element's id.      *)
(*                                                                         *)
(* A slide is the sequence of its elements in the order of their opening   *)
(* tags.  `sourceId` is 0 where the element has none, `group` the position *)
(* of the group it lies in or 0, `xfrm` its own transform or NoFrame,      *)
(* `inherited` that of its placeholder in the layout, `text` its           *)
(* paragraphs or NoText, `simple` that they hold nothing unsupported.      *)
(***************************************************************************)
EXTENDS Integers, Sequences, SequencesExt, FiniteSetsExt

CONSTANTS NoFrame, NoText

ElementKinds == {"sp", "pic", "cxnSp", "grpSp", "graphicFrame"}
IsElement(e) ==
  e \in [kind : ElementKinds, sourceId : Nat, group : Nat, xfrm : {e.xfrm},
         inherited : {e.inherited}, text : {e.text}, simple : BOOLEAN]
IsSlide(slide) == slide \in Seq(ToSet(slide)) /\ \A i \in DOMAIN slide : IsElement(slide[i])

(* The parser counts an element without an id at its place; the source map *)
(* leaves it out.                                                          *)
Siblings(slide, i) == {j \in DOMAIN slide : slide[j].group = slide[i].group}
ElementId(slide, i) ==
  IF slide[i].sourceId # 0 THEN slide[i].sourceId
  ELSE Cardinality({j \in Siblings(slide, i) : j <= i})

Geometry(element) == IF element.xfrm # NoFrame THEN element.xfrm ELSE element.inherited

ElementType(element) ==
  CASE element.kind = "grpSp" -> "group"
    [] element.kind # "grpSp" /\ element.text # NoText -> "text"
    [] element.kind = "pic" /\ element.text = NoText -> "image"
    [] element.kind = "graphicFrame" /\ element.text = NoText -> "unsupported"
    [] OTHER -> "shape"

(* What the editor offers: nothing in a group.                             *)
OffersText(element) == element.group = 0 /\ ElementType(element) = "text" /\ element.simple
OffersGeometry(element) ==
  /\ element.group = 0
  /\ CASE ElementType(element) = "text" -> element.simple /\ Geometry(element) # NoFrame
       [] ElementType(element) \in {"image", "shape"} -> TRUE
       [] OTHER -> FALSE

SlideModel(slide) ==
  [i \in DOMAIN slide |->
     [id |-> ElementId(slide, i), type |-> ElementType(slide[i]), text |-> slide[i].text,
      geometry |-> Geometry(slide[i]), move |-> OffersGeometry(slide[i]), edit |-> OffersText(slide[i])]]

-----------------------------------------------------------------------------
(* The element the source map holds for an id is the last one with it, the *)
(* element the model holds is the first.                                   *)
MappedElement(slide, id) == {i \in DOMAIN slide : slide[i].sourceId = id /\ id # 0
                              /\ \A j \in i + 1 .. Len(slide) : slide[j].sourceId # id}
ElementById(slide, id) == Min({i \in DOMAIN slide : ElementId(slide, i) = id})

(* Only shapes keep their transform among their properties, where the      *)
(* source map looks for it.                                                *)
HasTransform(element) == element.xfrm # NoFrame /\ element.kind # "graphicFrame"

(* edits: for each edited element's id, its new text or NoText and its new *)
(* geometry or NoFrame.                                                    *)
RefusesSlide(slide, edits) ==
  \E id \in DOMAIN edits :
    \/ MappedElement(slide, id) = {}
    \/ \E i \in MappedElement(slide, id) :
         LET model == slide[ElementById(slide, id)]
         IN \/ edits[id].text # NoText /\ (~OffersText(model) \/ slide[i].text = NoText)
            \/ edits[id].geometry # NoFrame /\ (~OffersGeometry(model) \/ ~HasTransform(slide[i]))

PatchSlide(slide, edits) ==
  [i \in DOMAIN slide |->
     LET ids == {id \in DOMAIN edits : i \in MappedElement(slide, id)}
         patch == edits[CHOOSE id \in ids : TRUE]
     IN IF ids = {} THEN slide[i]
        ELSE [slide[i] EXCEPT !.text = IF patch.text = NoText THEN @ ELSE patch.text,
                              !.xfrm = IF patch.geometry = NoFrame THEN @ ELSE patch.geometry]]

(* The edited elements show their edits, every other element is as it was. *)
SlideAsMeant(slide, edits, saved) ==
  \A i \in DOMAIN slide :
    LET old == SlideModel(slide)[i]
        new == SlideModel(saved)[i]
        edited == old.id \in DOMAIN edits /\ i = ElementById(slide, old.id)
    IN /\ new.text = IF edited /\ edits[old.id].text # NoText THEN edits[old.id].text ELSE old.text
       /\ new.geometry = IF edited /\ edits[old.id].geometry # NoFrame THEN edits[old.id].geometry ELSE old.geometry
=============================================================================
