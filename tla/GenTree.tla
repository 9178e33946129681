------------------------------ MODULE GenTree ------------------------------
(****************************************************************************)
(* The node tree of a generator specification, and the JSON pointers that    *)
(* address it.  A pointer is the sequence of its tokens; a node is its kind, *)
(* one number standing for its parameters, and its children; where a kind    *)
(* holds a tagged object, "is" is the variant and the number is one of it.   *)
(* The duration of a part belongs to the slot of the concatenation, not to   *)
(* the node in it; here it is the node's "dur", which replacing the node     *)
(* leaves alone.                                                             *)
(****************************************************************************)
EXTENDS Integers, Sequences, SequencesExt

Combinators == {"Sum", "Product", "Concat"}          \* NodeKind::has_variable_arity
OneInput == {"Gain", "Delay", "Clip", "Envelope", "Awgn", "Resample"}
Digits == <<"0", "1", "2", "3">>
ROOT == <<"root">>

Node(kind, val, kids) == [kind |-> kind, val |-> val, is |-> "plain", dur |-> 0, kids |-> kids]
DefaultNode == Node("Sine", 1, <<>>)
AsPart(n, d) == [n EXCEPT !.dur = d]

\* The kinds that hold a tagged object: where, and a number of each variant of it.
Tagged == [Envelope |-> [at |-> "env",
                         variants |-> [adsr |-> "attack_s", gaussian |-> "center_s", tukey |-> "alpha"]],
           Modulate |-> [at |-> "kind",
                         variants |-> [am |-> "depth", fm |-> "dev_hz", pm |-> "dev_rad"]]]

\* The object replaced whole by a variant's default.
AsVariant(n, variant) == [n EXCEPT !.is = variant, !.val = 1]

KindDefault(kind) ==
  CASE kind \in {"Sum", "Product"} -> Node(kind, 0, <<DefaultNode>>)
    [] kind = "Concat"             -> Node(kind, 0, <<AsPart(DefaultNode, 1)>>)
    [] kind = "Envelope"           -> AsVariant(Node(kind, 1, <<DefaultNode>>), "tukey")
    [] kind \in OneInput           -> Node(kind, 1, <<DefaultNode>>)
    [] kind = "Modulate"           -> AsVariant(Node(kind, 1, <<DefaultNode, DefaultNode>>), "am")
    [] OTHER                       -> Node(kind, 1, <<>>)

\* The field a node's number is serialised under; a combinator has none.
FieldsOf(n) ==
  CASE n.kind = "Sine" -> {<<"freq_hz">>}
    [] n.kind = "Dc"   -> {<<"level">>}
    [] n.kind = "Gain" -> {<<"factor">>}
    [] n.kind \in DOMAIN Tagged -> {<<Tagged[n.kind].at, Tagged[n.kind].variants[n.is]>>}
    [] OTHER           -> {}

-----------------------------------------------------------------------------
ChildPointer(parent, field, index) ==
  CASE index = 0       -> Append(parent, field)
    [] field = "parts" -> parent \o <<field, Digits[index], "node">>
    [] OTHER           -> parent \o <<field, Digits[index]>>

Trimmed(p) == IF p # <<>> /\ Last(p) = "node" THEN Front(p) ELSE p

\* The pointer of the node above, as a set that is empty for the root.
ParentPointer(p) ==
  LET head == Front(Trimmed(p))
      above == IF head # <<>> /\ Last(head) \in {"terms", "parts"} THEN Front(head) ELSE head
  IN  IF Trimmed(p) = <<>> \/ above = <<>> THEN {} ELSE {above}

\* Which entry of which combinator a pointer is, if it is one at all.
SlotInParent(p) ==
  LET t == Trimmed(p)
  IN  IF Len(t) < 2 \/ t[Len(t) - 1] \notin {"terms", "parts"} THEN {}
      ELSE {[parent |-> SubSeq(t, 1, Len(t) - 2), index |-> i] :
              i \in {j \in DOMAIN Digits : Digits[j] = Last(t)}}

\* The tokens each child of a node hangs from.
Slots(n) ==
  CASE n.kind \in {"Sum", "Product"} -> [i \in DOMAIN n.kids |-> <<"terms", Digits[i]>>]
    [] n.kind = "Concat"   -> [i \in DOMAIN n.kids |-> <<"parts", Digits[i], "node">>]
    [] n.kind \in OneInput -> <<<<"input">>>>
    [] n.kind = "Modulate" -> <<<<"carrier">>, <<"modulator">>>>
    [] OTHER               -> <<>>

Beyond(slot, tokens) == SubSeq(tokens, Len(slot) + 1, Len(tokens))

RECURSIVE Descend(_, _)
Descend(n, tokens) ==
  IF tokens = <<>> THEN {n}
  ELSE UNION {Descend(n.kids[i], Beyond(Slots(n)[i], tokens)) :
                i \in {j \in DOMAIN n.kids : IsPrefix(Slots(n)[j], tokens)}}

NodeAt(root, p) == IF p = <<>> \/ p[1] # "root" THEN {} ELSE Descend(root, Tail(p))

RECURSIVE Put(_, _, _)
Put(n, tokens, new) ==
  IF tokens = <<>> THEN new
  ELSE [n EXCEPT !.kids = [i \in DOMAIN @ |->
          IF IsPrefix(Slots(n)[i], tokens)
          THEN Put(@[i], Beyond(Slots(n)[i], tokens), new) ELSE @[i]]]

Write(root, p, new) == Put(root, Tail(p), new)

-----------------------------------------------------------------------------
\* The editor's operations.  Each gives the tree it leaves and the pointer it
\* returns, in a set that is empty when the code returns None.
Replace(root, p, new) == {Write(root, p, [new EXCEPT !.dur = n.dur]) : n \in NodeAt(root, p)}

AddChild(root, p) ==
  {LET child == IF n.kind = "Concat" THEN AsPart(DefaultNode, 1) ELSE DefaultNode
       field == IF n.kind = "Concat" THEN "parts" ELSE "terms"
   IN  [root |-> Write(root, p, [n EXCEPT !.kids = Append(@, child)]),
        at |-> ChildPointer(p, field, Len(n.kids) + 1)] :
     n \in {m \in NodeAt(root, p) : m.kind \in Combinators}}

RemoveChild(root, p) ==
  UNION {{[root |-> Write(root, s.parent, [n EXCEPT !.kids = RemoveAt(@, s.index)]),
           at |-> s.parent] :
            n \in {m \in NodeAt(root, s.parent) :
                     m.kind \in Combinators /\ s.index \in DOMAIN m.kids /\ Len(m.kids) > 1}} :
         s \in SlotInParent(p)}

Swapped(kids, i, j) == [kids EXCEPT ![i] = kids[j], ![j] = kids[i]]

MoveChild(root, p, delta) ==
  UNION {{[root |-> Write(root, s.parent, [n EXCEPT !.kids = Swapped(@, s.index, s.index + delta)]),
           at |-> ChildPointer(s.parent, IF n.kind = "Concat" THEN "parts" ELSE "terms",
                               s.index + delta)] :
            n \in {m \in NodeAt(root, s.parent) :
                     /\ m.kind \in Combinators
                     /\ s.index \in DOMAIN m.kids /\ s.index + delta \in DOMAIN m.kids}} :
         s \in SlotInParent(p)}

RECURSIVE Pointers(_, _)
\* outline: the pointer of every node.
Pointers(n, p) == {p} \cup UNION {Pointers(n.kids[i], p \o Slots(n)[i]) : i \in DOMAIN n.kids}

Outline(root) == Pointers(root, ROOT)

\* parameters: every number of the tree a sweep or a text box can address.
NodeParameters(root, p) ==
  UNION {{p \o f : f \in FieldsOf(n)} \cup
         (IF n.kind # "Concat" THEN {}
          ELSE {p \o <<"parts", Digits[i], "duration_s">> : i \in DOMAIN n.kids}) :
           n \in NodeAt(root, p)}

Parameters(root) == UNION {NodeParameters(root, p) : p \in Outline(root)}

\* get_json and set_json at one of them.
Owner(root, param) == CHOOSE p \in Outline(root) : param \in NodeParameters(root, p)
PartOf(root, param) ==
  LET tokens == Beyond(Owner(root, param), param)
  IN  {i \in DOMAIN Digits : tokens[1] = "parts" /\ Digits[i] = tokens[2]}

GetJson(root, param) ==
  LET n == CHOOSE m \in NodeAt(root, Owner(root, param)) : TRUE
  IN  IF PartOf(root, param) = {} THEN n.val
      ELSE n.kids[CHOOSE i \in PartOf(root, param) : TRUE].dur

SetJson(root, param, v) ==
  LET p == Owner(root, param)
      n == CHOOSE m \in NodeAt(root, p) : TRUE
  IN  Write(root, p,
        IF PartOf(root, param) = {} THEN [n EXCEPT !.val = v]
        ELSE [n EXCEPT !.kids[CHOOSE i \in PartOf(root, param) : TRUE].dur = v])
=============================================================================
