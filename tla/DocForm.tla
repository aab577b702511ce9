------------------------------ MODULE DocForm ------------------------------
(***************************************************************************)
(* Document forms (docform/form.go): how submitted fields reach the        *)
(* components of a form and how their blocks are put back into a document. *)
(*                                                                         *)
(* A field name is the sequence of its dot-separated segments, a           *)
(* submission a function from field names to lists of values, a document a *)
(* function from targets to sequences of blocks.  The components           *)
(* themselves are the application's: here each manages the blocks of one   *)
(* type and has one repeated field.                                        *)
(***************************************************************************)
EXTENDS Selection, Integers, SequencesExt

CONSTANTS
  Form,       \* sequence of components: their name, target and block type
  BadValues   \* values the components' Validate refuses

\* Two components of a form do not manage the same blocks.
ASSUME FormAssumption ==
  /\ Form \in Seq([name : Seq(STRING), target : STRING, type : STRING])
  /\ \A i, j \in DOMAIN Form :
       i # j /\ Form[i].target = Form[j].target => Form[i].type # Form[j].type

Names == {Form[i].name : i \in DOMAIN Form}

-----------------------------------------------------------------------------
(* newsdoc and the components *)

Blocks == [type : STRING, val : Int]
Matches(c, b) == b.type = c.type
Managed(blocks, c) == {i \in DOMAIN blocks : Matches(c, blocks[i])}
AllBlocks(blocks, c) == Selected(blocks, Managed(blocks, c))
DropBlocks(blocks, c) == Selected(blocks, DOMAIN blocks \ Managed(blocks, c))

Field == <<"value">>
ValuesOf(blocks) == [i \in DOMAIN blocks |-> blocks[i].val]

\* Component.Validate: the fields in error.
Validate(values) == {k \in DOMAIN values : ToSet(values[k]) \cap BadValues # {}}

\* Component.Apply: one block for each value; a field that was not submitted
\* leaves the blocks as they were.
Apply(c, original, values) ==
  IF Field \notin DOMAIN values THEN original
  ELSE [i \in DOMAIN values[Field] |->
          [type |-> c.type, val |-> values[Field][i]]]

-----------------------------------------------------------------------------
(* Form *)

\* stripPrefix: the fields under prefix and a dot, without them.
StripPrefix(prefix, values) ==
  LET own == {k \in DOMAIN values : IsStrictPrefix(prefix, k)}
      Rest(k) == SubSeq(k, Len(prefix) + 1, Len(k))
  IN  [rest \in {Rest(k) : k \in own} |-> values[prefix \o rest]]

ParseValues(values) == [n \in Names |-> StripPrefix(n, values)]

\* ValidateAll: the names of the components with errors.
ValidateAll(values) ==
  {n \in Names : Validate(ParseValues(values)[n]) # {}}

\* Mutant of ReplaceBlocks: the position of the first match is off by one.
ReplaceBlocksAfter(blocks, c, replacement) ==
  LET old == Managed(blocks, c)
      filtered == DropBlocks(blocks, c)
      at == IF old \in {{}, {Len(blocks)}} THEN Len(filtered) ELSE Min(old)
  IN  SubSeq(filtered, 1, at) \o replacement
        \o SubSeq(filtered, at + 1, Len(filtered))

\* replaceBlocks: the matches go, and the replacement takes the place of the
\* first of them, or comes last if there was none.
ReplaceBlocks(blocks, c, replacement) ==
  LET old == Managed(blocks, c)
      filtered == DropBlocks(blocks, c)
      at == IF old = {} THEN Len(filtered) ELSE Min(old) - 1
  IN  SubSeq(filtered, 1, at) \o replacement
        \o SubSeq(filtered, at + 1, Len(filtered))

\* One component's turn: its blocks are replaced by what it makes of them.
ApplyOne(doc, c, parsed) ==
  [doc EXCEPT ![c.target] =
     ReplaceBlocks(@, c, Apply(c, AllBlocks(@, c), parsed[c.name]))]

\* Mutant of ApplyAll: every component starts from the submitted document.
ApplyAllStale(doc, values) ==
  LET parsed == ParseValues(values)
      After[i \in 0 .. Len(Form)] ==
        IF i = 0 THEN doc
        ELSE LET t == Form[i].target
             IN  [After[i - 1] EXCEPT ![t] = ApplyOne(doc, Form[i], parsed)[t]]
  IN  After[Len(Form)]

\* ApplyAll: each component in turn, on what the ones before it left.
ApplyAll(doc, values) ==
  LET parsed == ParseValues(values)
      After[i \in 0 .. Len(Form)] ==
        IF i = 0 THEN doc ELSE ApplyOne(After[i - 1], Form[i], parsed)
  IN  After[Len(Form)]

\* ExtractAll: what each component shows of the document, in order.
ExtractAll(doc) ==
  [i \in DOMAIN Form |-> ValuesOf(AllBlocks(doc[Form[i].target], Form[i]))]

=============================================================================
