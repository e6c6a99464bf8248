-------------------------------- MODULE Oracle --------------------------------
(***************************************************************************)
(* The oracle expressions of contracts and scenarios                       *)
(* (src/design/oracle.rs): how the arguments of name(args) are read, and   *)
(* how a predicate is decided from one analysed frame, or from what a      *)
(* driving check has observed.                                             *)
(*                                                                         *)
(* A text is a sequence of characters; the ones that differ for the reader *)
(* are the quote, the comma, the backslash, the blank, the digits, and any *)
(* other.  An expression under evaluation is [name, args].                 *)
(***************************************************************************)
EXTENDS Naturals, Sequences, SequencesExt

Digits == {"0", "7"}
Chars == Digits \cup {"quote", "comma", "slash", "blank", "x"}

-----------------------------------------------------------------------------
(* parse_args.                                                             *)

Trim(s) ==
  LET solid == {n \in DOMAIN s : s[n] # "blank"} IN
  IF solid = {} THEN <<>>
  ELSE LET low == CHOOSE n \in solid : \A k \in solid : n <= k
           high == CHOOSE n \in solid : \A k \in solid : k <= n IN
       SubSeq(s, low, high)

IsNumber(s) == s # <<>> /\ \A n \in DOMAIN s : s[n] \in Digits

\* parse_one_arg: a number whatever the quotes said; a quote that is left is
\* refused.
ParseOneArg(s) ==
  IF s = <<>> \/ (~IsNumber(s) /\ \E n \in DOMAIN s : s[n] = "quote") THEN [kind |-> "bad", text |-> s]
  ELSE [kind |-> IF IsNumber(s) THEN "num" ELSE "ident", text |-> s]

\* as_str: a number is written anew.
AsStr(arg) ==
  LET rest == {n \in DOMAIN arg.text : arg.text[n] # "0"}
      from == IF rest = {} THEN Len(arg.text) ELSE CHOOSE n \in rest : \A k \in rest : n <= k IN
  IF arg.kind = "num" THEN SubSeq(arg.text, from, Len(arg.text)) ELSE arg.text

Take(w, c) == [w EXCEPT !.cur = Append(@, c)]
Cut(w) == [w EXCEPT !.args = Append(@, ParseOneArg(Trim(w.cur))), !.cur = <<>>]

\* Mutant: a comma ends an argument inside a string, too.
ParseCharCuts(w, c) ==
  CASE w.escaped -> [(IF c \in {"quote", "slash"} THEN Take(w, c) ELSE Take(Take(w, "slash"), c))
                     EXCEPT !.escaped = FALSE]
    [] ~w.escaped /\ c = "quote" -> [w EXCEPT !.inside = ~@]
    [] ~w.escaped /\ c = "comma" -> Cut(w)
    [] ~w.escaped /\ c = "slash" /\ w.inside -> [w EXCEPT !.escaped = TRUE]
    [] OTHER -> Take(w, c)

\* One character of parse_args: quotes are dropped, a comma outside of them
\* ends an argument, a backslash inside of them takes the next character.
ParseChar(w, c) ==
  CASE w.escaped -> [(IF c \in {"quote", "slash"} THEN Take(w, c) ELSE Take(Take(w, "slash"), c))
                     EXCEPT !.escaped = FALSE]
    [] ~w.escaped /\ c = "quote" -> [w EXCEPT !.inside = ~@]
    [] ~w.escaped /\ c = "comma" /\ ~w.inside -> Cut(w)
    [] ~w.escaped /\ c = "slash" /\ w.inside -> [w EXCEPT !.escaped = TRUE]
    [] OTHER -> Take(w, c)

\* The arguments, or that they are malformed; a last argument of blanks only
\* is none.
ParseArgs(text) ==
  LET start == [args |-> <<>>, cur |-> <<>>, inside |-> FALSE, escaped |-> FALSE]
      read == FoldLeft(LAMBDA w, c : ParseChar(w, c), start, text)
      done == IF Trim(read.cur) = <<>> THEN read ELSE Cut(read) IN
  [ok |-> ~read.inside /\ ~read.escaped /\ \A n \in DOMAIN done.args : done.args[n].kind # "bad",
   args |-> done.args]

-----------------------------------------------------------------------------
(* Evaluation.                                                             *)

Outcome(holds) == IF holds THEN "pass" ELSE "fail"
HasText(hay, needle) ==
  \E n \in 0 .. Len(hay) - Len(needle) : SubSeq(hay, n + 1, n + Len(needle)) = needle

Statics ==
  {"focused", "visible", "control_exists", "text_present", "text_absent", "modal_open",
   "no_clipping", "region_present", "component_present", "enabled", "focus_visible",
   "viewport_at_least"}
Actives ==
  {"escape_closes_modal", "reverse_tab_is_inverse", "key_opens_modal", "tab_traps_focus",
   "resize_no_clipping"}
KnownPredicates == Statics \cup Actives

\* The Boolean at a place of the arguments, TRUE when there is none.
Flag(o, n) == IF n \in DOMAIN o.args THEN o.args[n] # "false" ELSE TRUE

Focused(want, f) == (IF f.focusId # <<>> THEN f.focusId ELSE f.focusLabel) = want
Visible(want, f) == \E c \in f.controls : c.id = want \/ HasText(c.label, want)
Enabled(want, expected, f) == \E c \in f.controls : want \in {c.id, c.label} /\ c.enabled = expected
NoClipping(f) ==
  \A r \in f.regions : ~r.clipped /\ r.x + r.width <= f.cols /\ r.y + r.height <= f.rows
RegionPresent(want, f) == \E r \in f.regions : want \in {r.id, r.title, r.kind}

Needs(name) ==
  CASE name \in {"modal_open", "no_clipping", "focus_visible"} -> 0
    [] name = "viewport_at_least" -> 2
    [] OTHER -> 1

\* An active predicate: what was observed must be what is expected, and what
\* was not observed fails.
EvalActive(o, answers) ==
  LET expects == Flag(o, IF o.name = "key_opens_modal" THEN 2 ELSE 1)
                 /\ (o.name = "tab_traps_focus" => o.args # <<>>)
      heard == IF o.name \in DOMAIN answers THEN answers[o.name] ELSE "unknown" IN
  Outcome(heard = (IF expects THEN "yes" ELSE "no"))

\* eval_static: an active predicate is evaluated with no answers.
EvalStatic(o, f) ==
  CASE o.name \notin KnownPredicates -> "invalid"
    [] o.name \in Actives -> EvalActive(o, <<>>)
    [] o.name \in Statics /\ Len(o.args) < Needs(o.name) -> "invalid"
    [] o.name = "modal_open" -> Outcome(f.modal = Flag(o, 1))
    [] o.name = "no_clipping" -> Outcome(NoClipping(f))
    [] o.name = "focus_visible" -> Outcome((f.focusLabel # <<>> \/ f.reverse) = Flag(o, 1))
    [] OTHER ->
         CASE o.name = "focused" -> Outcome(Focused(o.args[1], f))
           [] o.name \in {"visible", "control_exists"} -> Outcome(Visible(o.args[1], f))
           [] o.name = "text_present" -> Outcome(HasText(f.text, o.args[1]))
           [] o.name = "text_absent" -> Outcome(~HasText(f.text, o.args[1]))
           [] o.name = "region_present" -> Outcome(RegionPresent(o.args[1], f))
           [] o.name = "component_present" -> Outcome(o.args[1] \in f.components)
           [] o.name = "enabled" -> Outcome(Enabled(o.args[1], Flag(o, 2), f))
           [] o.name = "viewport_at_least" -> Outcome(f.cols >= o.args[1] /\ f.rows >= o.args[2])
=============================================================================
