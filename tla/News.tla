-------------------------------- MODULE News --------------------------------
(***************************************************************************)
(* What the news agent makes of a text it got from a language model, and   *)
(* what it may take over from an earlier card of the same match.           *)
(*                                                                         *)
(* A correction of the goals expected is in thousandths of a goal.  The    *)
(* values json.loads can deliver for it and that no integer stands for are *)
(* constants: NaN (also written Infinity), Junk for whatever float()       *)
(* refuses, and Huge for an integer that no float can hold.                *)
(***************************************************************************)
EXTENDS Integers

CONSTANTS Clamp,     \* NEWS_DELTA_CLAMP
          NaN, Junk, Huge,  \* odd values of a correction
          NonDict    \* a text that parses as JSON, but to no object

Confidences == {"low", "medium", "high"}

ASSUME NewsAssumption ==
  /\ Clamp \in Nat /\ NaN \notin Int /\ Junk \notin Int
  /\ NonDict \notin [home : Int, away : Int, conf : Confidences]
  /\ NonDict \notin [home : Int, away : Int, conf : Confidences,
                     from : {"nobody", "llm", "prior"}]

\* float() of such an integer raises what the clamp does not catch (news_agent.py:536-539).
Overflows(data) == data # NonDict /\ Huge \in {data.home, data.away}

Neutral == [home |-> 0, away |-> 0, conf |-> "low"]

(***************************************************************************)
(* _parse_json_lenient: fences and leading plus signs are stripped, then   *)
(* the whole text is read, then its largest {...}.  Only a text that still *)
(* gives nothing makes the validator send the router on to the next        *)
(* provider.                                                               *)
(***************************************************************************)
ParseTier(text) == CASE text.form \in {"json", "fenced"} -> "strict"
                     [] text.form = "prose" -> "regex_repair"
                     [] text.form = "empty" -> "empty"
                     [] text.form = "garbage" -> "failed"

Parsed(text) == ParseTier(text) \in {"strict", "regex_repair"}

\* A text that gives corrections.
Corrects(text) == Parsed(text) /\ ~Overflows(text.data)

\* Slip: only the upper bound is applied.
ClampedAbove(x) == CASE x = Junk -> 0
                     [] x = NaN -> Clamp
                     [] x \in Int /\ x > Clamp -> Clamp
                     [] x \in Int /\ x <= Clamp -> x

\* Python's min(D, nan) is D, so a NaN becomes the largest correction there is.
Clamped(x) == CASE x = Junk -> 0
                [] x = NaN -> Clamp
                [] x \in Int /\ x > Clamp -> Clamp
                [] x \in Int /\ x < -Clamp -> -Clamp
                [] x \in -Clamp..Clamp -> x

ValidateAndClamp(data) ==
  IF data = NonDict THEN Neutral
  ELSE [home |-> Clamped(data.home), away |-> Clamped(data.away),
        conf |-> IF data.conf \in Confidences THEN data.conf ELSE "low"]

\* NEWS_CONFIDENCE_SCALE, in percent; applied in build_card.
ConfidenceScale == [low |-> 30, medium |-> 70, high |-> 100]

Discounted(x, conf) ==
  IF x >= 0 THEN (x * ConfidenceScale[conf]) \div 100
  ELSE -((-x * ConfidenceScale[conf]) \div 100)

Discount(n) == [home |-> Discounted(n.home, n.conf), away |-> Discounted(n.away, n.conf),
                conf |-> n.conf]

\* read_prior_deltas: recent and confident enough to be used again.
Reusable(row, t, maxAge) ==
  t - row.at <= maxAge /\ row.news.conf \in {"medium", "high"}
=============================================================================
