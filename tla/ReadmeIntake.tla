---------------------------- MODULE ReadmeIntake ----------------------------
(***************************************************************************)
(* agentpick_data/src/hf_vectorizer: how a README becomes chunks.          *)
(* utils.retry around the download, ReadmeParser.parse_readme and          *)
(* ReadmeParser.chunk_text_tokens.                                         *)
(*                                                                         *)
(* A line of a README is its kind: a "rule" is a line that is --- alone, a *)
(* "header" starts with "## " and has a title, a "bare" header has none.   *)
(* A section names its header line (0 for Full Content) and the lines with *)
(* text in it.  A window is the first and last token of a chunk.           *)
(***************************************************************************)
EXTENDS Integers, Sequences, FiniteSets, SequencesExt

LineKinds == {"rule", "header", "bare", "text", "blank"}

-----------------------------------------------------------------------------
(* retry(fn): outcomes[i] says whether the i-th call of fn would succeed. *)

RetryGivesNone(outcomes, retries) ==
  LET good == {i \in 1..retries : outcomes[i]}
      n == IF good = {} THEN retries ELSE CHOOSE i \in good : \A j \in good : i <= j
  IN  [calls |-> n, ends |-> IF good = {} THEN "none" ELSE "value",
       waits |-> [i \in 1..(IF good = {} THEN n ELSE n - 1) |-> 2 ^ (i - 1)]]

(* The first success returns, the last failure is raised, and after every  *)
(* other failure retry sleeps, twice as long each time.  With no retries   *)
(* the loop body never runs and retry returns None.                        *)
Retry(outcomes, retries) ==
  LET good == {i \in 1..retries : outcomes[i]}
      n == IF good = {} THEN retries ELSE CHOOSE i \in good : \A j \in good : i <= j
  IN  [calls |-> n,
       ends |-> IF good # {} THEN "value" ELSE IF retries = 0 THEN "none" ELSE "raise",
       waits |-> [i \in 1..(IF n = 0 THEN 0 ELSE n - 1) |-> 2 ^ (i - 1)]]

-----------------------------------------------------------------------------
(* parse_readme *)

(* Append the section in hand if it has a title and text. *)
SaveSection(lines, p) ==
  IF p.section # 0 /\ lines[p.section] = "header" /\ p.content # <<>>
    THEN [p EXCEPT !.sections = Append(@, [header |-> p.section, lines |-> p.content])]
    ELSE p

StartSection(p, i) == [p EXCEPT !.section = i, !.content = <<>>]

(* One line of the loop; a rule toggles in_frontmatter wherever it stands. *)
ParseLine(lines, p, i) ==
  CASE lines[i] = "rule" -> [p EXCEPT !.hidden = ~@]
    [] lines[i] # "rule" /\ p.hidden -> p
    [] lines[i] \in {"header", "bare"} /\ ~p.hidden -> StartSection(SaveSection(lines, p), i)
    [] lines[i] = "text" /\ ~p.hidden /\ p.section # 0 -> [p EXCEPT !.content = Append(@, i)]
    [] OTHER -> p

Parsed(lines) ==
  FoldLeft(LAMBDA p, i : ParseLine(lines, p, i),
           [sections |-> <<>>, section |-> 0, content |-> <<>>, hidden |-> FALSE],
           [i \in 1..Len(lines) |-> i])

(* The lines with text of the whole file, frontmatter included. *)
WholeFile(lines) ==
  FoldLeft(LAMBDA text, i : IF lines[i] = "blank" THEN text ELSE Append(text, i),
           <<>>, [i \in 1..Len(lines) |-> i])

ParseReadmeWithoutLast(lines) == Parsed(lines).sections

(* With no section the whole file is one. *)
ParseReadme(lines) ==
  LET sections == SaveSection(lines, Parsed(lines)).sections
      whole == WholeFile(lines)
  IN  IF sections = <<>> /\ whole # <<>>
        THEN <<[header |-> 0, lines |-> whole]>> ELSE sections

-----------------------------------------------------------------------------
(* chunk_text_tokens over n tokens.  A window that decodes to blank text is *)
(* dropped (parsing.py:120); tokens carry text, so none is taken to be.     *)

WindowsPastEnd(n, size, overlap) ==
  LET from[start \in 0..(n + size)] ==
        IF start >= n THEN <<>>
        ELSE <<<<start + 1, IF start + size < n THEN start + size ELSE n>>>>
             \o from[start + size - overlap]
  IN  from[0]

Windows(n, size, overlap) ==
  LET from[start \in 0..n] ==
        IF start >= n THEN <<>>
        ELSE IF start + size >= n THEN <<<<start + 1, n>>>>
        ELSE <<<<start + 1, start + size>>>> \o from[start + size - overlap]
  IN  from[0]
=============================================================================
