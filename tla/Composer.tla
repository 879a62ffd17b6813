------------------------------- MODULE Composer -------------------------------
(***************************************************************************)
(* The line the user types into: its history, the draft put aside while    *)
(* the history is browsed, and the two overlays that take over the line:   *)
(* the command palette, open as long as the line begins with a slash, and  *)
(* the mode picker, which opens on an empty line.  Closing either leaves   *)
(* the line empty, whatever followed the slash or was pasted meanwhile.    *)
(***************************************************************************)
EXTENDS Naturals, Sequences, SequencesExt

CONSTANTS
    Letter, Slash, Command,  \* a word, "/", and "/mode"
    NoText,
    MaxText, MaxHistory      \* bounds: pieces of a line, lines of the history

VARIABLES
    text,      \* the pieces in the text area
    history,
    index,     \* history_index, 0 when none
    draft,     \* put aside by history_up
    overlay,   \* app.transient
    sending    \* a submission is in flight

composerVars == <<text, history, index, draft, overlay, sending>>

Init ==
    /\ text = <<>> /\ history = <<>> /\ index = 0 /\ draft = NoText
    /\ overlay = "none" /\ sending = FALSE

IsCommand(t) == t # <<>> /\ Head(t) # Letter

\* sync_slash_palette, after the text has changed: another overlay stays.
SyncPalette(t) ==
    overlay' = IF overlay = "modes" THEN overlay
               ELSE IF IsCommand(t) THEN "palette" ELSE "none"

-----------------------------------------------------------------------------
(* Keys and pastes.                                                        *)

\* The cursor is at one of the ends.
Inserted(piece) == IF Len(text) = MaxText THEN {}
                   ELSE {<<piece>> \o text, Append(text, piece)}

\* handle_input; the mode picker takes the keys for its own search.
TypeKey ==
    /\ overlay # "modes"
    /\ text' \in Inserted(Letter) \union Inserted(Slash)
    /\ SyncPalette(text')
    /\ index' = 0
    /\ UNCHANGED <<history, draft, sending>>

Backspace ==
    /\ overlay # "modes" /\ text # <<>>
    /\ text' = Front(text)
    /\ SyncPalette(text')
    /\ index' = 0
    /\ UNCHANGED <<history, draft, sending>>

\* insert_paste leaves the history where it is, and has no overlay to ask.
Paste ==
    /\ text' \in Inserted(Letter)
    /\ SyncPalette(text')
    /\ UNCHANGED <<history, index, draft, sending>>

(* Mutant of PutAside: every key up puts aside what the line holds.        *)
AlwaysPutAside == text

PutAside == IF index = 0 THEN text ELSE draft

HistoryUp ==
    /\ overlay = "none" /\ history # <<>>
    /\ LET i == IF index = 0 THEN Len(history) ELSE IF index = 1 THEN 1 ELSE index - 1
       IN  index' = i /\ text' = history[i]
    /\ draft' = PutAside
    /\ UNCHANGED <<history, overlay, sending>>

HistoryDown ==
    /\ overlay = "none" /\ index # 0
    /\ IF index < Len(history)
       THEN index' = index + 1 /\ text' = history[index + 1] /\ UNCHANGED draft
       ELSE /\ index' = 0 /\ draft' = NoText
            /\ text' = (IF draft = NoText THEN <<>> ELSE draft)
    /\ UNCHANGED <<history, overlay, sending>>

-----------------------------------------------------------------------------
(* Enter, Tab and Esc.                                                     *)

Remembered ==
    IF text = <<>> \/ (history # <<>> /\ Last(history) = text) THEN history
    ELSE Append(history, text)

\* While a submission is in flight another is refused and the line is kept;
\* so it is when it is no command.  A message starts a submission, unless no
\* model is active.
Submit ==
    /\ overlay = "none" /\ ~sending
    /\ IsCommand(text) => text = <<Command>>
    /\ Len(Remembered) <= MaxHistory
    /\ history' = Remembered
    /\ text' = <<>> /\ index' = 0 /\ draft' = NoText
    /\ IF IsCommand(text)
       THEN overlay' = "modes" /\ UNCHANGED sending
       ELSE sending' \in {FALSE, text # <<>>} /\ UNCHANGED overlay

\* A palette that shows a match runs it, or writes it out.
Complete ==
    /\ overlay = "palette"
    /\ index' = 0
    /\ \/ text' = <<>> /\ overlay' \in {"modes", "none"}
       \/ text' = <<Command>> /\ overlay' = "none"
    /\ UNCHANGED <<history, draft, sending>>

ConfirmMode ==
    /\ overlay = "modes" /\ overlay' = "none"
    /\ UNCHANGED <<text, history, index, draft, sending>>

\* close_transient
CloseOverlay ==
    /\ overlay' = "none"
    /\ IF overlay = "none" THEN UNCHANGED <<text, index>>
                           ELSE text' = <<>> /\ index' = 0

Escape == overlay # "none" /\ CloseOverlay /\ UNCHANGED <<history, draft, sending>>

\* The reply to an answer closes the overlay that is open when it arrives.
SubmissionEnds ==
    /\ sending /\ sending' = FALSE
    /\ \/ UNCHANGED <<text, index, overlay>>
       \/ CloseOverlay
    /\ UNCHANGED <<history, draft>>

Next ==
    \/ TypeKey \/ Backspace \/ Paste \/ HistoryUp \/ HistoryDown
    \/ Submit \/ Complete \/ ConfirmMode \/ Escape \/ SubmissionEnds

-----------------------------------------------------------------------------
\* A line of the history was pasted into; a key would have left the history.
PastedInto == index # 0 /\ text # history[index]

(* With no overlay open, what was on the line and is replaced is in the    *)
(* history or put aside, unless it was edited away or is a line of the     *)
(* history that was pasted into.  What was put aside stays so while the    *)
(* history is browsed, until it comes back or the user sends a line.       *)
(* Nothing is said of a line an overlay closes over.                       *)
TextIsKept ==
    [][/\ text' # text /\ overlay = "none" =>
              \/ TypeKey \/ Backspace \/ Paste \/ PastedInto
              \/ text \in ToSet(history') \cup {<<>>, draft'}
       /\ index # 0 /\ draft' # draft => text' = draft \/ Submit]_composerVars

=============================================================================
