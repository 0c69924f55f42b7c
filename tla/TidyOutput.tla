----------------------------- MODULE TidyOutput -----------------------------
(***************************************************************************)
(* The conversion of what clang-tidy prints into a plist:                  *)
(* analyze/tidy_output_converter.py.                                       *)
(*                                                                         *)
(* The parser reads lines from an iterator and holds one of them.  A       *)
(* message is followed by a line of code, a line with an arrow, fixits     *)
(* and notes with code and arrows of their own; all but the message may be *)
(* missing.  The output may end after any line.                            *)
(***************************************************************************)
EXTENDS Naturals, SequencesExt

CONSTANTS
  MaxLines,  \* bound: lines of an output
  MaxFound   \* bound: messages found, when one is found again and again

\* "a[1]" is a note with brackets in it, which the pattern of messages
\* matches too; "a^b" is a message with a ^ in it.
Line == {"message", "a^b", "note", "a[1]", "caret", "text", "blank"}

VARIABLES
  out,    \* lines the parser has read, the last of them is the one it holds
  where,  \* the function that looks at it
  found   \* the messages: their line, and the lines of their fixits and notes

tidyVars == <<out, where, found>>

TidyInit ==
  /\ out = <<>>
  /\ where = "first"
  /\ found = <<>>

Held == Last(out)

IsMessage(l) == l \in {"message", "a^b", "a[1]"}
IsNote(l) == l \in {"note", "a[1]"}
HasCaret(l) == l \in {"caret", "a^b"}

\* titer.next(): the next line, or StopIteration.  The exception is caught in
\* _parse_message, which returns the line it held before; when that one is
\* not a message, the next call of titer.next() ends parse_messages.
Read(next, atEnd) ==
  \/ /\ Len(out) < MaxLines
     /\ \E l \in Line : out' = Append(out, l)
     /\ where' = next
  \/ where' = atEnd /\ UNCHANGED out

ReadFirst == where = "first" /\ Read("top", "ended") /\ UNCHANGED found

\* _parse_message for a line that is none.
SkipLine == where = "top" /\ ~IsMessage(Held) /\ Read("top", "ended") /\ UNCHANGED found

\* When the output ends with a message, the line that is returned is that of
\* the message, which is parsed again.
BeginMessage ==
  /\ where = "top"
  /\ IsMessage(Held)
  /\ found' = Append(found, [line |-> Len(out), fixits |-> {}, notes |-> {}])
  /\ Read("code", "again")

ParseAgain ==
  /\ where = "again"
  /\ Len(found) < MaxFound
  /\ found' = Append(found, Last(found))
  /\ UNCHANGED <<out, where>>

\* Mutant: the code line is not checked.
CodeLineUnchecked(code, arrow, after) ==
  where = code /\ Read(arrow, "ended") /\ UNCHANGED found

\* _parse_code, for a message and for a note: a line of code and an arrow.
CodeLine(code, arrow, after) ==
  /\ where = code
  /\ IF IsNote(Held) \/ IsMessage(Held)
     THEN where' = after /\ UNCHANGED out
     ELSE Read(arrow, "ended")
  /\ UNCHANGED found

ArrowLine(arrow, after) ==
  /\ where = arrow
  /\ IF HasCaret(Held) THEN Read(after, "ended") ELSE where' = after /\ UNCHANGED out
  /\ UNCHANGED found

\* Mutant: a part goes to the first message.
AddToFirst(part) == found' = [found EXCEPT ![1][part] = @ \cup {Len(out)}]
AddTo(part) == found' = [found EXCEPT ![Len(found)][part] = @ \cup {Len(out)}]

\* _parse_fixits: a blank line is looked at again and again.
Fixit ==
  /\ where = "fixits"
  /\ ~IsMessage(Held) /\ ~IsNote(Held)
  /\ IF Held = "blank" THEN where' = "stuck" /\ UNCHANGED <<out, found>>
     ELSE AddTo("fixits") /\ Read("fixits", "ended")

EndFixits ==
  /\ where = "fixits"
  /\ IsMessage(Held) \/ IsNote(Held)
  /\ where' = "notes"
  /\ UNCHANGED <<out, found>>

\* _parse_notes: a line that is no note ends the message and is lost.
Note ==
  /\ where = "notes"
  /\ ~IsMessage(Held)
  /\ IF IsNote(Held) THEN AddTo("notes") /\ Read("noteCode", "ended")
     ELSE Read("top", "ended") /\ UNCHANGED found

EndNotes ==
  /\ where = "notes"
  /\ IsMessage(Held)
  /\ where' = "top"
  /\ UNCHANGED <<out, found>>

TidyNext ==
  \/ ReadFirst \/ SkipLine \/ BeginMessage \/ ParseAgain
  \/ CodeLine("code", "arrow", "fixits") \/ ArrowLine("arrow", "fixits")
  \/ Fixit \/ EndFixits
  \/ Note \/ EndNotes
  \/ CodeLine("noteCode", "noteArrow", "notes") \/ ArrowLine("noteArrow", "notes")

---------------------------------------------------------------------------
(* The plist: messages are of one file, notes of another. *)

PathOf(i) == IF out[i] \in {"message", "a^b"} THEN "a.cpp" ELSE "a.h"

AddPath(files, path) == IF Contains(files, path) THEN files ELSE Append(files, path)

\* _add_files_from_messages
PlistFiles ==
  LET notes(m) == SetToSortSeq(m.notes, <)
      paths(m) == <<PathOf(m.line)>> \o [i \in DOMAIN notes(m) |-> PathOf(notes(m)[i])]
  IN FoldLeft(AddPath, <<>>, FlattenSeq([i \in DOMAIN found |-> paths(found[i])]))

IndexOf(path) == CHOOSE i \in DOMAIN PlistFiles : PlistFiles[i] = path

\* Mutant: the parts of the path are in the order of the output.
DiagPathUnordered(m) ==
  LET lines == SetToSortSeq(m.fixits \cup m.notes \cup {m.line}, <)
  IN [i \in DOMAIN lines |-> [file |-> IndexOf(PathOf(lines[i])), line |-> lines[i]]]

\* _create_diag: fixits, notes and last the message itself.
DiagPath(m) ==
  LET event(i) == [file |-> IndexOf(PathOf(i)), line |-> i]
      fixits == SetToSortSeq(m.fixits, <)
      notes == SetToSortSeq(m.notes, <)
  IN [i \in DOMAIN fixits |-> [file |-> IndexOf(PathOf(m.line)), line |-> fixits[i]]]
     \o [i \in DOMAIN notes |-> event(notes[i])] \o <<event(m.line)>>

Diagnostics == [i \in DOMAIN found |-> DiagPath(found[i])]

---------------------------------------------------------------------------
(* Properties *)

TidyTypeOK ==
  /\ out \in Seq(Line)
  /\ \A i \in DOMAIN found :
       /\ found[i].line \in DOMAIN out
       /\ found[i].fixits \cup found[i].notes \subseteq DOMAIN out

FoundLines == {found[i].line : i \in DOMAIN found}

\* When the output has been read, every message of it was found, in order and
\* once: but one with a ^ in it that follows a line which is neither message
\* nor note, and the last line of the output, which is found again without
\* end (OutputParser.parse_messages).
MessagesFoundOnce ==
  /\ \A i \in 1 .. Len(found) - 1 :
       \/ found[i].line < found[i + 1].line
       \/ where = "again" /\ found[i].line = Len(out)
  /\ where = "ended" =>
       \A i \in DOMAIN out :
         IsMessage(out[i]) /\ i \notin FoundLines
           => out[i] = "a^b" /\ ~IsMessage(out[i - 1]) /\ ~IsNote(out[i - 1])

\* A note or a fixit belongs to the message before it, with no other message
\* in between; notes of a message come after its fixits, and a note is lost
\* only after a line that is no note, code or arrow of a note
\* (OutputParser._parse_fixits and _parse_notes).
PartsBelong ==
  /\ \A i \in DOMAIN found :
       LET m == found[i]
       IN /\ \A p \in m.notes \cup m.fixits :
               m.line < p /\ ~\E l \in FoundLines : m.line < l /\ l < p
          /\ \A n \in m.notes, f \in m.fixits : f < n
          /\ \A n \in m.notes : out[n] = "note"
          /\ \A f \in m.fixits : out[f] \notin {"note", "message", "a[1]", "blank"}
  /\ where = "ended" =>
       \A n \in DOMAIN out :
         out[n] = "note" /\ (\E l \in FoundLines : l < n)
         /\ (\A i \in DOMAIN found : n \notin found[i].notes)
           => \E i \in DOMAIN found, p \in DOMAIN out :
                /\ found[i].line < p /\ p < n
                /\ \E q \in found[i].notes : q < p
                /\ out[p] \in {"text", "caret", "blank"}

\* The last event of a diagnostic, which everything that reads a plist takes
\* for the report, is the message in its own file (PListConverter).
ReportIsMessage ==
  where = "ended" =>
    \A i \in DOMAIN found :
      LET d == Diagnostics[i]
      IN /\ Last(d).line = found[i].line
         /\ PlistFiles[Last(d).file] = PathOf(found[i].line)
         /\ \A e \in ToSet(d) : e.line \in found[i].notes => PlistFiles[e.file] = PathOf(e.line)

\* What clang-tidy printed is what the plist says (tidy_output_converter.py).
OutputRead == TidyTypeOK /\ MessagesFoundOnce /\ PartsBelong /\ ReportIsMessage
=============================================================================
