-------------------------------- MODULE Ledger -------------------------------
(***************************************************************************)
(* The effect ledger (internal/tools/ledger.go): one JSONL file that the    *)
(* mock tools of every run and every worker append to, that Reconcile,      *)
(* open_pr and run_tests read, and that scripts/effects counts.             *)
(*                                                                         *)
(* A member of Callers is one Execute of a side-effecting tool.  The fence  *)
(* is not part of the model: two callers may have the same key.             *)
(***************************************************************************)
EXTENDS Naturals, Sequences, FiniteSets

CONSTANTS
    Callers,
    Run, Tool, Key    \* Run[c], Tool[c], Key[c]: what the Invocation of c says

ASSUME LedgerAssumption ==
    /\ Tool \in [Callers -> {"open_pr", "apply_fix"}]
    /\ DOMAIN Run = Callers /\ DOMAIN Key = Callers

VARIABLES
    exists,   \* the file has been created
    lines,    \* its lines, each the sequence of the texts written into it
    open,     \* the last line has no newline yet
    pc,       \* pc[c]: where Execute is in c
    answer    \* answer[c]: what Execute returned

file == <<exists, lines, open>>
vars == <<file, pc, answer>>

(* A text is the entry of a caller, complete or cut off.                     *)
Text == [by : Callers, whole : BOOLEAN]

(* The callers whose complete entry is somewhere in the file.                *)
Written == {c \in Callers : \E i \in DOMAIN lines : \E j \in DOMAIN lines[i] :
                lines[i][j] = [by |-> c, whole |-> TRUE]}

-----------------------------------------------------------------------------
(* parseLedger: json.Unmarshal takes a line that is one complete entry and   *)
(* nothing else.                                                             *)
Decoded == {i \in DOMAIN lines : Len(lines[i]) = 1 /\ lines[i][1].whole}

(* Mutant: a line that does not decode is skipped.                           *)
ReadableAlways == TRUE

(* The first line that is refused is an error for the caller.                *)
Readable == Decoded = DOMAIN lines

(* Entries: the decoded lines in append order.  The one at i is of EntryOf(i). *)
EntryOf(i) == lines[i][1].by

(* FindByKey, the answer Reconcile gives.                                    *)
FindByKey(k) ==
    IF ~Readable THEN "error"
    ELSE IF \E i \in Decoded : Key[EntryOf(i)] = k THEN "found"
    ELSE "absent"

(* run_tests of a run: it passes once an apply_fix of the run is recorded.   *)
RunTests(r) ==
    IF ~Readable THEN "error"
    ELSE IF \E i \in Decoded :
              Run[EntryOf(i)] = r /\ Tool[EntryOf(i)] = "apply_fix" THEN "passed"
    ELSE "failed"

(* scripts/effects: summarize over the entries of the runs asked for, and    *)
(* the exit code.                                                            *)
Counted(rs) == {i \in Decoded : Run[EntryOf(i)] \in rs}

Duplicates(rs) ==
    Cardinality(Counted(rs)) - Cardinality({Key[EntryOf(i)] : i \in Counted(rs)})

EffectsExit(rs) ==
    IF ~exists THEN 2
    ELSE IF ~Readable THEN 3
    ELSE IF Duplicates(rs) > 0 THEN 1 ELSE 0

-----------------------------------------------------------------------------
(* Write on the O_APPEND file: the text goes behind the last byte, so it     *)
(* joins a line that lost its newline.                                       *)

(* Mutant: the file is opened with O_TRUNC.                                  *)
WriteTruncates(c, whole, newline) ==
    /\ lines' = << <<[by |-> c, whole |-> whole]>> >>
    /\ exists' = TRUE
    /\ open' = ~newline

Write(c, whole, newline) ==
    LET text == [by |-> c, whole |-> whole] IN
    /\ lines' = IF open THEN [lines EXCEPT ![Len(lines)] = Append(@, text)]
                ELSE Append(lines, <<text>>)
    /\ exists' = TRUE
    /\ open' = ~newline

Returns(c, a) ==
    /\ pc' = [pc EXCEPT ![c] = "done"]
    /\ answer' = [answer EXCEPT ![c] = a]

(* Execute up to Record: open_pr counts the entries of its run first, and an *)
(* unreadable file stops it.                                                 *)
BeginExecute(c) ==
    /\ pc[c] = "idle"
    /\ \/ /\ Tool[c] = "open_pr" => Readable
          /\ pc' = [pc EXCEPT ![c] = "record"]
          /\ UNCHANGED answer
       \/ /\ Tool[c] = "open_pr" /\ ~Readable
          /\ Returns(c, "error")
    /\ UNCHANGED file

(* Bad arguments, a cancelled context or no directory: nothing is touched.   *)
ExecuteFails(c) ==
    /\ pc[c] \in {"idle", "record"}
    /\ Returns(c, "error")
    /\ UNCHANGED file

(* The file was opened, and so created, but Write wrote nothing.             *)
WriteFails(c) ==
    /\ pc[c] = "record"
    /\ Returns(c, "error")
    /\ exists' = TRUE
    /\ UNCHANGED <<lines, open>>

Record(c) ==
    /\ pc[c] = "record"
    /\ Write(c, TRUE, TRUE)
    /\ Returns(c, "success")

(* Mutant: a partial write is reported as "did not happen".                  *)
PartialWriteAsError(c) ==
    /\ pc[c] = "record"
    /\ \E whole \in BOOLEAN : Write(c, whole, FALSE)
    /\ Returns(c, "error")

(* 0 < n < len(line): all but the newline, or less.                          *)
PartialWrite(c) ==
    /\ pc[c] = "record"
    /\ \E whole \in BOOLEAN : Write(c, whole, FALSE)
    /\ Returns(c, "unknown")

(* The line is written, then Sync or Close fails.                            *)
SyncFails(c) ==
    /\ pc[c] = "record"
    /\ Write(c, TRUE, TRUE)
    /\ Returns(c, "unknown")

(* kill -9: write() has happened or it has not.                              *)
Killed(c) ==
    /\ pc[c] \in {"idle", "record"}
    /\ pc' = [pc EXCEPT ![c] = "killed"]
    /\ \/ UNCHANGED file
       \/ pc[c] = "record" /\ Write(c, TRUE, TRUE)
    /\ UNCHANGED answer

Init ==
    /\ exists = FALSE
    /\ lines = <<>>
    /\ open = FALSE
    /\ pc = [c \in Callers |-> "idle"]
    /\ answer = [c \in Callers |-> "none"]

Next ==
    \E c \in Callers :
        \/ BeginExecute(c) \/ ExecuteFails(c) \/ WriteFails(c) \/ Record(c)
        \/ PartialWrite(c) \/ SyncFails(c) \/ Killed(c)

Spec == Init /\ [][Next]_vars

-----------------------------------------------------------------------------
(* "Not found" is the one answer that lets the fence execute again: no torn  *)
(* line, and no line that an append made unreadable, turns an effect that    *)
(* happened into it, whoever wrote the line.                                 *)
AbsenceIsTrue ==
    \A k \in {Key[c] : c \in Callers} :
        /\ FindByKey(k) = "absent" => \A c \in Written : Key[c] # k
        /\ FindByKey(k) = "found" => \E c \in Written : Key[c] = k

(* The contract of Tool.Execute: an error other than ErrOutcomeUnknown means *)
(* that the effect did not happen, and a success stays in the file.          *)
ErrorMeansNoEffect ==
    \A c \in Callers :
        /\ answer[c] = "error" =>
             \A i \in DOMAIN lines : \A j \in DOMAIN lines[i] : lines[i][j].by # c
        /\ answer[c] = "success" => c \in Written

(* The evidence of scripts/effects: exit code 0 means that no key has two    *)
(* effects in the file, exit code 1 that one has.                            *)
EffectsExitIsHonest ==
    \A rs \in SUBSET {Run[c] : c \in Callers} :
        LET twice == \E c, d \in Written :
                         Run[c] \in rs /\ Run[d] \in rs /\ c # d /\ Key[c] = Key[d]
        IN  /\ EffectsExit(rs) = 0 => ~twice
            /\ EffectsExit(rs) = 1 => twice

(* A run whose tests have passed never sees them fail again, "a resumed      *)
(* process sees the same answer the crashed one would have": the answer may  *)
(* only be lost to an unreadable file.                                       *)
TestsStayFixed ==
    [][\A c \in Callers : RunTests(Run[c]) = "passed" =>
         RunTests(Run[c])' \in {"passed", "error"}]_vars

WrittenFor(k) == {c \in Written : Key[c] = k}

(* What Fence keeps of the file for one key, its entries and whether it can  *)
(* be read, moves as Fence says: an Execute under the key that has come to   *)
(* Record adds its entry, any Execute of any run may make the file           *)
(* unreadable, for good, and no entry is ever lost.                          *)
FenceView ==
    [][\A k \in {Key[c] : c \in Callers} :
         /\ ~Readable => ~Readable'
         /\ \/ WrittenFor(k)' = WrittenFor(k)
            \/ \E c \in Callers :
                 /\ Key[c] = k /\ pc[c] = "record"
                 /\ WrittenFor(k)' = WrittenFor(k) \cup {c}]_vars
=============================================================================
