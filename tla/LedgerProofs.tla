---------------------------- MODULE LedgerProofs -----------------------------
(***************************************************************************)
(* What readers of the effect ledger may conclude from it, for any number   *)
(* of tool calls of any number of runs that share the file.                 *)
(***************************************************************************)
EXTENDS Ledger, FiniteSetTheorems, TLAPS

TypeOK ==
    /\ exists \in BOOLEAN
    /\ lines \in Seq(Seq(Text))
    /\ \A i \in DOMAIN lines : Len(lines[i]) # 0
    /\ open \in BOOLEAN
    /\ open => Len(lines) # 0
    /\ pc \in [Callers -> {"idle", "record", "done", "killed"}]
    /\ answer \in [Callers -> {"none", "success", "error", "unknown"}]

(* A text of c is the j-th of line i.                                        *)
Cell(i, j) == i \in DOMAIN lines /\ j \in DOMAIN lines[i]
Names(c, i, j) == Cell(i, j) /\ lines[i][j].by = c

(* An Execute writes at most once, and only on its way to the end.           *)
LedgerInv ==
    /\ TypeOK
    /\ \A c \in Callers : \A i, j : Names(c, i, j) => pc[c] \in {"done", "killed"}
    /\ \A c \in Callers : \A i, j, k, l : Names(c, i, j) /\ Names(c, k, l) => i = k /\ j = l
    /\ \A c \in Callers : answer[c] # "none" => pc[c] = "done"
    /\ ErrorMeansNoEffect

-----------------------------------------------------------------------------
(* Write adds one cell, at (n, m), and leaves the others as they are.        *)
Adds(n, m, text) ==
    /\ lines' \in Seq(Seq(Text)) /\ Len(lines') # 0
    /\ \A i \in DOMAIN lines' : Len(lines'[i]) # 0
    /\ ~Cell(n, m)
    /\ \A i, j : Cell(i, j)' <=> Cell(i, j) \/ (i = n /\ j = m)
    /\ \A i, j : Cell(i, j) => lines'[i][j] = lines[i][j]
    /\ lines'[n][m] = text
    /\ n \in DOMAIN lines => Len(lines'[n]) = Len(lines[n]) + 1
    /\ \A i \in DOMAIN lines : i # n => lines'[i] = lines[i]
    /\ DOMAIN lines \subseteq DOMAIN lines'

LEMMA WriteAdds ==
    ASSUME TypeOK, NEW c \in Callers, NEW whole \in BOOLEAN, NEW newline \in BOOLEAN,
           Write(c, whole, newline)
    PROVE  \E n, m : Adds(n, m, [by |-> c, whole |-> whole])
  <1> DEFINE text == [by |-> c, whole |-> whole]
  <1>1. text \in Text
    BY DEF Text
  <1>2. lines \in Seq(Seq(Text)) /\ DOMAIN lines = 1..Len(lines) /\ Len(lines) \in Nat
    BY DEF TypeOK
  <1>3. \A i \in DOMAIN lines : /\ lines[i] \in Seq(Text) /\ Len(lines[i]) \in Nat
                                /\ DOMAIN lines[i] = 1..Len(lines[i])
    BY <1>2
  <1>. HIDE DEF text
  <1>4. CASE ~open
    <2>1. lines' = Append(lines, <<text>>)
      BY <1>4 DEF Write, text
    <2>2. <<text>> \in Seq(Text) /\ Len(<<text>>) = 1 /\ <<text>>[1] = text
          /\ DOMAIN <<text>> = {1}
      BY <1>1
    <2>3. /\ lines' \in Seq(Seq(Text)) /\ Len(lines') = Len(lines) + 1
          /\ DOMAIN lines' = 1..(Len(lines) + 1)
          /\ \A i \in DOMAIN lines : lines'[i] = lines[i]
          /\ lines'[Len(lines) + 1] = <<text>>
      BY <1>2, <2>1, <2>2
    <2>4. Adds(Len(lines) + 1, 1, text)
      <3>1. ~Cell(Len(lines) + 1, 1)
        BY <1>2 DEF Cell
      <3>2. \A i, j : Cell(i, j) => lines'[i][j] = lines[i][j]
        BY <2>3 DEF Cell
      <3>3. \A i, j : Cell(i, j)' <=> Cell(i, j) \/ (i = Len(lines) + 1 /\ j = 1)
        <4>1. DOMAIN lines' = DOMAIN lines \cup {Len(lines) + 1}
          BY <1>2, <2>3
        <4>. QED
          BY <1>2, <2>2, <2>3, <4>1 DEF Cell
      <3>4. \A i \in DOMAIN lines' : Len(lines'[i]) # 0
        <4>1. \A i \in DOMAIN lines' : i \in DOMAIN lines \/ i = Len(lines) + 1
          BY <1>2, <2>3
        <4>2. \A i \in DOMAIN lines : Len(lines[i]) # 0
          BY DEF TypeOK
        <4>3. ASSUME NEW i \in DOMAIN lines' PROVE Len(lines'[i]) # 0
          <5>1. CASE i \in DOMAIN lines
            BY <2>3, <4>2, <5>1
          <5>2. CASE i = Len(lines) + 1
            <6>1. lines'[i] = <<text>>
              BY <2>3, <5>2
            <6>. QED
              BY <6>1
          <5>. QED
            BY <4>1, <5>1, <5>2
        <4>. QED
          BY <4>3
      <3>. QED
        BY <1>2, <2>2, <2>3, <3>1, <3>2, <3>3, <3>4 DEF Adds
    <2>. QED
      BY <2>4 DEF text
  <1>5. CASE open
    <2> DEFINE n == Len(lines)
               m == Len(lines[n]) + 1
    <2>1. n \in DOMAIN lines
      BY <1>2, <1>5 DEF TypeOK
    <2>2. lines' = [lines EXCEPT ![n] = Append(lines[n], text)]
      BY <1>5 DEF Write, text
    <2>3. /\ Append(lines[n], text) \in Seq(Text)
          /\ Len(Append(lines[n], text)) = m
          /\ DOMAIN Append(lines[n], text) = 1..m
          /\ \A j \in DOMAIN lines[n] : Append(lines[n], text)[j] = lines[n][j]
          /\ Append(lines[n], text)[m] = text
      BY <1>1, <1>3, <2>1
    <2>4. /\ DOMAIN lines' = DOMAIN lines
          /\ \A i \in DOMAIN lines : i # n => lines'[i] = lines[i]
          /\ lines'[n] = Append(lines[n], text)
      BY <2>1, <2>2
    <2>5. lines' \in Seq(Seq(Text)) /\ Len(lines') = Len(lines)
      BY <1>2, <2>1, <2>2, <2>3
    <2>6. m \in Nat /\ 1..m = (1..Len(lines[n])) \cup {m} /\ m \notin 1..Len(lines[n])
      BY <1>3, <2>1
    <2>. HIDE DEF m
    <2>7. ~Cell(n, m)
      BY <1>3, <2>1, <2>6 DEF Cell
    <2>8. \A i, j : Cell(i, j)' <=> Cell(i, j) \/ (i = n /\ j = m)
      BY <1>3, <2>1, <2>3, <2>4, <2>6 DEF Cell
    <2>9. \A i, j : Cell(i, j) => lines'[i][j] = lines[i][j]
      BY <1>3, <2>3, <2>4 DEF Cell
    <2>10. \A i \in DOMAIN lines' : Len(lines'[i]) # 0
      BY <1>3, <2>1, <2>3, <2>4 DEF TypeOK, m
    <2>11. Adds(n, m, text)
      BY <1>2, <2>1, <2>3, <2>4, <2>5, <2>7, <2>8, <2>9, <2>10 DEF Adds, m
    <2>. QED
      BY <2>11 DEF text
  <1>. QED
    BY <1>4, <1>5

-----------------------------------------------------------------------------
(* The two kinds of steps: c goes on or ends without a write, or c writes.   *)

Quiet(c) ==
    /\ pc[c] \in {"idle", "record"}
    /\ UNCHANGED <<lines, open>> /\ exists' \in BOOLEAN
    /\ \/ /\ pc' = [pc EXCEPT ![c] = "record"] \/ pc' = [pc EXCEPT ![c] = "killed"]
          /\ answer' = answer
       \/ Returns(c, "error")

Writes(c) ==
    /\ pc[c] = "record"
    /\ \E whole, newline \in BOOLEAN :
         /\ Write(c, whole, newline)
         /\ \/ pc' = [pc EXCEPT ![c] = "killed"] /\ answer' = answer
            \/ Returns(c, "unknown")
            \/ whole /\ Returns(c, "success")

LEMMA StepKinds ==
    ASSUME TypeOK, Next
    PROVE  \E c \in Callers : Quiet(c) \/ Writes(c)
  <1>1. PICK c \in Callers :
          \/ BeginExecute(c) \/ ExecuteFails(c) \/ WriteFails(c) \/ Record(c)
          \/ PartialWrite(c) \/ SyncFails(c) \/ Killed(c)
    BY DEF Next
  <1>2. CASE BeginExecute(c) \/ ExecuteFails(c) \/ WriteFails(c)
    BY <1>2 DEF BeginExecute, ExecuteFails, WriteFails, Quiet, file, TypeOK
  <1>3. CASE Record(c) \/ PartialWrite(c) \/ SyncFails(c)
    BY <1>3 DEF Record, PartialWrite, SyncFails, Writes
  <1>4. CASE Killed(c)
    BY <1>4 DEF Killed, Quiet, Writes, file, TypeOK
  <1>. QED
    BY <1>1, <1>2, <1>3, <1>4

LEMMA QuietKeeps ==
    ASSUME LedgerInv, NEW c \in Callers, Quiet(c)
    PROVE  LedgerInv'
  <1>1. TypeOK /\ answer[c] = "none"
    BY DEF LedgerInv, Quiet, TypeOK
  <1>2. TypeOK'
    BY <1>1 DEF TypeOK, Quiet, Returns
  <1>3. \A d, i, j : Names(d, i, j)' <=> Names(d, i, j)
    BY DEF Names, Cell, Quiet
  <1>4. \A d \in Callers : pc[d] \in {"done", "killed"} => pc'[d] = pc[d]
    BY <1>1 DEF TypeOK, Quiet, Returns
  <1>5. \A d \in Callers : answer'[d] # "none" => pc'[d] = "done"
    BY <1>1 DEF TypeOK, Quiet, Returns, LedgerInv
  <1>6. ErrorMeansNoEffect'
    <2>1. \A i, j : ~Names(c, i, j)
      BY DEF LedgerInv, Quiet
    <2>2. \A d \in Callers : answer'[d] \in {answer[d], "error"}
                             /\ (answer'[d] # answer[d] => d = c)
      BY <1>1 DEF TypeOK, Quiet, Returns
    <2>3. lines' = lines /\ Written' = Written
      BY DEF Quiet, Written
    <2>. QED
      BY <2>1, <2>2, <2>3 DEF LedgerInv, ErrorMeansNoEffect, Names, Cell
  <1>. QED
    BY <1>2, <1>3, <1>4, <1>5, <1>6 DEF LedgerInv

(* What a write does to the entries that count.                              *)
LEMMA WriteWritten ==
    ASSUME TypeOK, NEW c \in Callers, NEW whole \in BOOLEAN, NEW n, NEW m,
           Adds(n, m, [by |-> c, whole |-> whole])
    PROVE  Written' = IF whole THEN Written \cup {c} ELSE Written
  <1>1. SUFFICES ASSUME NEW d \in Callers
                 PROVE  d \in Written' <=> d \in Written \/ (d = c /\ whole)
    BY DEF Written
  <1> DEFINE entry == [by |-> d, whole |-> TRUE]
  <1>2. d \in Written' <=> \E i, j : Cell(i, j)' /\ lines'[i][j] = entry
    BY DEF Written, Cell
  <1>3. d \in Written <=> \E i, j : Cell(i, j) /\ lines[i][j] = entry
    BY DEF Written, Cell
  <1>4. lines'[n][m] = entry <=> d = c /\ whole
    <2>1. PICK t : t = lines'[n][m] /\ t = [by |-> c, whole |-> whole]
      BY DEF Adds
    <2>2. t.by = c /\ t.whole = whole
      BY <2>1
    <2>3. t = entry => d = c /\ whole
      <3>1. entry.by = d /\ entry.whole = TRUE
        OBVIOUS
      <3>. HIDE DEF entry
      <3>. QED
        BY <2>2, <3>1, Zenon
    <2>4. d = c /\ whole => t = entry
      BY <2>1
    <2>. QED
      BY <2>1, <2>3, <2>4
  <1>. HIDE DEF entry
  <1>5. /\ ~Cell(n, m)
        /\ \A i, j : Cell(i, j)' <=> Cell(i, j) \/ (i = n /\ j = m)
        /\ \A i, j : Cell(i, j) => lines'[i][j] = lines[i][j]
    BY DEF Adds
  <1>. QED
    BY <1>2, <1>3, <1>4, <1>5

LEMMA WritesKeeps ==
    ASSUME LedgerInv, NEW c \in Callers, Writes(c)
    PROVE  LedgerInv'
  <1>1. TypeOK /\ pc[c] = "record" /\ answer[c] = "none"
    BY DEF LedgerInv, Writes, TypeOK
  <1>2. PICK whole \in BOOLEAN, newline \in BOOLEAN :
          /\ Write(c, whole, newline)
          /\ \/ pc' = [pc EXCEPT ![c] = "killed"] /\ answer' = answer
             \/ Returns(c, "unknown")
             \/ whole /\ Returns(c, "success")
    BY DEF Writes
  <1>3. PICK n, m : Adds(n, m, [by |-> c, whole |-> whole])
    BY <1>1, <1>2, WriteAdds
  <1>4. /\ pc'[c] \in {"done", "killed"}
        /\ answer'[c] \in {"none", "unknown", "success"}
        /\ answer'[c] = "success" => whole
        /\ answer'[c] # "none" => pc'[c] = "done"
        /\ \A d \in Callers : d # c => pc'[d] = pc[d] /\ answer'[d] = answer[d]
    BY <1>1, <1>2 DEF TypeOK, Returns
  <1>5. TypeOK'
    <2>1. exists' \in BOOLEAN /\ open' \in BOOLEAN
      BY <1>2 DEF Write
    <2>2. pc' \in [Callers -> {"idle", "record", "done", "killed"}]
          /\ answer' \in [Callers -> {"none", "success", "error", "unknown"}]
      BY <1>1, <1>2 DEF TypeOK, Returns
    <2>. QED
      BY <1>3, <2>1, <2>2 DEF TypeOK, Adds
  <1>6. \A d, i, j : Names(d, i, j)' <=> Names(d, i, j) \/ (d = c /\ i = n /\ j = m)
    BY <1>3 DEF Names, Adds
  <1>7. \A i, j : ~Names(c, i, j)
    BY <1>1 DEF LedgerInv
  <1>8. ErrorMeansNoEffect'
    <2>1. Written \subseteq Written' /\ (whole => c \in Written')
      BY <1>1, <1>3, WriteWritten
    <2>2. ASSUME NEW d \in Callers, answer'[d] = "error"
          PROVE  \A i, j : ~Names(d, i, j)'
      <3>1. d # c /\ answer[d] = "error"
        BY <1>4, <2>2
      <3>. QED
        BY <1>6, <3>1 DEF LedgerInv, ErrorMeansNoEffect, Names, Cell
    <2>3. ASSUME NEW d \in Callers, answer'[d] = "success"
          PROVE  d \in Written'
      BY <1>4, <2>1, <2>3 DEF LedgerInv, ErrorMeansNoEffect
    <2>. QED
      BY <2>2, <2>3 DEF ErrorMeansNoEffect, Names, Cell
  <1>9. \A d \in Callers : \A i, j : Names(d, i, j)' => pc'[d] \in {"done", "killed"}
    BY <1>4, <1>6 DEF LedgerInv
  <1>10. \A d \in Callers : \A i, j, k, l :
            Names(d, i, j)' /\ Names(d, k, l)' => i = k /\ j = l
    BY <1>6, <1>7 DEF LedgerInv
  <1>11. \A d \in Callers : answer'[d] # "none" => pc'[d] = "done"
    BY <1>4 DEF LedgerInv
  <1>. QED
    BY <1>5, <1>8, <1>9, <1>10, <1>11 DEF LedgerInv

(* Every Execute writes at most one text, and none before it is on its way   *)
(* to the end: what the readers below rest on.                               *)
THEOREM LedgerInvariant == Spec => []LedgerInv
  <1>1. Init => LedgerInv
    <2>1. SUFFICES ASSUME Init PROVE LedgerInv
      OBVIOUS
    <2>2. lines \in Seq(Seq(Text)) /\ DOMAIN lines = {} /\ \A i, j : ~Cell(i, j)
      BY <2>1 DEF Init, Cell
    <2>3. ErrorMeansNoEffect
      BY <2>1 DEF Init, ErrorMeansNoEffect
    <2>. QED
      BY <2>1, <2>2, <2>3 DEF Init, LedgerInv, TypeOK, Names
  <1>2. LedgerInv /\ [Next]_vars => LedgerInv'
    <2>1. SUFFICES ASSUME LedgerInv, [Next]_vars PROVE LedgerInv'
      OBVIOUS
    <2>2. CASE Next
      BY <2>1, <2>2, StepKinds, QuietKeeps, WritesKeeps DEF LedgerInv
    <2>3. CASE UNCHANGED vars
      BY <2>1, <2>3
      DEF vars, file, LedgerInv, TypeOK, Names, Cell, ErrorMeansNoEffect, Written
    <2>. QED
      BY <2>1, <2>2, <2>3
  <1>. QED
    BY <1>1, <1>2, PTL DEF Spec

(* Tool.Execute's contract over the whole file: a call that returned an      *)
(* error other than ErrOutcomeUnknown left no byte, and the entry of a call  *)
(* that succeeded stays, whatever is appended behind it.                     *)
THEOREM ErrorsAreTrue == Spec => []ErrorMeansNoEffect
  <1>1. LedgerInv => ErrorMeansNoEffect
    BY DEF LedgerInv
  <1>. QED
    BY <1>1, LedgerInvariant, PTL

-----------------------------------------------------------------------------
(* Readers.                                                                  *)

(* A line that decodes is the entry of one caller.                           *)
LEMMA DecodedIsWritten ==
    ASSUME TypeOK, NEW i \in Decoded
    PROVE  /\ EntryOf(i) \in Callers /\ EntryOf(i) \in Written
           /\ Names(EntryOf(i), i, 1) /\ i \in DOMAIN lines /\ Len(lines[i]) = 1
  <1>1. i \in DOMAIN lines /\ Len(lines[i]) = 1 /\ lines[i][1].whole
    BY DEF Decoded
  <1>2. lines[i] \in Seq(Text) /\ 1 \in DOMAIN lines[i]
    BY <1>1 DEF TypeOK
  <1>3. lines[i][1] \in Text
    BY <1>2
  <1>4. PICK t \in Text : t = lines[i][1]
    BY <1>3
  <1>5. t.by \in Callers /\ t.whole = TRUE /\ t = [by |-> t.by, whole |-> t.whole]
    BY <1>1, <1>4 DEF Text
  <1>6. t = [by |-> t.by, whole |-> TRUE]
    BY <1>5
  <1>. QED
    BY <1>1, <1>2, <1>4, <1>5, <1>6 DEF EntryOf, Written, Names, Cell

(* In a readable file every complete entry is a line of its own.             *)
LEMMA WrittenIsDecoded ==
    ASSUME TypeOK, Readable, NEW c \in Written
    PROVE  \E i \in Decoded : EntryOf(i) = c
  <1>1. PICK i, j : Cell(i, j) /\ lines[i][j] = [by |-> c, whole |-> TRUE]
    BY DEF Written, Cell
  <1>2. i \in Decoded /\ Len(lines[i]) = 1
    BY <1>1 DEF Readable, Decoded, Cell
  <1>3. lines[i] \in Seq(Text)
    BY <1>1 DEF TypeOK, Cell
  <1>4. j = 1
    BY <1>1, <1>2, <1>3 DEF Cell
  <1>. QED
    BY <1>1, <1>2, <1>4 DEF EntryOf

(* FindByKey, the answer Reconcile gives the fence: "absent" is only ever    *)
(* answered when no complete entry of the key is anywhere in the file, and   *)
(* "found" only when one is, whatever torn or glued lines the runs left.     *)
THEOREM AbsenceHolds == Spec => []AbsenceIsTrue
  <1>1. TypeOK => AbsenceIsTrue
    <2>1. SUFFICES ASSUME TypeOK, NEW k
                   PROVE  /\ FindByKey(k) = "absent" => \A c \in Written : Key[c] # k
                          /\ FindByKey(k) = "found" => \E c \in Written : Key[c] = k
      BY DEF AbsenceIsTrue
    <2>2. /\ FindByKey(k) = "absent" => Readable /\ ~\E i \in Decoded : Key[EntryOf(i)] = k
          /\ FindByKey(k) = "found" => \E i \in Decoded : Key[EntryOf(i)] = k
      BY DEF FindByKey
    <2>. QED
      BY <2>1, <2>2, DecodedIsWritten, WrittenIsDecoded
  <1>2. LedgerInv => TypeOK
    BY DEF LedgerInv
  <1>. QED
    BY <1>1, <1>2, LedgerInvariant, PTL

(* summarize finds more entries than keys exactly when two of the entries it *)
(* counts share a key.                                                       *)
LEMMA DuplicatesShareKey ==
    ASSUME TypeOK, NEW rs
    PROVE  /\ Duplicates(rs) \in Nat
           /\ Duplicates(rs) = 0 <=> \A i, j \in Counted(rs) :
                                       Key[EntryOf(i)] = Key[EntryOf(j)] => i = j
  <1> DEFINE S == Counted(rs)
             f == [i \in S |-> Key[EntryOf(i)]]
             T == {Key[EntryOf(i)] : i \in S}
  <1>1. IsFiniteSet(S)
    <2>1. DOMAIN lines = 1..Len(lines) /\ Len(lines) \in Nat
      BY DEF TypeOK
    <2>2. IsFiniteSet(1..Len(lines))
      BY <2>1, FS_Interval
    <2>3. S \in SUBSET (1..Len(lines))
      BY <2>1 DEF Counted, Decoded
    <2>. QED
      BY <2>2, <2>3, FS_Subset
  <1>2. f \in Surjection(S, T)
    BY DEF Surjection
  <1>3. /\ IsFiniteSet(T) /\ Cardinality(T) <= Cardinality(S)
        /\ Cardinality(T) = Cardinality(S) <=> f \in Injection(S, T)
    BY <1>1, <1>2, FS_Surjection
  <1>4. f \in Injection(S, T) <=> \A i, j \in S : f[i] = f[j] => i = j
    BY DEF Injection, IsInjective
  <1>5. Cardinality(S) \in Nat /\ Cardinality(T) \in Nat
    BY <1>1, <1>3, FS_CardinalityType
  <1>6. Duplicates(rs) = Cardinality(S) - Cardinality(T)
    BY DEF Duplicates
  <1>7. f \in Injection(S, T) <=> \A i, j \in S : Key[EntryOf(i)] = Key[EntryOf(j)] => i = j
    BY <1>4
  <1>. HIDE DEF S, T, f
  <1>8. Duplicates(rs) \in Nat /\ (Duplicates(rs) = 0 <=> f \in Injection(S, T))
    BY <1>3, <1>5, <1>6
  <1>. QED
    BY <1>7, <1>8 DEF S

(* The evidence of scripts/effects: exit code 0 means that no key has two    *)
(* effects in the file, of the runs asked for, and exit code 1 that one has. *)
(* It needs LedgerInv: an entry that were written twice by one Execute would *)
(* be counted as a duplicate.                                                *)
THEOREM EffectsExitHolds == Spec => []EffectsExitIsHonest
  <1>1. LedgerInv => EffectsExitIsHonest
    <2>1. SUFFICES ASSUME LedgerInv, NEW rs
                   PROVE  LET twice == \E c, d \in Written :
                                 Run[c] \in rs /\ Run[d] \in rs /\ c # d /\ Key[c] = Key[d]
                          IN  /\ EffectsExit(rs) = 0 => ~twice
                              /\ EffectsExit(rs) = 1 => twice
      BY DEF EffectsExitIsHonest
    <2>2. TypeOK
      BY <2>1 DEF LedgerInv
    <2>3. /\ Duplicates(rs) \in Nat
          /\ Duplicates(rs) = 0 <=> \A i, j \in Counted(rs) :
                                       Key[EntryOf(i)] = Key[EntryOf(j)] => i = j
      BY <2>2, DuplicatesShareKey
    <2>4. /\ EffectsExit(rs) = 0 => Readable /\ Duplicates(rs) = 0
          /\ EffectsExit(rs) = 1 => Duplicates(rs) # 0
      BY <2>3 DEF EffectsExit
    <2>5. ASSUME EffectsExit(rs) = 0,
                 NEW c \in Written, NEW d \in Written,
                 Run[c] \in rs, Run[d] \in rs, c # d, Key[c] = Key[d]
          PROVE  FALSE
      <3>1. PICK i \in Decoded : EntryOf(i) = c
        BY <2>2, <2>4, <2>5, WrittenIsDecoded
      <3>2. PICK j \in Decoded : EntryOf(j) = d
        BY <2>2, <2>4, <2>5, WrittenIsDecoded
      <3>3. i \in Counted(rs) /\ j \in Counted(rs)
        BY <2>5, <3>1, <3>2 DEF Counted
      <3>. QED
        BY <2>3, <2>4, <2>5, <3>1, <3>2, <3>3
    <2>6. ASSUME EffectsExit(rs) = 1
          PROVE  \E c, d \in Written :
                   Run[c] \in rs /\ Run[d] \in rs /\ c # d /\ Key[c] = Key[d]
      <3>1. PICK i \in Counted(rs), j \in Counted(rs) :
              Key[EntryOf(i)] = Key[EntryOf(j)] /\ i # j
        BY <2>3, <2>4, <2>6
      <3>2. i \in Decoded /\ j \in Decoded /\ Run[EntryOf(i)] \in rs /\ Run[EntryOf(j)] \in rs
        BY DEF Counted
      <3>3. /\ EntryOf(i) \in Written /\ Names(EntryOf(i), i, 1)
            /\ EntryOf(j) \in Written /\ Names(EntryOf(j), j, 1)
            /\ EntryOf(i) \in Callers
        BY <2>2, <3>2, DecodedIsWritten
      <3>4. EntryOf(i) # EntryOf(j)
        BY <2>1, <3>1, <3>3 DEF LedgerInv
      <3>. QED
        BY <3>1, <3>2, <3>3, <3>4
    <2>. QED
      BY <2>5, <2>6
  <1>. QED
    BY <1>1, LedgerInvariant, PTL

-----------------------------------------------------------------------------
(* What a step does to what the readers see.                                 *)

(* A line that decodes stays as it is or becomes a line that does not; one   *)
(* that does not decode never does again.                                    *)
LEMMA DecodedMoves ==
    ASSUME LedgerInv, [Next]_vars
    PROVE  /\ DOMAIN lines \subseteq DOMAIN lines'
           /\ \A i \in DOMAIN lines : i \in Decoded' => i \in Decoded /\ lines'[i] = lines[i]
           /\ \/ Written' = Written
              \/ \E c \in Callers : pc[c] = "record" /\ Written' = Written \cup {c}
  <1>1. CASE lines' = lines
    BY <1>1 DEF Decoded, Written
  <1>2. CASE lines' # lines
    <2>1. PICK c \in Callers : Writes(c)
      BY <1>2, StepKinds DEF LedgerInv, vars, file, Quiet
    <2>2. TypeOK /\ pc[c] = "record"
      BY <2>1 DEF LedgerInv, Writes
    <2>3. PICK whole \in BOOLEAN, newline \in BOOLEAN : Write(c, whole, newline)
      BY <2>1 DEF Writes
    <2>4. PICK n, m : Adds(n, m, [by |-> c, whole |-> whole])
      BY <2>2, <2>3, WriteAdds
    <2>5. Written' = IF whole THEN Written \cup {c} ELSE Written
      BY <2>2, <2>4, WriteWritten
    <2>6. ASSUME NEW i \in DOMAIN lines, i \in Decoded'
          PROVE  i \in Decoded /\ lines'[i] = lines[i]
      <3>1. CASE i # n
        BY <2>4, <2>6, <3>1 DEF Adds, Decoded
      <3>2. CASE i = n
        <4>1. lines[n] \in Seq(Text) /\ Len(lines[n]) \in Nat /\ Len(lines'[n]) = 1
          BY <2>2, <2>6, <3>2 DEF TypeOK, Decoded
        <4>2. Len(lines[n]) # 0
          BY <2>2, <2>6, <3>2 DEF TypeOK
        <4>3. Len(lines'[n]) = Len(lines[n]) + 1
          BY <2>4, <2>6, <3>2 DEF Adds
        <4>4. PICK a, b : a = Len(lines[n]) /\ b = Len(lines'[n])
          OBVIOUS
        <4>5. a \in Nat /\ a # 0 /\ b = 1 /\ b = a + 1
          BY <4>1, <4>2, <4>3, <4>4
        <4>. QED
          BY <4>5
      <3>. QED
        BY <3>1, <3>2
    <2>. QED
      BY <2>2, <2>4, <2>5, <2>6 DEF Adds
  <1>. QED
    BY <1>1, <1>2

(* A run whose tests have passed keeps that answer, or loses it to a file    *)
(* that no longer decodes: no append turns it back into a failure.           *)
THEOREM TestsFixed == Spec => TestsStayFixed
  <1>1. LedgerInv /\ [Next]_vars =>
          \A c \in Callers : RunTests(Run[c]) = "passed" =>
            RunTests(Run[c])' \in {"passed", "error"}
    <2>1. SUFFICES ASSUME LedgerInv, [Next]_vars, NEW r, RunTests(r) = "passed",
                          Readable'
                   PROVE  \E i \in Decoded' : Run[EntryOf(i)'] = r
                                              /\ Tool[EntryOf(i)'] = "apply_fix"
      BY DEF RunTests
    <2>2. PICK i \in Decoded : Run[EntryOf(i)] = r /\ Tool[EntryOf(i)] = "apply_fix"
      BY <2>1 DEF RunTests
    <2>3. i \in DOMAIN lines /\ i \in Decoded'
      BY <2>1, <2>2, DecodedMoves DEF Decoded, Readable
    <2>4. EntryOf(i)' = EntryOf(i)
      BY <2>1, <2>3, DecodedMoves DEF EntryOf
    <2>. QED
      BY <2>2, <2>3, <2>4
  <1>. QED
    BY <1>1, LedgerInvariant, PTL DEF Spec, TestsStayFixed

(* What Fence keeps of the file for one key moves as Fence says.  Fence      *)
(* models the ledger by the calls it holds and one "readable" flag: this is  *)
(* why that is enough, for every file the runs can write.                    *)
THEOREM FenceViewHolds == Spec => FenceView
  <1>1. LedgerInv /\ [Next]_vars =>
          \A k \in {Key[c] : c \in Callers} :
            /\ ~Readable => ~Readable'
            /\ \/ WrittenFor(k)' = WrittenFor(k)
               \/ \E c \in Callers :
                    /\ Key[c] = k /\ pc[c] = "record"
                    /\ WrittenFor(k)' = WrittenFor(k) \cup {c}
    <2>1. SUFFICES ASSUME LedgerInv, [Next]_vars, NEW k
                   PROVE  /\ ~Readable => ~Readable'
                          /\ \/ WrittenFor(k)' = WrittenFor(k)
                             \/ \E c \in Callers :
                                  /\ Key[c] = k /\ pc[c] = "record"
                                  /\ WrittenFor(k)' = WrittenFor(k) \cup {c}
      OBVIOUS
    <2>2. Readable' => Readable
      BY <2>1, DecodedMoves DEF Readable, Decoded
    <2>3. CASE Written' = Written
      BY <2>2, <2>3 DEF WrittenFor
    <2>4. ASSUME NEW c \in Callers, pc[c] = "record", Written' = Written \cup {c}
          PROVE  \/ WrittenFor(k)' = WrittenFor(k)
                 \/ Key[c] = k /\ WrittenFor(k)' = WrittenFor(k) \cup {c}
      BY <2>4 DEF WrittenFor
    <2>. QED
      BY <2>1, <2>2, <2>3, <2>4, DecodedMoves
  <1>. QED
    BY <1>1, LedgerInvariant, PTL DEF Spec, FenceView
=============================================================================
