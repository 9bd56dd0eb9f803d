----------------------------- MODULE OverlayProofs -----------------------------
(***************************************************************************)
(* Proofs about Overlay, for any settings, combinations, files and faults  *)
(* and any number of mappings.  Inv is inductive; the four safety          *)
(* properties that the run checks follow.                                  *)
(***************************************************************************)
EXTENDS Overlay, RunLengthProofs, FiniteSetTheorems, SequenceTheorems

-----------------------------------------------------------------------------
(* Among                                                                   *)

Pick(e, S) == IF e \in S THEN <<e>> ELSE <<>>
Picks(seq, S) == [n \in DOMAIN seq |-> Pick(seq[n], S)]

LEMMA AmongIsFlatten == \A seq, S : Among(seq, S) = FlattenSeq(Picks(seq, S))
  BY DEF Among, Picks, Pick

LEMMA AmongEmpty == \A S : Among(<<>>, S) = <<>>
  BY DEF Among, FlattenSeq

LEMMA PicksType ==
  ASSUME NEW T, NEW S, NEW seq \in Seq(T)
  PROVE  /\ Picks(seq, S) \in Seq(Seq(T)) /\ Len(Picks(seq, S)) = Len(seq)
         /\ \A e \in T : Pick(e, S) \in Seq(T)
  <1>1. \A e \in T : Pick(e, S) \in Seq(T)
    BY DEF Pick
  <1>2. DOMAIN seq = 1..Len(seq) /\ Len(seq) \in Nat /\ \A n \in DOMAIN seq : seq[n] \in T
    OBVIOUS
  <1>3. QED BY <1>1, <1>2 DEF Picks

(* An element behind comes behind the others, or not at all.               *)
LEMMA AmongAppend ==
  ASSUME NEW T, NEW S, NEW seq \in Seq(T), NEW e \in T, Among(seq, S) \in Seq(T)
  PROVE  Among(Append(seq, e), S) = IF e \in S THEN Append(Among(seq, S), e)
                                               ELSE Among(seq, S)
  <1> DEFINE r == Pick(e, S)
  <1>1. r \in Seq(T)
    BY PicksType
  <1>2. Among(seq, S) \o r = IF e \in S THEN Append(Among(seq, S), e) ELSE Among(seq, S)
    BY DEF Pick
  <1>3. Picks(Append(seq, e), S) = Append(Picks(seq, S), r)
    <2>1. Append(seq, e) \in Seq(T) /\ Len(Append(seq, e)) = Len(seq) + 1 /\ Len(seq) \in Nat
          /\ Append(seq, e)[Len(seq) + 1] = e
          /\ \A n \in 1..Len(seq) : Append(seq, e)[n] = seq[n]
      OBVIOUS
    <2> DEFINE u == Append(seq, e)
    <2>2. DOMAIN u = 1..(Len(seq) + 1) /\ DOMAIN seq = 1..Len(seq)
      BY <2>1
    <2> HIDE DEF u
    <2>3. Picks(u, S) = [n \in 1..(Len(seq) + 1) |-> Pick(u[n], S)]
      BY <2>2 DEF Picks
    <2>4. Picks(seq, S) = [n \in 1..Len(seq) |-> Pick(seq[n], S)]
      BY <2>2 DEF Picks
    <2>5. Append(Picks(seq, S), r) \in Seq(Seq(T))
          /\ Len(Append(Picks(seq, S), r)) = Len(seq) + 1
          /\ Append(Picks(seq, S), r)[Len(seq) + 1] = r
          /\ \A n \in 1..Len(seq) : Append(Picks(seq, S), r)[n] = Picks(seq, S)[n]
      <3>1. Picks(seq, S) \in Seq(Seq(T)) /\ Len(Picks(seq, S)) = Len(seq)
        BY PicksType
      <3> HIDE DEF r
      <3>2. QED BY <3>1, <1>1, AppendProperties
    <2>6. Picks(u, S) \in Seq(Seq(T)) /\ Len(Picks(u, S)) = Len(seq) + 1
      BY <2>1, PicksType DEF u
    <2>7. Picks(u, S)[Len(seq) + 1] = r
      BY <2>1, <2>3 DEF u
    <2>8. \A n \in 1..Len(seq) : Picks(u, S)[n] = Pick(seq[n], S) /\ Picks(seq, S)[n] = Pick(seq[n], S)
      BY <2>1, <2>3, <2>4 DEF u
    <2> HIDE DEF r
    <2>9. \A n \in 1..(Len(seq) + 1) : Picks(u, S)[n] = Append(Picks(seq, S), r)[n]
      <3> TAKE n \in 1..(Len(seq) + 1)
      <3>1. CASE n = Len(seq) + 1
        BY <3>1, <2>5, <2>7
      <3>2. CASE n # Len(seq) + 1
        <4>1. n \in 1..Len(seq)
          BY <3>2, <2>1
        <4>2. QED BY <4>1, <2>5, <2>8
      <3>3. QED BY <3>1, <3>2
    <2>10. Picks(u, S) = Append(Picks(seq, S), r)
      BY <2>5, <2>6, <2>9, SeqEqual
    <2>11. QED BY <2>10 DEF u
  <1>4. Picks(seq, S) \in Seq(Seq(T)) /\ Len(Picks(seq, S)) = Len(seq)
    BY PicksType
  <1> HIDE DEF r
  <1>5. CASE seq # <<>>
    <2>1. Picks(seq, S) # <<>>
      BY <1>4, <1>5, EmptySeq, LenProperties
    <2>2. FlattenSeq(Append(Picks(seq, S), r)) = FlattenSeq(Picks(seq, S)) \o r
      BY <1>1, <1>4, <2>1, FlattenAppend
    <2>3. QED BY <2>2, <1>2, <1>3, AmongIsFlatten, Zenon
  <1>6. CASE seq = <<>>
    <2>1. Picks(seq, S) = <<>>
      BY <1>4, <1>6, EmptySeq
    <2>2. Append(Picks(seq, S), r) = <<r>>
      BY <2>1, <1>1
    <2>3. Among(Append(seq, e), S) = FlattenSeq(<<r>>)
      BY <1>3, <2>2, AmongIsFlatten, Zenon
    <2>4. FlattenSeq(<<r>>) = r
      BY <1>1, FlattenOne
    <2>5. Among(seq, S) = <<>> /\ <<>> \o r = r
      BY <1>1, <1>6, AmongEmpty
    <2>6. QED BY <1>2, <2>3, <2>4, <2>5, Zenon
  <1>7. QED BY <1>5, <1>6

(* What is left is in S and was there before.                              *)
LEMMA AmongType ==
  ASSUME NEW T, NEW S, NEW seq \in Seq(T)
  PROVE  Among(seq, S) \in Seq(T \cap S) /\ Among(seq, S) \in Seq(T)
  <1> DEFINE X == {s \in Seq(T) : Among(s, S) \in Seq(T \cap S)}
  <1>1. <<>> \in X
    BY EmptyType, AmongEmpty, Zenon
  <1>2. ASSUME NEW s \in Seq(T), NEW e \in T, s \in X PROVE Append(s, e) \in X
    <2>1. Among(s, S) \in Seq(T \cap S) /\ Among(s, S) \in Seq(T)
      BY <1>2, SeqMonotonic
    <2>2. CASE e \in S
      <3>1. Among(Append(s, e), S) = Append(Among(s, S), e)
        BY <2>1, <2>2, AmongAppend
      <3>2. QED BY <2>1, <2>2, <3>1
    <2>3. CASE e \notin S
      <3>1. Among(Append(s, e), S) = Among(s, S)
        BY <2>1, <2>3, AmongAppend
      <3>2. QED BY <2>1, <3>1
    <2>4. QED BY <2>2, <2>3
  <1>3. \A s \in Seq(T), e \in T : s \in X => Append(s, e) \in X
    BY <1>2
  <1> HIDE DEF X
  <1>4. Seq(T) \subseteq X
    BY <1>1, <1>3, AllSequences
  <1>5. Among(seq, S) \in Seq(T \cap S)
    BY <1>4 DEF X
  <1>6. QED BY <1>5, SeqMonotonic

(* Nothing goes when all are in S.                                         *)
LEMMA AmongAll ==
  ASSUME NEW S, NEW seq \in Seq(S)
  PROVE  Among(seq, S) = seq
  <1> DEFINE X == {s \in Seq(S) : Among(s, S) = s}
  <1>1. <<>> \in X
    BY EmptyType, AmongEmpty, Zenon
  <1>2. ASSUME NEW s \in Seq(S), NEW e \in S, s \in X PROVE Append(s, e) \in X
    <2>1. Among(Append(s, e), S) = Append(s, e)
      BY <1>2, AmongAppend
    <2>2. QED BY <2>1
  <1>3. \A s \in Seq(S), e \in S : s \in X => Append(s, e) \in X
    BY <1>2
  <1> HIDE DEF X
  <1>4. Seq(S) \subseteq X
    BY <1>1, <1>3, AllSequences
  <1>5. QED BY <1>4 DEF X

-----------------------------------------------------------------------------
(* The inductive invariant.                                                *)

FileShape == [pad: Pads, macros: Seq(Line), tail: Seq(Line)]
ConfigShape == [pad: Pads, macros: Seq(Mapping)]
ServiceShape == [pad: Pads, macros: Seq(Line)]

(* What the user edits: TypeOK's part of it, with no more mappings than    *)
(* items can be.                                                           *)
EditsOK ==
  /\ g_config \in ConfigShape /\ Len(g_config.macros) <= MaxMacros
  /\ \A m, n \in DOMAIN g_config.macros :
       g_config.macros[m].id = g_config.macros[n].id => m = n
  /\ items \subseteq [i: 1..MaxMacros, id: Ids] /\ IsFiniteSet(items)
  /\ Cardinality(items) = IF connected THEN Len(g_config.macros) ELSE 0
  /\ gui = Main \/ (gui.view \in {"combo", "file"} /\ InRange(gui.i))
  /\ connected \in BOOLEAN

(* The rest of it.                                                         *)
OutsideOK ==
  /\ spc \in {"idle", "write", "resize", "notify"}
  /\ session \in BOOLEAN /\ broken \in BOOLEAN
  /\ program \in {"down", "booting", "up", "ending"}
  /\ s_config \in ServiceShape
  /\ file \in FileShape /\ Len(Lines(file)) <= MaxMacros
  /\ lapse \subseteq {"unsaved", "untold", "uncut"}
  /\ session => program \in {"up", "ending"}

(* What saveConfig has written so far: the text, then its size.  Only a    *)
(* tail has incomplete lines.                                              *)
FileWritten ==
  /\ file.macros \in Seq(Complete)
  /\ FileSaysWhatIsShown
  /\ spc \in {"resize", "notify"} =>
       file.pad = g_config.pad /\ file.macros = Saved(g_config.macros)
  /\ spc = "notify" => file.tail = <<>>

(* The service follows the file until the next text is written.            *)
ServiceTold ==
  program = "up" /\ spc \in {"idle", "write"} /\ "untold" \notin lapse =>
    s_config = ServiceView(file)

Inv == EditsOK /\ OutsideOK /\ FileWritten /\ ServiceTold /\ NoEmptyCombination

-----------------------------------------------------------------------------
(* Lines and mappings                                                      *)

ToLines(macros) == [n \in DOMAIN macros |-> ToLine(macros[n])]

LEMMA CompleteIsLine == Complete \subseteq Line /\ HasPath \subseteq Line
  BY DEF Complete, HasPath, Line

LEMMA ToLineType == \A m \in Mapping : ToLine(m) \in Line
  BY DEF ToLine, Mapping, Line

LEMMA ToLinesType ==
  ASSUME NEW macros \in Seq(Mapping)
  PROVE  ToLines(macros) \in Seq(Line) /\ Len(ToLines(macros)) = Len(macros)
  <1>1. DOMAIN macros = 1..Len(macros) /\ Len(macros) \in Nat
        /\ \A n \in 1..Len(macros) : macros[n] \in Mapping
    BY LenProperties, ElementOfSeq
  <1>2. ToLines(macros) \in [1..Len(macros) -> Line]
    BY <1>1, ToLineType DEF ToLines
  <1>3. QED BY <1>1, <1>2, IsASeq

(* What is written is complete.                                            *)
LEMMA SavedType ==
  ASSUME NEW macros \in Seq(Mapping)
  PROVE  Saved(macros) \in Seq(Complete) /\ Saved(macros) \in Seq(Line)
  <1>1. Saved(macros) = Among(ToLines(macros), Complete)
    BY DEF Saved, ToLines
  <1>2. Among(ToLines(macros), Complete) \in Seq(Line \cap Complete)
    BY ToLinesType, AmongType
  <1>3. Line \cap Complete = Complete
    BY CompleteIsLine
  <1>4. QED BY <1>1, <1>2, <1>3, CompleteIsLine, SeqMonotonic

(* A mapping without a combination is not written.                         *)
LEMMA SavedAppend ==
  ASSUME NEW macros \in Seq(Mapping), NEW m \in Mapping, m.key_mask = Zero
  PROVE  Saved(Append(macros, m)) = Saved(macros)
  <1>1. ToLine(m) \in Line /\ ToLine(m) \notin Complete
    BY ToLineType, OverlayAssumption DEF ToLine, Complete, OverlayAssumption
  <1>2. ToLines(Append(macros, m)) = Append(ToLines(macros), ToLine(m))
    <2>1. Len(macros) \in Nat /\ DOMAIN macros = 1..Len(macros)
      BY LenProperties
    <2>2. Append(macros, m) \in Seq(Mapping) /\ Len(Append(macros, m)) = Len(macros) + 1
          /\ DOMAIN Append(macros, m) = 1..(Len(macros) + 1)
          /\ (\A n \in 1..Len(macros) : Append(macros, m)[n] = macros[n])
          /\ Append(macros, m)[Len(macros) + 1] = m
      OBVIOUS
    <2>3. ToLines(Append(macros, m)) \in Seq(Line)
          /\ Len(ToLines(Append(macros, m))) = Len(macros) + 1
      BY <2>2, ToLinesType
    <2>4. ToLines(macros) \in Seq(Line) /\ Len(ToLines(macros)) = Len(macros)
      BY ToLinesType
    <2>5. Append(ToLines(macros), ToLine(m)) \in Seq(Line)
          /\ Len(Append(ToLines(macros), ToLine(m))) = Len(macros) + 1
          /\ Append(ToLines(macros), ToLine(m))[Len(macros) + 1] = ToLine(m)
          /\ \A n \in 1..Len(macros) :
               Append(ToLines(macros), ToLine(m))[n] = ToLines(macros)[n]
      BY <2>4, <1>1, AppendProperties
    <2>6. \A n \in 1..(Len(macros) + 1) :
            ToLines(Append(macros, m))[n] = Append(ToLines(macros), ToLine(m))[n]
      <3> TAKE n \in 1..(Len(macros) + 1)
      <3>1. ToLines(Append(macros, m))[n] = ToLine(Append(macros, m)[n])
        BY <2>2 DEF ToLines
      <3>2. CASE n = Len(macros) + 1
        BY <3>1, <3>2, <2>2, <2>5
      <3>3. CASE n # Len(macros) + 1
        <4>1. n \in 1..Len(macros)
          BY <3>3, <2>1
        <4>2. ToLines(macros)[n] = ToLine(macros[n])
          BY <4>1, <2>1 DEF ToLines
        <4>3. QED BY <3>1, <4>1, <4>2, <2>2, <2>5
      <3>4. QED BY <3>2, <3>3
    <2>7. QED BY <2>3, <2>5, <2>6, SeqEqual
  <1>3. ToLines(macros) \in Seq(Line) /\ Among(ToLines(macros), Complete) \in Seq(Line)
    BY ToLinesType, AmongType
  <1>4. Among(Append(ToLines(macros), ToLine(m)), Complete) = Among(ToLines(macros), Complete)
    BY <1>1, <1>3, AmongAppend
  <1>5. QED BY <1>2, <1>4 DEF Saved, ToLines

(* A mapping as it is read.                                                *)
LEMMA LoadType ==
  ASSUME NEW f \in FileShape, Len(Lines(f)) <= MaxMacros
  PROVE  /\ Load(f) \in ConfigShape /\ Len(Load(f).macros) = Len(Lines(f))
         /\ Load(f).pad = f.pad
         /\ \A m, n \in DOMAIN Load(f).macros :
              Load(f).macros[m].id = Load(f).macros[n].id => m = n
         /\ \A n \in 1..Len(Lines(f)) : ToLine(Load(f).macros[n]) = Lines(f)[n]
         /\ DOMAIN Load(f).macros = 1..Len(Lines(f)) /\ Lines(f) \in Seq(Line)
  <1>1. Lines(f) \in Seq(Line) /\ f.pad \in Pads
    BY DEF Lines, FileShape
  <1> DEFINE n0 == Len(Lines(f))
  <1>2. n0 \in Nat /\ DOMAIN Lines(f) = 1..n0 /\ n0 <= MaxMacros
        /\ \A n \in 1..n0 : Lines(f)[n] \in Line /\ n \in Ids
    BY <1>1, LenProperties, ElementOfSeq, OverlayAssumption DEF Ids, OverlayAssumption
  <1> HIDE DEF n0
  <1>3. Load(f).macros = [n \in 1..n0 |-> [id |-> n, key_mask |-> Lines(f)[n].key_mask,
                                          file_path |-> Lines(f)[n].file_path]]
        /\ Load(f).pad = f.pad /\ Load(f) = [pad |-> f.pad, macros |-> Load(f).macros]
    BY <1>2 DEF Load
  <1>4. \A n \in 1..n0 : Load(f).macros[n] \in Mapping
    BY <1>2, <1>3 DEF Mapping, Line
  <1>5. Load(f).macros \in [1..n0 -> Mapping]
    BY <1>3, <1>4
  <1>6. Load(f).macros \in Seq(Mapping) /\ Len(Load(f).macros) = n0
    BY <1>2, <1>5, IsASeq
  <1>7. Load(f) \in ConfigShape
    BY <1>1, <1>3, <1>6 DEF ConfigShape
  <1>8. \A n \in 1..n0 : ToLine(Load(f).macros[n]) = Lines(f)[n]
    BY <1>2, <1>3 DEF ToLine, Line
  <1>9. \A m, n \in DOMAIN Load(f).macros :
          Load(f).macros[m].id = Load(f).macros[n].id => m = n
    BY <1>3
  <1>10. DOMAIN Load(f).macros = 1..n0
    BY <1>3
  <1>11. QED BY <1>1, <1>3, <1>6, <1>7, <1>8, <1>9, <1>10 DEF n0

(* What was saved is read back.                                            *)
LEMMA LoadSaved ==
  ASSUME NEW f \in FileShape, Len(Lines(f)) <= MaxMacros, Lines(f) \in Seq(Complete)
  PROVE  Saved(Load(f).macros) = Lines(f)
  <1>1. Load(f).macros \in Seq(Mapping)
    BY LoadType DEF ConfigShape
  <1>2. ToLines(Load(f).macros) \in Seq(Line) /\ Len(ToLines(Load(f).macros)) = Len(Lines(f))
    BY <1>1, ToLinesType, LoadType
  <1>3. \A n \in 1..Len(Lines(f)) : ToLines(Load(f).macros)[n] = Lines(f)[n]
    BY LoadType DEF ToLines
  <1>4. ToLines(Load(f).macros) = Lines(f)
    BY <1>2, <1>3, LoadType, SeqEqual
  <1>5. Among(Lines(f), Complete) = Lines(f)
    BY AmongAll
  <1>6. QED BY <1>4, <1>5 DEF Saved, ToLines

(* What the service reads, and that it has no empty combination when the   *)
(* lines are complete.                                                     *)
LEMMA ViewType ==
  ASSUME NEW f \in FileShape
  PROVE  /\ ServiceView(f) \in ServiceShape
         /\ Lines(f) \in Seq(Complete) =>
              \A n \in DOMAIN ServiceView(f).macros : ServiceView(f).macros[n].key_mask # Zero
  <1>1. Lines(f) \in Seq(Line) /\ f.pad \in Pads
    BY DEF Lines, FileShape
  <1>2. ServiceView(f) = [pad |-> f.pad, macros |-> Among(Lines(f), HasPath)]
    BY DEF ServiceView
  <1>3. ServiceView(f) \in ServiceShape
    <2>1. Among(Lines(f), HasPath) \in Seq(Line)
      BY <1>1, AmongType
    <2>2. QED BY <1>1, <1>2, <2>1 DEF ServiceShape
  <1>4. ASSUME Lines(f) \in Seq(Complete), NEW n \in DOMAIN ServiceView(f).macros
        PROVE  ServiceView(f).macros[n].key_mask # Zero
    <2>1. Among(Lines(f), HasPath) \in Seq(Complete)
      BY <1>4, AmongType
    <2>2. ServiceView(f).macros[n] \in Complete
      BY <1>2, <1>4, <2>1, ElementOfSeq, LenProperties
    <2>3. QED BY <2>2, OverlayAssumption DEF Complete, OverlayAssumption
  <1>5. QED BY <1>3, <1>4

(* The tail that may be left of an older text.                             *)
LEMMA TailsType ==
  ASSUME NEW old \in Seq(Line), NEW tail \in Tails(old)
  PROVE  tail \in Seq(Line)
  <1>1. CASE tail = <<>>
    BY <1>1, EmptySeq
  <1>2. ASSUME NEW n \in DOMAIN old, NEW m \in Masks \cup {Zero},
               tail = [SubSeq(old, n, Len(old)) EXCEPT ![1].key_mask = m]
        PROVE  tail \in Seq(Line)
    <2> DEFINE rest == SubSeq(old, n, Len(old))
    <2>1. n \in 1..Len(old) /\ Len(old) \in Nat
      BY LenProperties
    <2>2. rest \in Seq(Line) /\ Len(rest) = Len(old) - n + 1 /\ 1 \in 1..Len(rest)
      BY <2>1
    <2> HIDE DEF rest
    <2>3. rest[1] \in Line
      BY <2>2, ElementOfSeq
    <2>4. [rest[1] EXCEPT !.key_mask = m] \in Line
      BY <2>3 DEF Line
    <2>5. tail = [rest EXCEPT ![1] = [rest[1] EXCEPT !.key_mask = m]]
      BY <1>2 DEF rest
    <2>6. QED BY <2>2, <2>4, <2>5, ExceptSeq
  <1>3. QED BY <1>1, <1>2 DEF Tails

-----------------------------------------------------------------------------
(* Items and identities                                                    *)

(* A set of images is no larger than what they are images of.              *)
LEMMA ImageSmall ==
  ASSUME NEW S, IsFiniteSet(S), NEW f
  PROVE  LET T == {f[x] : x \in S}
         IN  IsFiniteSet(T) /\ Cardinality(T) <= Cardinality(S)
             /\ Cardinality(T) \in Nat /\ Cardinality(S) \in Nat
  <1> DEFINE T == {f[x] : x \in S}
             g == [x \in S |-> f[x]]
  <1>1. g \in Surjection(S, T)
    BY DEF Surjection
  <1> HIDE DEF g, T
  <1>2. QED BY <1>1, FS_Surjection, FS_CardinalityType DEF T

LEMMA IntervalSize ==
  \A n \in Nat : IsFiniteSet(1..n) /\ Cardinality(1..n) = n
  <1> TAKE n \in Nat
  <1>1. 1 \in Int /\ n \in Int
    OBVIOUS
  <1>2. QED BY <1>1, FS_Interval

(* One item for each mapping.                                              *)
LEMMA FilledCount ==
  ASSUME NEW macros \in Seq(Mapping), Len(macros) <= MaxMacros
  PROVE  /\ FilledWith(macros) \subseteq [i: 1..MaxMacros, id: Ids]
         /\ IsFiniteSet(FilledWith(macros))
         /\ Cardinality(FilledWith(macros)) = Len(macros)
  <1> DEFINE T == FilledWith(macros)
             f == [n \in 1..Len(macros) |-> [i |-> n, id |-> macros[n].id]]
  <1>1. Len(macros) \in Nat /\ DOMAIN macros = 1..Len(macros)
        /\ \A n \in 1..Len(macros) : macros[n] \in Mapping
    BY LenProperties, ElementOfSeq
  <1>2. T = {[i |-> n, id |-> macros[n].id] : n \in 1..Len(macros)}
    BY <1>1 DEF FilledWith
  <1>3. T \subseteq [i: 1..MaxMacros, id: Ids]
    BY <1>1, <1>2, OverlayAssumption DEF Mapping, OverlayAssumption
  <1>4. f \in Bijection(1..Len(macros), T)
    <2>1. \A a, b \in 1..Len(macros) : f[a] = f[b] => a = b
      OBVIOUS
    <2>2. \A t \in T : \E n \in 1..Len(macros) : f[n] = t
      BY <1>2
    <2>3. f \in [1..Len(macros) -> T]
      BY <1>2
    <2> HIDE DEF f, T
    <2>4. QED BY <2>1, <2>2, <2>3 DEF Bijection, Injection, Surjection, IsInjective
  <1>5. IsFiniteSet(1..Len(macros)) /\ Cardinality(1..Len(macros)) = Len(macros)
    BY <1>1, IntervalSize
  <1> HIDE DEF f, T
  <1>6. ExistsBijection(1..Len(macros), T)
    BY <1>4 DEF ExistsBijection
  <1>7. QED BY <1>3, <1>5, <1>6, FS_Bijection DEF T

(* There is an identity that no mapping and no item has.                   *)
LEMMA FreshExists ==
  ASSUME EditsOK, connected, Len(g_config.macros) < MaxMacros
  PROVE  /\ FreshId \in Ids
         /\ \A n \in DOMAIN g_config.macros : g_config.macros[n].id # FreshId
         /\ \A item \in items : item.id # FreshId
  <1> DEFINE ms == g_config.macros
             A == {m.id : m \in ToSet(ms)}
             B == {item.id : item \in items}
  <1>1. Len(ms) \in Nat /\ DOMAIN ms = 1..Len(ms) /\ MaxMacros \in Nat
    BY LenProperties, OverlayAssumption DEF EditsOK, ConfigShape, OverlayAssumption
  <1>2. IsFiniteSet(1..Len(ms)) /\ Cardinality(1..Len(ms)) = Len(ms)
    BY <1>1, IntervalSize
  <1>3. IsFiniteSet(A) /\ Cardinality(A) <= Len(ms) /\ Cardinality(A) \in Nat
    <2> DEFINE f == [n \in 1..Len(ms) |-> ms[n].id]
    <2>1. A = {f[n] : n \in 1..Len(ms)}
      BY <1>1 DEF ToSet
    <2> HIDE DEF f, A, ms
    <2>2. QED BY <2>1, <1>2, ImageSmall
  <1>4. IsFiniteSet(B) /\ Cardinality(B) <= Len(ms) /\ Cardinality(B) \in Nat
    <2> DEFINE f == [item \in items |-> item.id]
    <2>1. B = {f[item] : item \in items}
      OBVIOUS
    <2>2. IsFiniteSet(items) /\ Cardinality(items) = Len(ms)
      BY DEF EditsOK
    <2> HIDE DEF f, B, ms
    <2>3. QED BY <2>1, <2>2, ImageSmall
  <1>5. IsFiniteSet(Ids) /\ Cardinality(Ids) = 2 * MaxMacros
    BY <1>1, IntervalSize DEF Ids
  <1>6. IsFiniteSet(A \cup B) /\ Cardinality(A \cup B) < 2 * MaxMacros
    <2>1. /\ IsFiniteSet(A \cup B)
          /\ Cardinality(A \cup B) = Cardinality(A) + Cardinality(B) - Cardinality(A \cap B)
      <3> HIDE DEF A, B
      <3>1. QED BY <1>3, <1>4, FS_Union
    <2>2. Cardinality(A \cap B) \in Nat
      <3> HIDE DEF A, B
      <3>1. QED BY <1>3, FS_Intersection, FS_CardinalityType
    <2> HIDE DEF A, B
    <2>3. QED BY <1>1, <1>3, <1>4, <2>1, <2>2
  <1>7. \E id \in Ids : id \notin A \cup B
    <2> SUFFICES ASSUME Ids \subseteq A \cup B PROVE FALSE
      OBVIOUS
    <2> HIDE DEF A, B
    <2>1. Cardinality(Ids) <= Cardinality(A \cup B)
      BY <1>6, FS_Subset
    <2>2. Cardinality(A \cup B) \in Nat
      BY <1>6, FS_CardinalityType
    <2>3. QED BY <1>1, <1>5, <1>6, <2>1, <2>2
  <1>8. FreshId \in Ids /\ FreshId \notin A \cup B
    BY <1>7, Zenon DEF FreshId
  <1> HIDE DEF FreshId
  <1>9. \A n \in DOMAIN ms : ms[n].id \in A
    BY DEF ToSet
  <1>10. \A item \in items : item.id \in B
    OBVIOUS
  <1>11. QED BY <1>8, <1>9, <1>10

-----------------------------------------------------------------------------
(* The steps.                                                              *)

LEMMA TypeFollows == Inv => TypeOK
  <1> SUFFICES ASSUME Inv PROVE TypeOK
    OBVIOUS
  <1>1. Lines(file) \in Seq(Line) /\ file.pad \in Pads
    BY DEF Inv, OutsideOK, FileShape, Lines
  <1>2. g_config.pad \in Pads /\ g_config.macros \in Seq(Mapping)
        /\ s_config.pad \in Pads /\ s_config.macros \in Seq(Line)
    BY DEF Inv, EditsOK, OutsideOK, ConfigShape, ServiceShape
  <1>3. QED BY <1>1, <1>2, Zenon DEF Inv, EditsOK, OutsideOK, TypeOK

(* A saved file is complete.                                               *)
LEMMA SavedFile ==
  ASSUME EditsOK, OutsideOK, Lines(file) = Saved(g_config.macros)
  PROVE  /\ Lines(file) \in Seq(Complete)
         /\ \A n \in DOMAIN ServiceView(file).macros :
              ServiceView(file).macros[n].key_mask # Zero
         /\ ServiceView(file) \in ServiceShape
  <1>1. g_config.macros \in Seq(Mapping) /\ file \in FileShape
    BY DEF EditsOK, OutsideOK, ConfigShape
  <1>2. Lines(file) \in Seq(Complete)
    BY <1>1, SavedType
  <1>3. QED BY <1>1, <1>2, ViewType

(* The program starts and ends.                                            *)
LEMMA ProgramStepKeeps ==
  ASSUME Inv, ProgramStep
  PROVE  Inv'
  <1>1. UNCHANGED <<g_config, items, gui, spc, connected, broken, file>>
    BY DEF ProgramStep, StartProgram, ProgramReady, TerminateProgram, ProgramEnds, overlay
  <1>2. EditsOK'
    BY <1>1 DEF Inv, EditsOK, InRange
  <1>3. ServiceView(file) \in ServiceShape
    BY ViewType DEF Inv, OutsideOK
  <1>4. Lines(file') = Lines(file) /\ ServiceView(file') = ServiceView(file)
        /\ Saved(g_config.macros)' = Saved(g_config.macros)
    BY <1>1
  <1>5. CASE ProgramReady
    <2>1. /\ s_config' = ServiceView(file) /\ program' = "up"
          /\ session' = session /\ program = "booting"
          /\ lapse' = (lapse \ {"untold", "uncut"})
                       \cup (IF file.tail = <<>> THEN {} ELSE {"uncut"})
      BY <1>5 DEF ProgramReady, Reload
    <2>2. OutsideOK'
      BY <1>1, <1>3, <1>4, <2>1 DEF Inv, OutsideOK
    <2>3. FileWritten'
      BY <1>1, <1>4, <2>1 DEF Inv, FileWritten, FileSaysWhatIsShown
    <2>4. ServiceTold'
      BY <1>4, <2>1 DEF ServiceTold
    <2>5. NoEmptyCombination'
      <3> SUFFICES ASSUME "uncut" \notin lapse'
                   PROVE  \A n \in DOMAIN s_config'.macros : s_config'.macros[n].key_mask # Zero
        BY DEF NoEmptyCombination
      <3>1. file.tail = <<>>
        BY <2>1
      <3>2. file.macros \in Seq(Complete) /\ file \in FileShape
        BY DEF Inv, FileWritten, OutsideOK
      <3>3. Lines(file) \in Seq(Complete)
        BY <3>1, <3>2, ConcatEmptySeq DEF Lines
      <3>4. QED BY <3>2, <3>3, <2>1, ViewType
    <2>6. QED BY <1>2, <2>2, <2>3, <2>4, <2>5 DEF Inv
  <1>6. CASE StartProgram \/ TerminateProgram \/ ProgramEnds
    <2>1. UNCHANGED <<s_config, lapse>> /\ program' \in {"booting", "ending", "down"}
      BY <1>6 DEF StartProgram, TerminateProgram, ProgramEnds
    <2>2. (session' => program' \in {"up", "ending"}) /\ session' \in BOOLEAN
      <3>1. session \in BOOLEAN /\ (session => program \in {"up", "ending"})
        BY DEF Inv, OutsideOK
      <3>2. CASE StartProgram
        BY <3>1, <3>2 DEF StartProgram
      <3>3. CASE TerminateProgram
        BY <3>1, <3>3 DEF TerminateProgram
      <3>4. CASE ProgramEnds
        BY <3>4 DEF ProgramEnds
      <3>5. QED BY <1>6, <3>2, <3>3, <3>4
    <2>3. OutsideOK'
      BY <1>1, <1>4, <2>1, <2>2 DEF Inv, OutsideOK
    <2>4. FileWritten' /\ ServiceTold' /\ NoEmptyCombination'
      BY <1>1, <1>4, <2>1 DEF Inv, FileWritten, FileSaysWhatIsShown, ServiceTold, NoEmptyCombination
    <2>5. QED BY <1>2, <2>3, <2>4 DEF Inv
  <1>7. QED BY <1>5, <1>6 DEF ProgramStep

(* The overlay notices the program, or is opened again.                    *)
LEMMA ConnectStep ==
  ASSUME Inv, Connect \/ Disconnect
  PROVE  Inv'
  <1>1. UNCHANGED <<g_config, gui, spc, broken, program, s_config, file, lapse>>
    BY DEF Connect, Disconnect, service
  <1>2. Lines(file') = Lines(file) /\ ServiceView(file') = ServiceView(file)
        /\ Saved(g_config.macros)' = Saved(g_config.macros)
    BY <1>1
  <1>3. /\ items' \subseteq [i: 1..MaxMacros, id: Ids] /\ IsFiniteSet(items') /\ connected' \in BOOLEAN
        /\ Cardinality(items') = IF connected' THEN Len(g_config.macros) ELSE 0
    <2>1. CASE Connect
      <3>1. g_config.macros \in Seq(Mapping) /\ Len(g_config.macros) <= MaxMacros
        BY DEF Inv, EditsOK, ConfigShape
      <3>2. QED BY <2>1, <3>1, FilledCount DEF Connect
    <2>2. CASE Disconnect
      BY <2>2, FS_EmptySet DEF Disconnect
    <2>3. QED BY <2>1, <2>2
  <1>4. EditsOK'
    BY <1>1, <1>3 DEF Inv, EditsOK, InRange
  <1>5. session' \in BOOLEAN /\ (session' => program' \in {"up", "ending"})
    <2>1. session \in BOOLEAN /\ (session => program \in {"up", "ending"})
      BY DEF Inv, OutsideOK
    <2>2. CASE Connect
      BY <1>1, <2>2 DEF Connect
    <2>3. CASE Disconnect
      BY <2>1, <2>3 DEF Disconnect, service
    <2>4. QED BY <2>2, <2>3
  <1>6. OutsideOK'
    BY <1>1, <1>2, <1>5 DEF Inv, OutsideOK
  <1>7. FileWritten' /\ ServiceTold' /\ NoEmptyCombination'
    BY <1>1, <1>2 DEF Inv, FileWritten, FileSaysWhatIsShown, ServiceTold, NoEmptyCombination
  <1>8. QED BY <1>4, <1>6, <1>7 DEF Inv

LEMMA ReopenStep ==
  ASSUME Inv, Reopen
  PROVE  Inv'
  <1>1. /\ g_config' = Load(file) /\ gui' = Main /\ spc = "idle" /\ spc' = "idle"
        /\ UNCHANGED <<broken, program, s_config, file, lapse>>
        /\ connected' = session' /\ connected' \in BOOLEAN /\ (session' => program = "up")
    BY DEF Reopen
  <1>2. file \in FileShape /\ Len(Lines(file)) <= MaxMacros
    BY DEF Inv, OutsideOK
  <1>3. /\ g_config' \in ConfigShape /\ Len(g_config'.macros) <= MaxMacros
        /\ g_config'.pad = file.pad
        /\ \A m, n \in DOMAIN g_config'.macros :
             g_config'.macros[m].id = g_config'.macros[n].id => m = n
    BY <1>1, <1>2, LoadType
  <1>4. /\ items' \subseteq [i: 1..MaxMacros, id: Ids] /\ IsFiniteSet(items')
        /\ Cardinality(items') = IF connected' THEN Len(g_config'.macros) ELSE 0
    <2>1. g_config'.macros \in Seq(Mapping)
      BY <1>3 DEF ConfigShape
    <2>2. CASE connected'
      <3>1. items' = FilledWith(g_config'.macros)
        BY <2>2 DEF Reopen
      <3>2. QED BY <1>3, <2>1, <2>2, <3>1, FilledCount
    <2>3. CASE ~connected'
      <3>1. items' = {}
        BY <2>3 DEF Reopen
      <3>2. QED BY <2>3, <3>1, FS_EmptySet
    <2>4. QED BY <2>2, <2>3
  <1>5. EditsOK'
    BY <1>1, <1>3, <1>4 DEF EditsOK
  <1>6. Lines(file') = Lines(file) /\ ServiceView(file') = ServiceView(file)
    BY <1>1
  <1>7. OutsideOK'
    BY <1>1, <1>6 DEF Inv, OutsideOK
  <1>8. FileWritten'
    <2> SUFFICES ASSUME "unsaved" \notin lapse
                 PROVE  file.pad = g_config'.pad /\ Lines(file) = Saved(g_config'.macros)
      BY <1>1, <1>6 DEF Inv, FileWritten, FileSaysWhatIsShown
    <2>1. Lines(file) = Saved(g_config.macros)
      BY <1>1 DEF Inv, FileWritten, FileSaysWhatIsShown
    <2>2. Lines(file) \in Seq(Complete)
      BY <2>1, SavedFile DEF Inv
    <2>3. QED BY <1>1, <1>2, <1>3, <2>2, LoadSaved
  <1>9. ServiceTold' /\ NoEmptyCombination'
    BY <1>1, <1>6 DEF Inv, ServiceTold, NoEmptyCombination
  <1>10. QED BY <1>5, <1>7, <1>8, <1>9 DEF Inv

(* saveConfig, one step at a time.                                         *)
LEMMA GiveUpStep ==
  ASSUME Inv, GiveUpWriting \/ GiveUpResizing
  PROVE  Inv'
  <1>1. /\ spc' = "idle" /\ gui' = Main /\ "unsaved" \in lapse' /\ lapse' \subseteq {"unsaved", "untold", "uncut"}
        /\ lapse \subseteq lapse'
        /\ UNCHANGED <<g_config, items, connected, broken, session, program, s_config, file>>
    BY DEF GiveUpWriting, GiveUpResizing, service, Inv, OutsideOK
  <1>2. Lines(file') = Lines(file) /\ ServiceView(file') = ServiceView(file)
    BY <1>1
  <1>3. EditsOK'
    BY <1>1 DEF Inv, EditsOK
  <1>4. OutsideOK'
    BY <1>1, <1>2 DEF Inv, OutsideOK
  <1>5. FileWritten' /\ NoEmptyCombination'
    BY <1>1 DEF Inv, FileWritten, FileSaysWhatIsShown, NoEmptyCombination
  <1>6. ServiceTold'
    <2>1. CASE GiveUpWriting
      BY <1>1, <1>2, <2>1 DEF GiveUpWriting, Inv, ServiceTold
    <2>2. CASE GiveUpResizing
      BY <2>2 DEF GiveUpResizing, ServiceTold
    <2>3. QED BY <2>1, <2>2
  <1>7. QED BY <1>3, <1>4, <1>5, <1>6 DEF Inv

LEMMA WriteStep ==
  ASSUME Inv, WriteFile \/ ResizeFile
  PROVE  Inv'
  <1>1. /\ UNCHANGED <<g_config, items, gui, connected, broken, session, program, s_config, lapse>>
        /\ spc' \in {"resize", "notify"}
    BY DEF WriteFile, ResizeFile, service
  <1>2. EditsOK'
    BY <1>1 DEF Inv, EditsOK, InRange
  <1>3. g_config.macros \in Seq(Mapping) /\ g_config.pad \in Pads
        /\ file \in FileShape /\ Len(Lines(file)) <= MaxMacros
    BY DEF Inv, EditsOK, OutsideOK, ConfigShape
  <1>4. /\ file' \in FileShape /\ Len(Lines(file')) <= MaxMacros
        /\ file'.pad = g_config.pad /\ file'.macros = Saved(g_config.macros)
        /\ (spc' = "notify" => file'.tail = <<>>)
    <2>1. CASE WriteFile
      <3>1. PICK tail \in Tails(Lines(file)) :
              /\ Len(Saved(g_config.macros)) + Len(tail) <= MaxMacros
              /\ file' = [pad |-> g_config.pad, macros |-> Saved(g_config.macros),
                          tail |-> tail]
        BY <2>1 DEF WriteFile
      <3>2. Lines(file) \in Seq(Line)
        BY <1>3 DEF Lines, FileShape
      <3>3. tail \in Seq(Line) /\ Saved(g_config.macros) \in Seq(Line)
        BY <1>3, <3>2, TailsType, SavedType
      <3>4. file'.macros = Saved(g_config.macros) /\ file'.tail = tail
            /\ file'.pad = g_config.pad /\ file' \in FileShape
        BY <1>3, <3>1, <3>3 DEF FileShape
      <3>5. Lines(file') = Saved(g_config.macros) \o tail
        BY <3>4 DEF Lines
      <3>6. Len(Lines(file')) = Len(Saved(g_config.macros)) + Len(tail)
        BY <3>3, <3>5, ConcatProperties
      <3>7. spc' = "resize"
        BY <2>1 DEF WriteFile
      <3>8. QED BY <3>1, <3>4, <3>6, <3>7
    <2>2. CASE ResizeFile
      <3>1. file' = [file EXCEPT !.tail = <<>>] /\ spc = "resize"
        BY <2>2 DEF ResizeFile, CutTail
      <3>2. file.pad = g_config.pad /\ file.macros = Saved(g_config.macros)
        BY <3>1 DEF Inv, FileWritten
      <3>3. /\ file' \in FileShape /\ file'.tail = <<>> /\ file'.pad = file.pad
            /\ file'.macros = file.macros
        BY <1>3, <3>1, EmptySeq DEF FileShape
      <3>4. Len(Lines(file')) <= MaxMacros
        <4>1. file.macros \in Seq(Line) /\ file.tail \in Seq(Line)
          BY <1>3 DEF FileShape
        <4>2. Len(file.macros \o file.tail) <= MaxMacros
          BY <1>3 DEF Lines
        <4>3. Len(file.macros) <= MaxMacros /\ file.macros \o <<>> = file.macros
          <5> DEFINE a == file.macros
                     b == file.tail
          <5>1. Len(a \o b) = Len(a) + Len(b) /\ Len(a) \in Nat /\ Len(b) \in Nat /\ a \o <<>> = a
            BY <4>1, ConcatProperties, ConcatEmptySeq, LenProperties
          <5>2. MaxMacros \in Nat
            BY OverlayAssumption DEF OverlayAssumption
          <5> HIDE DEF a, b
          <5>3. Len(a \o b) <= MaxMacros => Len(a) <= MaxMacros
            BY <5>1, <5>2
          <5>4. QED BY <4>2, <5>1, <5>3 DEF a, b
        <4>4. QED BY <3>3, <4>3 DEF Lines
      <3>5. QED BY <3>2, <3>3, <3>4
    <2>3. QED BY <2>1, <2>2
  <1>5. OutsideOK'
    BY <1>1, <1>4 DEF Inv, OutsideOK
  <1>6. file'.macros \in Seq(Complete)
    BY <1>3, <1>4, SavedType
  <1>7. FileWritten' /\ ServiceTold' /\ NoEmptyCombination'
    BY <1>1, <1>4, <1>6
       DEF Inv, FileWritten, FileSaysWhatIsShown, ServiceTold, NoEmptyCombination
  <1>8. QED BY <1>2, <1>5, <1>7 DEF Inv

LEMMA NotifyStep ==
  ASSUME Inv, Notify
  PROVE  Inv'
  <1>1. /\ spc = "notify" /\ spc' = "idle" /\ gui' = Main
        /\ UNCHANGED <<g_config, items, connected, broken, session, program, file>>
        /\ (s_config' = ServiceView(file) /\ lapse' = {})
           \/ (s_config' = s_config /\ lapse' = (lapse \ {"unsaved"}) \cup {"untold"})
    BY DEF Notify, Reload
  <1>2. Lines(file') = Lines(file) /\ ServiceView(file') = ServiceView(file)
        /\ Saved(g_config.macros)' = Saved(g_config.macros)
    BY <1>1
  <1>3. file.pad = g_config.pad /\ Lines(file) = Saved(g_config.macros)
    <2>1. file.pad = g_config.pad /\ file.macros = Saved(g_config.macros) /\ file.tail = <<>>
      BY <1>1 DEF Inv, FileWritten
    <2>2. file.macros \in Seq(Line)
      BY DEF Inv, OutsideOK, FileShape
    <2>3. file.macros \o <<>> = file.macros
      BY <2>2
    <2>4. QED BY <2>1, <2>3 DEF Lines
  <1>4. EditsOK'
    BY <1>1 DEF Inv, EditsOK
  <1>5. ServiceView(file) \in ServiceShape
        /\ \A n \in DOMAIN ServiceView(file).macros : ServiceView(file).macros[n].key_mask # Zero
    BY <1>3, SavedFile DEF Inv
  <1>6. OutsideOK'
    BY <1>1, <1>2, <1>5 DEF Inv, OutsideOK
  <1>7. FileWritten'
    BY <1>1, <1>2, <1>3 DEF Inv, FileWritten, FileSaysWhatIsShown
  <1>8. ServiceTold' /\ NoEmptyCombination'
    BY <1>1, <1>2, <1>5 DEF Inv, ServiceTold, NoEmptyCombination
  <1>9. QED BY <1>4, <1>6, <1>7, <1>8 DEF Inv

-----------------------------------------------------------------------------
(* Editing                                                                 *)

(* An edit that saves: the file and the service are as before, and what    *)
(* the overlay shows is not what they have until the save is over.         *)
LEMMA EditKeeps ==
  ASSUME Inv, EditsOK', spc = "idle", spc' = "write",
         UNCHANGED <<broken, session, program, s_config, file, lapse>>
  PROVE  Inv'
  <1>1. Lines(file') = Lines(file) /\ ServiceView(file') = ServiceView(file)
    OBVIOUS
  <1>2. OutsideOK'
    BY <1>1 DEF Inv, OutsideOK
  <1>3. FileWritten' /\ NoEmptyCombination'
    BY DEF Inv, FileWritten, FileSaysWhatIsShown, NoEmptyCombination
  <1>4. ServiceTold'
    BY <1>1 DEF Inv, ServiceTold
  <1>5. QED BY <1>2, <1>3, <1>4 DEF Inv

(* One that does not: what would be saved is what was saved.               *)
LEMMA NoSaveKeeps ==
  ASSUME Inv, EditsOK', spc = "idle", spc' = "idle", broken' \in BOOLEAN,
         Saved(g_config'.macros) = Saved(g_config.macros), g_config'.pad = g_config.pad,
         UNCHANGED <<session, program, s_config, file, lapse>>
  PROVE  Inv'
  <1>1. Lines(file') = Lines(file) /\ ServiceView(file') = ServiceView(file)
    OBVIOUS
  <1>2. OutsideOK'
    BY <1>1 DEF Inv, OutsideOK
  <1>3. FileWritten'
    BY <1>1 DEF Inv, FileWritten, FileSaysWhatIsShown
  <1>4. ServiceTold' /\ NoEmptyCombination'
    BY <1>1 DEF Inv, ServiceTold, NoEmptyCombination
  <1>5. QED BY <1>2, <1>3, <1>4 DEF Inv

LEMMA EditPadStep ==
  ASSUME Inv, NEW pad \in Pads, EditPad(pad)
  PROVE  Inv'
  <1>1. g_config' = [g_config EXCEPT !.pad = pad] /\ UNCHANGED <<items, gui, connected>>
        /\ spc = "idle" /\ spc' = "write"
        /\ UNCHANGED <<broken, session, program, s_config, file, lapse>>
    BY DEF EditPad, Clickable, service
  <1>2. g_config' \in ConfigShape /\ g_config'.macros = g_config.macros
    BY <1>1 DEF Inv, EditsOK, ConfigShape
  <1>3. EditsOK'
    BY <1>1, <1>2 DEF Inv, EditsOK, InRange
  <1>4. QED BY <1>1, <1>3, EditKeeps

(* A new mapping has an identity of its own, and its item its index.       *)
LEMMA AddMappingStep ==
  ASSUME Inv, AddMapping
  PROVE  Inv'
  <1> DEFINE m == [id |-> FreshId, key_mask |-> Zero, file_path |-> NoPath]
             ms == g_config.macros
             item == [i |-> Len(ms) + 1, id |-> FreshId]
  <1>1. /\ spc = "idle" /\ gui = Main /\ connected /\ Len(ms) < MaxMacros
        /\ g_config' = [g_config EXCEPT !.macros = Append(ms, m)]
        /\ items' = items \cup {[i |-> Len(g_config'.macros), id |-> FreshId]}
        /\ UNCHANGED <<gui, spc, connected, broken, session, program, s_config, file, lapse>>
    BY DEF AddMapping, Clickable, NewIndex, service
  <1>2. /\ FreshId \in Ids
        /\ \A n \in DOMAIN ms : ms[n].id # FreshId
        /\ \A it \in items : it.id # FreshId
    BY <1>1, FreshExists DEF Inv
  <1>3. ms \in Seq(Mapping) /\ Len(ms) \in Nat /\ DOMAIN ms = 1..Len(ms) /\ m \in Mapping
    BY <1>2, LenProperties DEF Inv, EditsOK, ConfigShape, Mapping
  <1>4. m.id = FreshId /\ m.key_mask = Zero
    OBVIOUS
  <1> HIDE DEF m, FreshId
  <1>5. /\ g_config' \in ConfigShape /\ g_config'.macros = Append(ms, m)
        /\ g_config'.pad = g_config.pad
    <2>1. Append(ms, m) \in Seq(Mapping)
      BY <1>3, AppendProperties
    <2>2. g_config \in ConfigShape
      BY DEF Inv, EditsOK
    <2> HIDE DEF ms
    <2>3. QED BY <1>1, <2>1, <2>2 DEF ConfigShape
  <1> HIDE DEF ms
  <1>6. /\ Len(Append(ms, m)) = Len(ms) + 1 /\ Append(ms, m)[Len(ms) + 1] = m
        /\ DOMAIN Append(ms, m) = 1..(Len(ms) + 1)
        /\ \A n \in 1..Len(ms) : Append(ms, m)[n] = ms[n]
    BY <1>3
  <1>7. Len(g_config'.macros) = Len(ms) + 1 /\ Len(ms) + 1 <= MaxMacros /\ MaxMacros \in Nat
    BY <1>1, <1>3, <1>5, <1>6, OverlayAssumption DEF OverlayAssumption
  <1>8. \A a, b \in DOMAIN g_config'.macros :
          g_config'.macros[a].id = g_config'.macros[b].id => a = b
    <2>1. \A a, b \in 1..Len(ms) : ms[a].id = ms[b].id => a = b
      BY <1>3 DEF Inv, EditsOK, ms
    <2> SUFFICES ASSUME NEW a \in 1..(Len(ms) + 1), NEW b \in 1..(Len(ms) + 1),
                        Append(ms, m)[a].id = Append(ms, m)[b].id
                 PROVE  a = b
      BY <1>5, <1>6
    <2>2. \A n \in 1..(Len(ms) + 1) : n = Len(ms) + 1 \/ n \in 1..Len(ms)
      BY <1>3
    <2>3. QED BY <2>1, <2>2, <1>2, <1>3, <1>4, <1>6
  <1>9. items' = items \cup {item} /\ item \notin items /\ item \in [i: 1..MaxMacros, id: Ids]
    BY <1>1, <1>2, <1>3, <1>7
  <1> HIDE DEF item
  <1>10. /\ items' \subseteq [i: 1..MaxMacros, id: Ids] /\ IsFiniteSet(items')
         /\ Cardinality(items') = Len(ms) + 1
    <2>1. IsFiniteSet(items) /\ Cardinality(items) = Len(ms)
          /\ items \subseteq [i: 1..MaxMacros, id: Ids]
      BY <1>1 DEF Inv, EditsOK, ms
    <2>2. QED BY <1>9, <2>1, FS_AddElement
  <1>11. EditsOK'
    BY <1>1, <1>5, <1>7, <1>8, <1>10 DEF EditsOK
  <1>12. Saved(g_config'.macros) = Saved(g_config.macros)
    BY <1>3, <1>4, <1>5, SavedAppend DEF ms
  <1>13. QED BY <1>1, <1>5, <1>11, <1>12, NoSaveKeeps DEF Inv, OutsideOK

LEMMA OpenEditorStep ==
  ASSUME Inv, NEW item \in items, UsePastEnd(item) \/ \E view \in {"combo", "file"} : OpenEditor(item, view)
  PROVE  Inv'
  <1>1. /\ spc = "idle" /\ broken' \in BOOLEAN
        /\ UNCHANGED <<g_config, items, spc, connected, session, program, s_config, file, lapse>>
    BY DEF UsePastEnd, OpenEditor, Clickable, service, Inv, OutsideOK
  <1>2. gui' = gui \/ (gui'.view \in {"combo", "file"} /\ InRange(gui'.i))
    BY DEF UsePastEnd, OpenEditor
  <1>3. EditsOK'
    BY <1>1, <1>2 DEF Inv, EditsOK, InRange
  <1>4. QED BY <1>1, <1>3, NoSaveKeeps

LEMMA GoBackStep ==
  ASSUME Inv, GoBack
  PROVE  Inv'
  <1>1. EditsOK'
    BY DEF GoBack, Inv, EditsOK
  <1>2. QED BY <1>1, NoSaveKeeps DEF GoBack, Inv, OutsideOK, service

(* One mapping less.                                                       *)
LEMMA Removed ==
  ASSUME NEW S, NEW seq \in Seq(S), NEW i \in 1..Len(seq)
  PROVE  /\ RemoveAt(seq, i) \in Seq(S) /\ Len(RemoveAt(seq, i)) = Len(seq) - 1
         /\ DOMAIN RemoveAt(seq, i) = 1..(Len(seq) - 1) /\ Len(seq) \in Nat
         /\ \A n \in 1..(Len(seq) - 1) :
              RemoveAt(seq, i)[n] = seq[IF n < i THEN n ELSE n + 1]
  <1> DEFINE a == SubSeq(seq, 1, i - 1)
             b == SubSeq(seq, i + 1, Len(seq))
  <1>1. Len(seq) \in Nat /\ i \in Nat
    OBVIOUS
  <1>2. a \in Seq(S) /\ Len(a) = i - 1 /\ \A n \in 1..(i - 1) : a[n] = seq[n]
    OBVIOUS
  <1>3. b \in Seq(S) /\ Len(b) = Len(seq) - i
        /\ \A n \in 1..(Len(seq) - i) : b[n] = seq[i + n]
    OBVIOUS
  <1> HIDE DEF a, b
  <1>4. a \o b \in Seq(S) /\ Len(a \o b) = Len(seq) - 1
    <2>1. a \o b \in Seq(S) /\ Len(a \o b) = Len(a) + Len(b)
      BY <1>2, <1>3, ConcatProperties
    <2>2. QED BY <1>1, <1>2, <1>3, <2>1
  <1>5. \A n \in 1..(Len(seq) - 1) : (a \o b)[n] = seq[IF n < i THEN n ELSE n + 1]
    <2> TAKE n \in 1..(Len(seq) - 1)
    <2>1. CASE n < i
      <3>1. n \in 1..Len(a)
        BY <1>1, <1>2, <2>1
      <3>2. (a \o b)[n] = a[n]
        BY <1>2, <1>3, <3>1
      <3>3. QED BY <1>2, <2>1, <3>1, <3>2
    <2>2. CASE ~(n < i)
      <3>1. n - Len(a) \in 1..(Len(seq) - i) /\ n > Len(a) /\ n <= Len(a) + Len(b)
            /\ i + (n - Len(a)) = n + 1
        BY <1>1, <1>2, <1>3, <2>2
      <3>2. (a \o b)[n] = b[n - Len(a)]
        BY <1>2, <1>3, <3>1
      <3>3. QED BY <1>3, <2>2, <3>1, <3>2
    <2>3. QED BY <2>1, <2>2
  <1>6. DOMAIN (a \o b) = 1..(Len(seq) - 1)
    BY <1>4, LenProperties
  <1>7. RemoveAt(seq, i) = a \o b
    BY DEF RemoveAt, a, b
  <1>8. QED BY <1>1, <1>4, <1>5, <1>6, <1>7

LEMMA DeleteMappingStep ==
  ASSUME Inv, NEW item \in items, DeleteMapping(item)
  PROVE  Inv'
  <1> DEFINE ms == g_config.macros
             new == RemoveAt(ms, item.i)
  <1>1. /\ spc = "idle" /\ spc' = "write" /\ gui = Main /\ gui' = Main /\ connected
        /\ item.i \in DOMAIN ms
        /\ g_config' = [g_config EXCEPT !.macros = new] /\ items' = items \ {item}
        /\ UNCHANGED <<connected, broken, session, program, s_config, file, lapse>>
    BY DEF DeleteMapping, Clickable, InRange, service
  <1>2. g_config \in ConfigShape /\ ms \in Seq(Mapping) /\ DOMAIN ms = 1..Len(ms)
        /\ Len(ms) <= MaxMacros
    BY LenProperties DEF Inv, EditsOK, ConfigShape
  <1>3. /\ new \in Seq(Mapping) /\ Len(new) = Len(ms) - 1 /\ Len(ms) \in Nat
        /\ DOMAIN new = 1..(Len(ms) - 1)
        /\ \A n \in 1..(Len(ms) - 1) : new[n] = ms[IF n < item.i THEN n ELSE n + 1]
    BY <1>1, <1>2, Removed
  <1>4. \A a, b \in 1..Len(ms) : ms[a].id = ms[b].id => a = b
    BY <1>2 DEF Inv, EditsOK
  <1>5. IsFiniteSet(items) /\ Cardinality(items) = Len(ms)
        /\ items \subseteq [i: 1..MaxMacros, id: Ids]
    BY <1>1 DEF Inv, EditsOK
  <1>6. g_config' \in ConfigShape /\ g_config'.macros = new
    <2> HIDE DEF new, ms
    <2>1. QED BY <1>1, <1>2, <1>3 DEF ConfigShape
  <1> HIDE DEF new, ms
  <1>7. Len(new) <= MaxMacros
    BY <1>2, <1>3, OverlayAssumption DEF OverlayAssumption
  <1>8. \A a, b \in DOMAIN new : new[a].id = new[b].id => a = b
    <2> SUFFICES ASSUME NEW a \in 1..(Len(ms) - 1), NEW b \in 1..(Len(ms) - 1),
                        new[a].id = new[b].id
                 PROVE  a = b
      BY <1>3
    <2> DEFINE old(n) == IF n < item.i THEN n ELSE n + 1
    <2>1. old(a) \in 1..Len(ms) /\ old(b) \in 1..Len(ms)
      BY <1>3
    <2>2. new[a] = ms[old(a)] /\ new[b] = ms[old(b)]
      BY <1>3
    <2>3. old(a) = old(b)
      <3> HIDE DEF old
      <3>1. QED BY <1>4, <2>1, <2>2
    <2>4. item.i \in Nat
      BY <1>1, <1>2, <1>3
    <2>5. QED BY <2>3, <2>4
  <1>9. items' \subseteq [i: 1..MaxMacros, id: Ids] /\ IsFiniteSet(items')
        /\ Cardinality(items') = Len(new)
    BY <1>1, <1>3, <1>5, FS_RemoveElement
  <1>10. EditsOK'
    BY <1>1, <1>6, <1>7, <1>8, <1>9 DEF EditsOK, Inv
  <1>11. QED BY <1>1, <1>10, EditKeeps

(* The editors change one mapping, which keeps its identity.               *)
LEMMA SetMappingStep ==
  ASSUME Inv, (\E mask \in Masks \cup {Zero} : SetCombination(mask)) \/ \E path \in Paths : PickFile(path)
  PROVE  Inv'
  <1> DEFINE ms == g_config.macros
  <1>1. /\ spc = "idle" /\ spc' = "write" /\ gui.view \in {"combo", "file"}
        /\ UNCHANGED <<items, gui, connected, broken, session, program, s_config, file, lapse>>
    BY DEF SetCombination, PickFile, service
  <1>2. g_config \in ConfigShape /\ ms \in Seq(Mapping) /\ DOMAIN ms = 1..Len(ms)
        /\ gui.i \in 1..Len(ms)
    <2>1. g_config \in ConfigShape /\ ms \in Seq(Mapping) /\ DOMAIN ms = 1..Len(ms)
      BY LenProperties DEF Inv, EditsOK, ConfigShape
    <2>2. gui # Main
      BY <1>1 DEF Main
    <2>3. QED BY <2>1, <2>2 DEF Inv, EditsOK, InRange
  <1>3. ms[gui.i] \in Mapping
    BY <1>2, ElementOfSeq
  <1>4. PICK m \in Mapping : m.id = ms[gui.i].id
                             /\ g_config' = [g_config EXCEPT !.macros = [ms EXCEPT ![gui.i] = m]]
    <2>1. ASSUME NEW mask \in Masks \cup {Zero}, SetCombination(mask)
          PROVE  \E m \in Mapping : m.id = ms[gui.i].id
                             /\ g_config' = [g_config EXCEPT !.macros = [ms EXCEPT ![gui.i] = m]]
      <3> DEFINE m == [ms[gui.i] EXCEPT !.key_mask = mask]
      <3>1. m \in Mapping /\ m.id = ms[gui.i].id
        BY <1>3 DEF Mapping
      <3>2. g_config' = [g_config EXCEPT !.macros = [ms EXCEPT ![gui.i] = m]]
        BY <2>1, Zenon DEF SetCombination
      <3> HIDE DEF m
      <3>3. QED BY <3>1, <3>2
    <2>2. ASSUME NEW path \in Paths, PickFile(path)
          PROVE  \E m \in Mapping : m.id = ms[gui.i].id
                             /\ g_config' = [g_config EXCEPT !.macros = [ms EXCEPT ![gui.i] = m]]
      <3> DEFINE m == [ms[gui.i] EXCEPT !.file_path = path]
      <3>1. m \in Mapping /\ m.id = ms[gui.i].id
        BY <1>3 DEF Mapping
      <3>2. g_config' = [g_config EXCEPT !.macros = [ms EXCEPT ![gui.i] = m]]
        BY <2>2, Zenon DEF PickFile
      <3> HIDE DEF m
      <3>3. QED BY <3>1, <3>2
    <2>3. QED BY <2>1, <2>2
  <1> DEFINE new == [ms EXCEPT ![gui.i] = m]
  <1>5. new \in Seq(Mapping) /\ Len(new) = Len(ms) /\ DOMAIN new = DOMAIN ms
        /\ \A n \in DOMAIN ms : new[n].id = ms[n].id
    <2>1. new \in Seq(Mapping) /\ Len(new) = Len(ms) /\ DOMAIN new = DOMAIN ms
      BY <1>2, ExceptSeq
    <2>2. \A n \in DOMAIN ms : new[n] = IF n = gui.i THEN m ELSE ms[n]
      OBVIOUS
    <2> HIDE DEF new
    <2>3. QED BY <1>4, <2>1, <2>2
  <1>6. g_config' \in ConfigShape /\ g_config'.macros = new
    <2> HIDE DEF new
    <2>1. QED BY <1>2, <1>4, <1>5 DEF ConfigShape, new
  <1> HIDE DEF new
  <1>7. EditsOK'
    BY <1>1, <1>5, <1>6 DEF Inv, EditsOK, InRange
  <1>8. QED BY <1>1, <1>7, EditKeeps

-----------------------------------------------------------------------------
(* The theorems.                                                           *)

LEMMA InvInit == Init => Inv
  <1> SUFFICES ASSUME Init PROVE Inv
    OBVIOUS
  <1>1. PICK pad \in Pads : file = [pad |-> pad, macros |-> <<>>, tail |-> <<>>]
    BY DEF Init
  <1>2. file \in FileShape /\ Lines(file) = <<>> /\ Len(Lines(file)) <= MaxMacros
    <2>1. <<>> \in Seq(Line) /\ <<>> \o <<>> = <<>> /\ Len(<<>>) = 0
      OBVIOUS
    <2>2. QED BY <1>1, <2>1, OverlayAssumption DEF FileShape, Lines, OverlayAssumption
  <1>3. Lines(file) \in Seq(Complete)
    BY <1>2, EmptySeq
  <1>4. /\ g_config = Load(file) /\ items = {} /\ gui = Main /\ spc = "idle"
        /\ connected = FALSE /\ session = FALSE /\ broken = FALSE
        /\ program = "down" /\ s_config = ServiceView(file) /\ lapse = {}
    BY DEF Init
  <1>5. EditsOK
    <2>1. g_config \in ConfigShape /\ Len(g_config.macros) <= MaxMacros
          /\ \A m, n \in DOMAIN g_config.macros :
               g_config.macros[m].id = g_config.macros[n].id => m = n
      BY <1>2, <1>4, LoadType
    <2>2. QED BY <1>4, <2>1, FS_EmptySet DEF EditsOK
  <1>6. OutsideOK
    BY <1>2, <1>4, ViewType DEF OutsideOK
  <1>7. FileSaysWhatIsShown
    BY <1>2, <1>3, <1>4, LoadType, LoadSaved DEF FileSaysWhatIsShown
  <1>8. FileWritten /\ ServiceTold
    BY <1>1, <1>4, <1>7, EmptySeq DEF FileWritten, ServiceTold
  <1>9. NoEmptyCombination
    BY <1>2, <1>3, <1>4, ViewType DEF NoEmptyCombination
  <1>10. QED BY <1>5, <1>6, <1>8, <1>9 DEF Inv

LEMMA InvStep == Inv /\ [Next]_vars => Inv'
  <1> SUFFICES ASSUME Inv, [Next]_vars PROVE Inv'
    OBVIOUS
  <1>1. CASE ProgramStep \/ Connect \/ Disconnect \/ Reopen \/ GoBack
    BY <1>1, ProgramStepKeeps, ConnectStep, ReopenStep, GoBackStep
  <1>2. CASE SaveStep
    BY <1>2, GiveUpStep, WriteStep, NotifyStep DEF SaveStep
  <1>3. CASE EditStep
    BY <1>3, EditPadStep, AddMappingStep, OpenEditorStep, DeleteMappingStep, SetMappingStep
       DEF EditStep
  <1>4. CASE UNCHANGED vars
    <2> USE <1>4 DEF vars, overlay, service
    <2>1. EditsOK' /\ OutsideOK'
      BY Zenon DEF Inv, EditsOK, OutsideOK, InRange, Lines
    <2>2. FileWritten' /\ ServiceTold' /\ NoEmptyCombination'
      BY Zenon DEF Inv, FileWritten, FileSaysWhatIsShown, Lines, ServiceTold, ServiceView,
         NoEmptyCombination
    <2>3. QED BY <2>1, <2>2 DEF Inv
  <1>5. QED BY <1>1, <1>2, <1>3, <1>4 DEF Next

(* The inductive invariant holds in every behaviour.                       *)
THEOREM InvHolds == Spec => []Inv
  BY InvInit, InvStep, PTL DEF Spec

(* The list has an item for each mapping and an editor the address of one, *)
(* whatever is added, deleted and reopened (main.cpp:377-434).             *)
THEOREM TypeCorrect == Spec => []TypeOK
  BY InvHolds, TypeFollows, PTL

(* The file says what is shown whenever no save is under way or was given  *)
(* up, and nothing of an older text is left in it (config.hpp:195-230).    *)
THEOREM FileIsFaithful == Spec => []FileSaysWhatIsShown
  <1>1. Inv => FileSaysWhatIsShown
    BY DEF Inv, FileWritten
  <1>2. QED BY <1>1, InvHolds, PTL

(* The running service has loaded what the file says unless it missed a    *)
(* notice, over any restarts of the two processes (config.hpp:231-238).    *)
THEOREM ServiceIsUpToDate == Spec => []ServiceFollowsFile
  <1>1. Inv => ServiceFollowsFile
    BY DEF Inv, ServiceTold, ServiceFollowsFile
  <1>2. QED BY <1>1, InvHolds, PTL

(* The service has no mapping without a combination, unless it was started *)
(* on a text whose tail was not cut off and has loaded nothing since:      *)
(* neither a half-made mapping in the overlay nor a dead session gives it  *)
(* one (config.hpp:212).                                                   *)
THEOREM NoCombinationIsEmpty == Spec => []NoEmptyCombination
  <1>1. Inv => NoEmptyCombination
    BY DEF Inv
  <1>2. QED BY <1>1, InvHolds, PTL
================================================================================
