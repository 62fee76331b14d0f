------------------------- MODULE TransDatabaseProofs -------------------------
(* Theorems about TransDatabase, for any archives, tables and translations.   *)
EXTENDS TransDatabase, FiniteSetTheorems, SequenceTheorems, WellFoundedInduction, TLAPS

-----------------------------------------------------------------------------
(* Row ids: there is always a new one.                                        *)

LEMMA Smallest ==
    ASSUME NEW S, S \subseteq Nat, S # {}
    PROVE  \E m \in S : \A n \in S : m <= n
<1>. DEFINE Less == {ss \in Nat \X Nat : ss[1] < ss[2]}
<1>1. IsWellFoundedOn(Less, Nat)
  BY NatLessThanWellFounded, Zenon DEF OpToRel
<1>2. \A m, n \in Nat : n < m => <<n, m>> \in Less
  OBVIOUS
<1>. HIDE DEF Less
<1>3. PICK m \in S : \A n \in S : ~(<<n, m>> \in Less)
  BY <1>1, WFMin
<1>4. ASSUME NEW n \in S PROVE m <= n
  <2>1. m \in Nat /\ n \in Nat
    OBVIOUS
  <2>2. ~(n < m)
    BY <1>2, <1>3, <2>1
  <2>. QED  BY <2>1, <2>2
<1>. QED  BY <1>4

\* A finite set of numbers is bounded: a smallest one that is not would have a
\* bounded part to which one number is added.
LEMMA FiniteIsBounded ==
    ASSUME NEW D, D \subseteq Nat, IsFiniteSet(D)
    PROVE  \E b \in Nat : \A d \in D : d < b
<1>. DEFINE Bounded(S) == \E b \in Nat : \A d \in S : d < b
            Sizes == {n \in Nat : \E S \in SUBSET Nat : IsFiniteSet(S) /\ Cardinality(S) = n /\ ~Bounded(S)}
<1>. SUFFICES ASSUME ~Bounded(D) PROVE FALSE
  OBVIOUS
<1>1. Cardinality(D) \in Sizes
  BY FS_CardinalityType
<1>2. PICK n \in Sizes : \A m \in Sizes : n <= m
  <2>. HIDE DEF Sizes
  <2>1. Sizes \subseteq Nat
    BY DEF Sizes
  <2>. QED  BY <1>1, <2>1, Smallest
<1>3. PICK S \in SUBSET Nat : IsFiniteSet(S) /\ Cardinality(S) = n /\ ~Bounded(S)
  BY <1>2
<1>4. S # {}
  <2>1. Bounded({})
    OBVIOUS
  <2>. QED  BY <1>3, <2>1
<1>5. PICK x \in S : TRUE
  BY <1>4
<1>6. IsFiniteSet(S \ {x}) /\ Cardinality(S \ {x}) = n - 1
  BY <1>3, <1>5, FS_RemoveElement
<1>7. n - 1 \in Nat
  BY <1>6, FS_CardinalityType
<1>8. Bounded(S \ {x})
  <2>. SUFFICES ASSUME ~Bounded(S \ {x}) PROVE FALSE
    OBVIOUS
  <2>1. n - 1 \in Sizes
    <3>1. S \ {x} \in SUBSET Nat
      OBVIOUS
    <3>. HIDE DEF Bounded
    <3>. QED  BY <1>6, <1>7, <3>1
  <2>. QED  BY <1>2, <1>7, <2>1
<1>9. PICK b \in Nat : \A d \in S \ {x} : d < b
  BY <1>8
<1>10. x \in Nat /\ b + x + 1 \in Nat
  BY <1>5
<1>11. \A d \in S : d < b + x + 1
  BY <1>9, <1>10
<1>12. Bounded(S)
  BY <1>10, <1>11
<1>. QED  BY <1>3, <1>12

LEMMA NewIdFacts ==
    ASSUME NEW table, IsTable(table)
    PROVE  /\ NewId(table) \in Nat \ {0} /\ NewId(table) \notin DOMAIN table
           /\ \A i \in DOMAIN table : i < NewId(table)
<1>. DEFINE D == DOMAIN table
            Bounds == {n \in Nat : \A d \in D : d <= n}
<1>0. D \subseteq Nat \ {0} /\ IsFiniteSet(D)
  BY DEF IsTable
<1>. HIDE DEF D
<1>1. \E n \in {1} \cup {i + 1 : i \in D} : \A i \in D : i < n
  <2>1. CASE D = {}
    BY <2>1
  <2>2. CASE D # {}
    <3>1. Bounds # {}
      <4>1. PICK b \in Nat : \A d \in D : d < b
        BY <1>0, FiniteIsBounded
      <4>. QED  BY <4>1, <1>0
    <3>2. PICK m \in Bounds : \A n \in Bounds : m <= n
      <4>1. Bounds \subseteq Nat
        OBVIOUS
      <4>. HIDE DEF Bounds
      <4>. QED  BY <3>1, <4>1, Smallest
    <3>3. m \in D
      <4>. SUFFICES ASSUME m \notin D PROVE FALSE
        OBVIOUS
      <4>1. \A d \in D : d < m
        BY <1>0, <3>2
      <4>2. m # 0
        <5>1. PICK d \in D : TRUE
          BY <2>2
        <5>2. d \in Nat /\ d < m /\ m \in Nat
          BY <1>0, <3>2, <4>1, <5>1
        <5>. QED  BY <5>2
      <4>3. m - 1 \in Bounds
        BY <4>1, <4>2, <1>0
      <4>. QED  BY <4>3, <3>2
    <3>. QED  BY <3>3, <1>0
  <2>. QED  BY <2>1, <2>2
<1>2. /\ NewId(table) \in {1} \cup {i + 1 : i \in D}
      /\ \A i \in D : i < NewId(table)
  <2>1. NewId(table) = CHOOSE n \in {1} \cup {i + 1 : i \in D} : \A i \in D : i < n
    BY DEF NewId, D
  <2>. QED  BY <1>1, <2>1
<1>. QED  BY <1>0, <1>2 DEF D

-----------------------------------------------------------------------------
(* Tables and queries.                                                        *)

LEMMA PutFacts ==
    ASSUME NEW table, NEW i, NEW row
    PROVE  /\ DOMAIN Put(table, i, row) = (DOMAIN table) \cup {i}
           /\ Put(table, i, row)[i] = row
           /\ \A j \in DOMAIN table : j # i => Put(table, i, row)[j] = table[j]
  BY DEF Put

LEMMA PutIsTable ==
    ASSUME NEW table, IsTable(table), NEW i \in Nat \ {0}, NEW row
    PROVE  IsTable(Put(table, i, row))
<1>1. DOMAIN Put(table, i, row) = (DOMAIN table) \cup {i}
  BY PutFacts
<1>2. IsFiniteSet((DOMAIN table) \cup {i})
  BY FS_AddElement DEF IsTable
<1>. QED  BY <1>1, <1>2 DEF IsTable

LEMMA KeepFacts ==
    ASSUME NEW table, NEW ids
    PROVE  /\ DOMAIN Keep(table, ids) = (DOMAIN table) \cap ids
           /\ \A i \in (DOMAIN table) \cap ids : Keep(table, ids)[i] = table[i]
  BY DEF Keep

LEMMA KeepIsTable ==
    ASSUME NEW table, IsTable(table), NEW ids
    PROVE  IsTable(Keep(table, ids))
<1>1. DOMAIN Keep(table, ids) = (DOMAIN table) \cap ids
  BY KeepFacts
<1>2. IsFiniteSet((DOMAIN table) \cap ids)
  BY FS_Intersection DEF IsTable
<1>. QED  BY <1>1, <1>2 DEF IsTable

\* A row is put in that is new, or is there.
MayPut(table, i, row) == i = NewId(table) \/ (i \in DOMAIN table /\ table[i] = row)
RowIsPut(table, i, row, new) ==
    /\ i \in Nat \ {0} /\ IsTable(new)
    /\ DOMAIN new = (DOMAIN table) \cup {i} /\ new[i] = row
    /\ \A j \in DOMAIN table : new[j] = table[j] /\ (IsFirst(new, j) <=> IsFirst(table, j))
    /\ (\A j \in DOMAIN table : table[j] # row) => IsFirst(new, i)

LEMMA RowPut ==
    ASSUME NEW table, IsTable(table), NEW i, NEW row, MayPut(table, i, row)
    PROVE  RowIsPut(table, i, row, Put(table, i, row))
<1>. DEFINE new == Put(table, i, row)
<1>0. i = NewId(table) \/ (i \in DOMAIN table /\ table[i] = row)
  BY DEF MayPut
<1>1. i \in Nat \ {0}
  BY <1>0, NewIdFacts DEF IsTable
<1>2. IsTable(new)
  BY <1>1, PutIsTable
<1>3. DOMAIN new = (DOMAIN table) \cup {i} /\ new[i] = row
  BY DEF Put
<1>4. \A j \in DOMAIN table : new[j] = table[j]
  <2>1. \A j \in DOMAIN table : j # i => new[j] = table[j]
    BY DEF Put
  <2>. HIDE DEF new
  <2>. QED  BY <1>0, <1>3, <2>1, NewIdFacts
<1>5. i \in DOMAIN table \/ \A j \in DOMAIN table : j <= i
  BY <1>0, <1>1, NewIdFacts DEF IsTable
<1>. HIDE DEF new
<1>6. ASSUME NEW j \in DOMAIN table PROVE IsFirst(new, j) <=> IsFirst(table, j)
  <2>1. CASE i \in DOMAIN table
    BY <1>3, <1>4, <2>1 DEF IsFirst
  <2>2. CASE \A k \in DOMAIN table : k <= i
    BY <1>3, <1>4, <2>2 DEF IsFirst
  <2>. QED  BY <1>5, <2>1, <2>2
<1>7. ASSUME \A j \in DOMAIN table : table[j] # row PROVE IsFirst(new, i)
  BY <1>1, <1>3, <1>4, <1>7 DEF IsFirst
<1>8. RowIsPut(table, i, row, new)
  BY <1>1, <1>2, <1>3, <1>4, <1>6, <1>7 DEF RowIsPut
<1>. QED  BY <1>8 DEF new

LEMMA OneFirst ==
    ASSUME NEW table, IsTable(table), NEW i \in DOMAIN table, NEW j \in DOMAIN table,
           table[i] = table[j], IsFirst(table, i), IsFirst(table, j)
    PROVE  i = j
<1>1. i \in Nat /\ j \in Nat
  BY DEF IsTable
<1>2. i <= j /\ j <= i
  BY DEF IsFirst
<1>. QED  BY <1>1, <1>2

LEMMA FoundFacts ==
    ASSUME NEW ids, ids \subseteq Nat \ {0}
    PROVE  /\ Found(ids) = 0 => ids = {}
           /\ Found(ids) # 0 => Found(ids) \in ids /\ \A i \in ids : Found(ids) <= i
           /\ Found(ids) \in Nat
<1>1. CASE ids = {}
  BY <1>1 DEF Found
<1>2. CASE ids # {}
  <2>1. \E m \in ids : \A n \in ids : m <= n
    BY <1>2, Smallest
  <2>2. Found(ids) \in ids /\ \A i \in ids : Found(ids) <= i
    BY <1>2, <2>1 DEF Found
  <2>. QED  BY <1>2, <2>2
<1>. QED  BY <1>1, <1>2

LEMMA ArchiveFound ==
    ASSUME NEW a, IsTable(archives)
    PROVE  /\ QueryArchive(a) \in Nat
           /\ QueryArchive(a) # 0 => /\ QueryArchive(a) \in DOMAIN archives
                                     /\ archives[QueryArchive(a)] = a
           /\ QueryArchive(a) = 0 => \A i \in DOMAIN archives : archives[i] # a
<1>. DEFINE ids == {i \in DOMAIN archives : archives[i] = a}
<1>1. ids \subseteq Nat \ {0}
  BY DEF IsTable
<1>. QED  BY <1>1, FoundFacts DEF QueryArchive

LEMMA FileFound ==
    ASSUME NEW a, NEW f, IsTable(files)
    PROVE  /\ QueryFile(a, f) \in Nat
           /\ QueryFile(a, f) # 0 => /\ QueryFile(a, f) \in DOMAIN files
                                     /\ files[QueryFile(a, f)] = [archive |-> a, name |-> f]
                                     /\ IsFirst(files, QueryFile(a, f))
           /\ QueryFile(a, f) = 0 =>
                 \A i \in DOMAIN files : files[i] # [archive |-> a, name |-> f]
<1>. DEFINE ids == {i \in DOMAIN files : files[i] = [archive |-> a, name |-> f]}
<1>1. ids \subseteq Nat \ {0}
  BY DEF IsTable
<1>. QED  BY <1>1, FoundFacts DEF QueryFile, IsFirst

LEMMA TranslationFound ==
    ASSUME NEW n, IsTable(translations)
    PROVE  /\ QueryTranslation(n) \in Nat
           /\ QueryTranslation(n) # 0 => /\ QueryTranslation(n) \in DOMAIN translations
                                         /\ translations[QueryTranslation(n)] = n
                                         /\ IsFirst(translations, QueryTranslation(n))
           /\ QueryTranslation(n) = 0 => \A i \in DOMAIN translations : translations[i] # n
<1>. DEFINE ids == {i \in DOMAIN translations : translations[i] = n}
<1>1. ids \subseteq Nat \ {0}
  BY DEF IsTable
<1>. QED  BY <1>1, FoundFacts DEF QueryTranslation, IsFirst

LEMMA StringFound ==
    ASSUME NEW f, NEW c, NEW id, IsTable(strings)
    PROVE  /\ QueryString(f, c, id) \in Nat
           /\ QueryString(f, c, id) # 0 => /\ QueryString(f, c, id) \in DOMAIN strings
                                           /\ Place(strings[QueryString(f, c, id)]) = <<f, c, id>>
           /\ QueryString(f, c, id) = 0 =>
                 \A i \in DOMAIN strings : Place(strings[i]) # <<f, c, id>>
<1>. DEFINE ids == {i \in DOMAIN strings :
                       /\ strings[i].file = f /\ strings[i].collision = c
                       /\ strings[i].identifier = id}
<1>1. ids \subseteq Nat \ {0}
  BY DEF IsTable
<1>2. QueryString(f, c, id) = Found(ids)
  BY DEF QueryString
<1>3. \A i \in DOMAIN strings : i \in ids <=> Place(strings[i]) = <<f, c, id>>
  BY DEF Place
<1>. HIDE DEF ids
<1>4. ids \subseteq DOMAIN strings
  BY DEF ids
<1>. QED  BY <1>1, <1>2, <1>3, <1>4, FoundFacts

LEMMA OccurrenceType ==
    ASSUME NEW lines, NEW k \in Nat
    PROVE  Occurrence(lines, k) \in Nat
<1>1. IsFiniteSet(1 .. k - 1)
  BY FS_Interval
<1>. QED  BY <1>1, FS_Subset, FS_CardinalityType DEF Occurrence

-----------------------------------------------------------------------------
(* What keeps tables linked.                                                  *)

LEMMA PutFileLinked ==
    ASSUME NEW archs, NEW fs, FilesLinked(archs, fs), NEW i \in Nat \ {0},
           NEW row \in [archive : DOMAIN archs, name : FileNames]
    PROVE  FilesLinked(archs, Put(fs, i, row))
<1>. DEFINE new == Put(fs, i, row)
<1>1. IsTable(new)
  BY PutIsTable DEF FilesLinked
<1>2. /\ DOMAIN new = (DOMAIN fs) \cup {i} /\ new[i] = row
      /\ \A j \in DOMAIN fs : j # i => new[j] = fs[j]
  BY DEF Put
<1>. HIDE DEF new
<1>3. \A j \in DOMAIN new : new[j] \in [archive : DOMAIN archs, name : FileNames]
  BY <1>2 DEF FilesLinked
<1>4. FilesLinked(archs, new)
  BY <1>1, <1>3 DEF FilesLinked
<1>. QED  BY <1>4 DEF new

LEMMA PutArchiveLinked ==
    ASSUME NEW archs, NEW fs, FilesLinked(archs, fs), NEW i \in Nat \ {0}, NEW a \in Archives,
           \A j \in DOMAIN archs : archs[j] = a => j = i
    PROVE  FilesLinked(Put(archs, i, a), fs)
<1>. DEFINE new == Put(archs, i, a)
<1>1. IsTable(new)
  BY PutIsTable DEF FilesLinked
<1>2. /\ DOMAIN new = (DOMAIN archs) \cup {i} /\ new[i] = a
      /\ \A j \in DOMAIN archs : j # i => new[j] = archs[j]
  BY DEF Put
<1>. HIDE DEF new
<1>3. \A j \in DOMAIN fs : fs[j] \in [archive : DOMAIN new, name : FileNames]
  BY <1>2 DEF FilesLinked
<1>4. \A j \in DOMAIN new : new[j] \in Archives
  BY <1>2 DEF FilesLinked
<1>5. Once(new)
  BY <1>2 DEF FilesLinked, Once
<1>6. FilesLinked(new, fs)
  BY <1>1, <1>3, <1>4, <1>5 DEF FilesLinked
<1>. QED  BY <1>6 DEF new

LEMMA PutStringLinked ==
    ASSUME NEW fs, NEW strs, NEW trs, NEW trd, TextsLinked(fs, strs, trs, trd),
           NEW i \in Nat \ {0}, NEW row \in StringRow(DOMAIN fs),
           \A j \in DOMAIN strs : Place(strs[j]) = Place(row) => j = i,
           i \in DOMAIN strs => strs[i].file = row.file
    PROVE  TextsLinked(fs, Put(strs, i, row), trs, trd)
<1>. DEFINE new == Put(strs, i, row)
<1>1. IsTable(new)
  BY PutIsTable DEF TextsLinked
<1>2. /\ DOMAIN new = (DOMAIN strs) \cup {i} /\ new[i] = row
      /\ \A j \in DOMAIN strs : j # i => new[j] = strs[j]
  BY DEF Put
<1>. HIDE DEF new
<1>3. \A j \in DOMAIN new : new[j] \in StringRow(DOMAIN fs)
  BY <1>2 DEF TextsLinked
<1>4. \A j, k \in DOMAIN new : Place(new[j]) = Place(new[k]) => j = k
  BY <1>2 DEF TextsLinked
<1>5. DOMAIN trd \subseteq (Nat \ {0}) \X (DOMAIN new)
  BY <1>2 DEF TextsLinked
<1>6. \A r \in DOMAIN trd : trd[r] \in Texts /\ IsFirst(fs, new[r[2]].file)
  <2>1. ASSUME NEW r \in DOMAIN trd
        PROVE  trd[r] \in Texts /\ r[2] \in DOMAIN strs /\ IsFirst(fs, strs[r[2]].file)
    BY DEF TextsLinked
  <2>2. \A j \in DOMAIN strs : new[j].file = strs[j].file
    BY <1>2
  <2>. QED  BY <2>1, <2>2
<1>7. TextsLinked(fs, new, trs, trd)
  BY <1>1, <1>3, <1>4, <1>5, <1>6 DEF TextsLinked
<1>. QED  BY <1>7 DEF new

LEMMA PutTranslationLinked ==
    ASSUME NEW fs, NEW strs, NEW trs, NEW trd, TextsLinked(fs, strs, trs, trd),
           NEW i \in Nat \ {0}, NEW n \in Names
    PROVE  TextsLinked(fs, strs, Put(trs, i, n), trd)
<1>. DEFINE new == Put(trs, i, n)
<1>1. IsTable(new)
  BY PutIsTable DEF TextsLinked
<1>2. /\ DOMAIN new = (DOMAIN trs) \cup {i} /\ new[i] = n
      /\ \A j \in DOMAIN trs : j # i => new[j] = trs[j]
  BY DEF Put
<1>. HIDE DEF new
<1>3. \A j \in DOMAIN new : new[j] \in Names
  BY <1>2 DEF TextsLinked
<1>4. TextsLinked(fs, strs, new, trd)
  BY <1>1, <1>3 DEF TextsLinked
<1>. QED  BY <1>4 DEF new

LEMMA PutTranslatedLinked ==
    ASSUME NEW fs, NEW strs, NEW trs, NEW trd, TextsLinked(fs, strs, trs, trd),
           NEW t \in Nat \ {0}, NEW i \in DOMAIN strs, IsFirst(fs, strs[i].file), NEW text \in Texts
    PROVE  TextsLinked(fs, strs, trs, Put(trd, <<t, i>>, text))
<1>. DEFINE new == Put(trd, <<t, i>>, text)
<1>1. /\ DOMAIN new = (DOMAIN trd) \cup {<<t, i>>} /\ new[<<t, i>>] = text
      /\ \A r \in DOMAIN trd : r # <<t, i>> => new[r] = trd[r]
  BY DEF Put
<1>. HIDE DEF new
<1>2. DOMAIN new \subseteq (Nat \ {0}) \X (DOMAIN strs)
  BY <1>1 DEF TextsLinked
<1>3. \A r \in DOMAIN new : new[r] \in Texts /\ IsFirst(fs, strs[r[2]].file)
  BY <1>1 DEF TextsLinked
<1>4. TextsLinked(fs, strs, trs, new)
  BY <1>2, <1>3 DEF TextsLinked
<1>. QED  BY <1>4 DEF new

\* Files come and go as long as those of the strings stay.
LEMMA FilesChange ==
    ASSUME NEW fs, NEW new, NEW strs, NEW trs, NEW trd, TextsLinked(fs, strs, trs, trd),
           \A i \in DOMAIN strs : strs[i].file \in DOMAIN new,
           \A i \in DOMAIN strs : IsFirst(fs, strs[i].file) => IsFirst(new, strs[i].file)
    PROVE  TextsLinked(new, strs, trs, trd)
<1>1. \A i \in DOMAIN strs : strs[i] \in StringRow(DOMAIN new)
  BY DEF TextsLinked, StringRow
<1>2. \A r \in DOMAIN trd : r[2] \in DOMAIN strs
  BY DEF TextsLinked
<1>. QED  BY <1>1, <1>2 DEF TextsLinked

-----------------------------------------------------------------------------
(* Types of what is imported.                                                 *)

TextFile == [name : FileNames, pairs : Seq([identifier : Identifiers, text : Texts])]
Line == [archive : Archives, name : FileNames, identifier : Identifiers, text : Texts]

LEMMA HeadTyped ==
    ASSUME Integrity, stage \in {"file", "lookup", "pairs"}, todo # <<>>
    PROVE  /\ Head(todo) \in TextFile /\ input \in Archives
           /\ \E c \in Contents : \E k \in DOMAIN c.texts : input = c.archive /\ Head(todo) = c.texts[k]
<1>1. PICK c \in Contents : input = c.archive /\ todo \in Seq({c.texts[k] : k \in DOMAIN c.texts})
  BY DEF Integrity, RunFits, FromArchive
<1>. DEFINE its == {c.texts[k] : k \in DOMAIN c.texts}
<1>2. Head(todo) \in its
  <2>. HIDE DEF its
  <2>1. todo \in Seq(its)
    BY <1>1 DEF its
  <2>. QED  BY <2>1
<1>3. c.texts \in Seq(TextFile) /\ c.archive \in Archives
  BY InputsAssumption DEF TextFile
<1>4. \A k \in DOMAIN c.texts : c.texts[k] \in TextFile
  <2>. HIDE DEF TextFile
  <2>. QED  BY <1>3
<1>. QED  BY <1>1, <1>2, <1>3, <1>4

LEMMA PairTyped ==
    ASSUME Integrity, AtPair
    PROVE  /\ at \in 1 .. Len(textPairs)
           /\ textPairs[at].identifier \in Identifiers /\ textPairs[at].text \in Texts
<1>1. Head(todo) \in TextFile
  BY HeadTyped DEF AtPair, Integrity, RunFits
<1>2. textPairs \in Seq([identifier : Identifiers, text : Texts])
  BY <1>1 DEF textPairs, TextFile
<1>3. at \in 1 .. Len(textPairs)
  <2>1. at \in Nat /\ at # 0
    BY DEF Integrity, RunFits, RunTypeOK, AtPair
  <2>2. at <= Len(textPairs) /\ Len(textPairs) \in Nat
    BY <1>2 DEF AtPair
  <2>. QED  BY <2>1, <2>2
<1>4. textPairs[at] \in [identifier : Identifiers, text : Texts]
  BY <1>2, <1>3, ElementOfSeq
<1>. QED  BY <1>3, <1>4

LEMMA LineTyped ==
    ASSUME Integrity, AtLine
    PROVE  at \in 1 .. Len(todo) /\ todo[at] \in Line
<1>1. todo \in Seq(Line)
  BY InputsAssumption DEF Integrity, RunFits, AtLine, Line
<1>. HIDE DEF Line
<1>2. at \in 1 .. Len(todo)
  <2>1. at \in Nat /\ at # 0
    BY DEF Integrity, RunFits, RunTypeOK, AtLine
  <2>2. at <= Len(todo) /\ Len(todo) \in Nat
    BY <1>1 DEF AtLine
  <2>. QED  BY <2>1, <2>2
<1>. QED  BY <1>1, <1>2, ElementOfSeq

-----------------------------------------------------------------------------
(* Integrity is inductive.                                                    *)

LEMMA SavedClosed ==
    ASSUME ~journal.open
    PROVE  /\ savedStrings = strings /\ savedTranslations = translations
           /\ savedTranslated = translated
  BY DEF savedStrings, savedTranslations, savedTranslated, Committed

LEMMA InitEstablishes == DatabaseInit => Integrity
<1>. SUFFICES ASSUME DatabaseInit PROVE Integrity
  OBVIOUS
<1>. USE DEF DatabaseInit, EmptyTable, NoJournal
<1>1. IsTable(EmptyTable)
  BY FS_EmptySet DEF IsTable
<1>2. RunTypeOK
  BY DEF RunTypeOK, Stages
<1>3. RunFits
  BY DEF RunFits
<1>4. FilesLinked(archives, files)
  BY <1>1 DEF FilesLinked, Once
<1>5. TextsLinked(files, strings, translations, translated)
  BY <1>1 DEF TextsLinked
<1>6. savedStrings = strings /\ savedTranslations = translations /\ savedTranslated = translated
  BY SavedClosed
<1>7. SavedFits /\ NoneTwice
  BY <1>6 DEF SavedFits, NoneTwice, NoOrphans, Once
<1>. QED  BY <1>2, <1>3, <1>4, <1>5, <1>6, <1>7 DEF Integrity

\* The tables as a crash would leave them, before and after a step.
LEMMA SavedStay ==
    ASSUME UNCHANGED journal, journal.open \/ UNCHANGED <<strings, translations, translated>>
    PROVE  UNCHANGED <<savedStrings, savedTranslations, savedTranslated>>
  BY DEF savedStrings, savedTranslations, savedTranslated, Committed

LEMMA SavedClosedNext ==
    ASSUME ~journal'.open
    PROVE  /\ savedStrings' = strings' /\ savedTranslations' = translations'
           /\ savedTranslated' = translated'
  BY DEF savedStrings, savedTranslations, savedTranslated, Committed

\* What is linked after a step is linked after a crash too.
LEMMA SavedLinked ==
    ASSUME Integrity, UNCHANGED <<journal, files>>,
           TextsLinked(files', strings', translations', translated')
    PROVE  TextsLinked(files', savedStrings', savedTranslations', savedTranslated')
<1>1. CASE journal.open
  <2>1. UNCHANGED <<savedStrings, savedTranslations, savedTranslated>>
    BY <1>1, SavedStay
  <2>. QED  BY <2>1 DEF Integrity
<1>2. CASE ~journal.open
  BY <1>2, SavedClosedNext
<1>. QED  BY <1>1, <1>2

LEMMA TablesStay ==
    ASSUME Integrity, UNCHANGED <<tables, journal, mishaps>>, UNCHANGED name \/ ~journal.open,
           RunTypeOK', RunFits'
    PROVE  Integrity'
<1>1. UNCHANGED <<savedStrings, savedTranslations, savedTranslated>>
  BY SavedStay DEF tables
<1>2. SavedFits'
  <2>1. ~journal.open => savedStrings = strings
    BY SavedClosed
  <2>. QED  BY <1>1, <2>1 DEF Integrity, SavedFits, tables
<1>3. NoneTwice'
  BY <1>1 DEF Integrity, NoneTwice, tables
<1>. QED  BY <1>1, <1>2, <1>3 DEF Integrity, tables

LEMMA Successor == 0 \in Nat /\ \A a \in Nat : a + 1 \in Nat /\ a + 1 # 0
  OBVIOUS

\* A step to the next pair or line, or back to the tables before a transaction.
LEMMA TypeStays ==
    ASSUME RunTypeOK, UNCHANGED <<stage, name, archiveId, fileId>>, journal'.open => journal.open,
           at' = at \/ at' = at + 1, translationId' = translationId \/ translationId' \in Nat,
           flaw' \in {flaw, "reported", "unnoticed"},
           mishaps' \subseteq mishaps \cup {"second translation", "orphans"}
    PROVE  RunTypeOK' /\ (at # 0 => at' # 0)
<1>0. at \in Nat /\ translationId \in Nat
  BY DEF RunTypeOK
<1>4. at' \in Nat /\ (at # 0 => at' # 0)
  BY <1>0, Successor, Zenon
<1>1. flaw' \in {"none", "reported", "unnoticed"}
  BY DEF RunTypeOK
<1>2. mishaps' \subseteq {"second file", "second translation", "orphans"}
  BY DEF RunTypeOK
<1>3. journal'.open => stage' \in {"pairs", "table"}
  BY DEF RunTypeOK
<1>5. RunTypeOK'
  BY <1>0, <1>1, <1>2, <1>3, <1>4 DEF RunTypeOK
<1>. QED  BY <1>4, <1>5

LEMMA OffCourseStays ==
    ASSUME UNCHANGED <<files, translations, journal, name, translationId, fileId, stage>>
    PROVE  UNCHANGED OffCourse
  BY DEF OffCourse, Astray, QueryTranslation, IsFirst

LEMMA RunStepsPreserve ==
    ASSUME Integrity,
           \/ \E content \in Contents, n \in Names \cup {NoName} : OpenArchive(content, n)
           \/ SkipFile \/ PassPair \/ MissPair \/ Finish
    PROVE  Integrity'
<1>. USE DEF Integrity
<1>1. CASE \E content \in Contents, n \in Names \cup {NoName} : OpenArchive(content, n)
  <2>1. PICK content \in Contents, n \in Names \cup {NoName} : OpenArchive(content, n)
    BY <1>1
  <2>2. UNCHANGED <<tables, journal, mishaps>> /\ ~journal.open
    BY <2>1 DEF OpenArchive, RunTypeOK
  <2>3. RunTypeOK'
    BY <2>1 DEF OpenArchive, RunTypeOK, Stages
  <2>4. content.texts \in Seq({content.texts[k] : k \in DOMAIN content.texts})
    <3>1. content.texts \in Seq(TextFile)
      BY InputsAssumption DEF TextFile
    <3>. QED  BY <3>1, SeqDef
  <2>5. RunFits'
    BY <2>1, <2>4 DEF OpenArchive, RunFits, FromArchive
  <2>. QED  BY <2>2, <2>3, <2>5, TablesStay
<1>2. CASE SkipFile
  <2>1. UNCHANGED <<tables, journal, mishaps, name>>
    BY <1>2 DEF SkipFile
  <2>2. RunTypeOK'
    BY <1>2 DEF SkipFile, RunTypeOK, Stages
  <2>3. RunFits'
    <3>1. PICK c \in Contents :
             input = c.archive /\ todo \in Seq({c.texts[k] : k \in DOMAIN c.texts})
      BY <1>2 DEF SkipFile, RunFits, FromArchive
    <3>2. Tail(todo) \in Seq({c.texts[k] : k \in DOMAIN c.texts})
      <4>. DEFINE its == {c.texts[k] : k \in DOMAIN c.texts}
      <4>. HIDE DEF its
      <4>1. todo \in Seq(its) /\ todo # <<>>
        BY <1>2, <3>1 DEF its, SkipFile
      <4>2. Tail(todo) \in Seq(its)
        BY <4>1, HeadTailProperties
      <4>. QED  BY <4>2 DEF its
    <3>3. FromArchive'
      BY <1>2, <3>1, <3>2 DEF SkipFile, FromArchive
    <3>. QED  BY <1>2, <3>3 DEF SkipFile, RunFits, tables
  <2>. QED  BY <2>1, <2>2, <2>3, TablesStay
<1>3. CASE PassPair \/ MissPair
  <2>1. /\ UNCHANGED <<tables, journal, mishaps, name, stage, translationId, input, todo, archiveId,
                       fileId>>
        /\ stage = "pairs" /\ at' = at + 1 /\ (flaw' = flaw \/ flaw' = "reported")
    BY <1>3 DEF PassPair, MissPair, NextPair, tables, AtPair
  <2>2. at # 0
    BY <2>1 DEF RunFits
  <2>3. RunTypeOK' /\ at' # 0
    BY <2>1, <2>2, TypeStays DEF tables
  <2>4. RunFits'
    <3>1. UNCHANGED <<FromArchive, OffCourse>>
      BY <2>1, OffCourseStays DEF FromArchive, tables
    <3>2. UNCHANGED IsFirst(files, fileId)
      BY <2>1 DEF IsFirst, tables
    <3>. QED  BY <2>1, <2>3, <3>1, <3>2 DEF RunFits, tables
  <2>. QED  BY <2>1, <2>3, <2>4, TablesStay
<1>4. CASE Finish
  <2>1. UNCHANGED <<tables, journal, mishaps>> /\ ~journal.open
    BY <1>4 DEF Finish, RunTypeOK
  <2>2. RunTypeOK'
    BY <1>4 DEF Finish, Idle, RunTypeOK, Stages
  <2>3. RunFits'
    BY <1>4 DEF Finish, Idle, RunFits
  <2>. QED  BY <2>1, <2>2, <2>3, TablesStay
<1>. QED  BY <1>1, <1>2, <1>3, <1>4

LEMMA FindArchivePreserves == ASSUME Integrity, FindArchive PROVE Integrity'
<1>. USE DEF Integrity
<1>1. input \in Archives
  BY HeadTyped DEF FindArchive
<1>2. IsTable(archives)
  BY DEF FilesLinked
<1>3. /\ archiveId' \in Nat \ {0}
      /\ \A j \in DOMAIN archives : archives[j] = input => j = archiveId'
  <2>1. CASE archiveId # 0
    <3>1. archiveId' = archiveId /\ archiveId \in DOMAIN archives /\ archives[archiveId] = input
      BY <2>1 DEF FindArchive, RunFits
    <3>. QED  BY <2>1, <3>1 DEF FilesLinked, RunTypeOK, Once
  <2>2. CASE archiveId = 0
    <3>1. CASE QueryArchive(input) # 0
      <4>1. archiveId' = QueryArchive(input)
        BY <2>2, <3>1 DEF FindArchive
      <4>. QED  BY <1>2, <3>1, <4>1, ArchiveFound DEF FilesLinked, Once
    <3>2. CASE QueryArchive(input) = 0
      <4>1. archiveId' = NewId(archives)
        BY <2>2, <3>2 DEF FindArchive
      <4>. QED  BY <1>2, <3>2, <4>1, ArchiveFound, NewIdFacts
    <3>. QED  BY <3>1, <3>2
  <2>. QED  BY <2>1, <2>2
<1>4. archives' = Put(archives, archiveId', input) /\ UNCHANGED <<files, strings, translations, translated>>
  BY DEF FindArchive
<1>5. /\ archiveId' \in DOMAIN archives' /\ archives'[archiveId'] = input
  BY <1>4 DEF Put
<1>6. FilesLinked(archives', files')
  BY <1>1, <1>3, <1>4, PutArchiveLinked
<1>7. RunTypeOK'
  BY <1>3 DEF FindArchive, RunTypeOK, Stages
<1>8. RunFits'
  <2>1. UNCHANGED FromArchive
    BY DEF FindArchive, FromArchive
  <2>. QED  BY <1>3, <1>5, <2>1 DEF FindArchive, RunFits
<1>9. UNCHANGED <<savedStrings, savedTranslations, savedTranslated>>
  BY <1>4, SavedStay DEF FindArchive
<1>10. SavedFits' /\ NoneTwice'
  BY <1>4, <1>9 DEF FindArchive, SavedFits, NoneTwice
<1>. QED  BY <1>4, <1>6, <1>7, <1>8, <1>9, <1>10

LEMMA FindFilePreserves == ASSUME Integrity, FindFile PROVE Integrity'
<1>. USE DEF Integrity
<1>. DEFINE row == [archive |-> archiveId, name |-> Head(todo).name]
            there == QueryFile(archiveId, Head(todo).name)
<1>1. PICK found \in Lookup(there) :
         /\ fileId' = RowFor(found, files) /\ files' = Put(files, fileId', row)
         /\ Note("second file", found # there)
         /\ flaw' = IF found # there \/ Astray THEN "unnoticed" ELSE "none"
  BY DEF FindFile
<1>2. Head(todo) \in TextFile
  BY HeadTyped DEF FindFile, RunFits
<1>3. row \in [archive : DOMAIN archives, name : FileNames]
  BY <1>2 DEF FindFile, RunFits, TextFile
<1>4. IsTable(files)
  BY DEF FilesLinked
<1>5. \/ /\ found = there /\ fileId' \in DOMAIN files /\ files[fileId'] = row
         /\ IsFirst(files, fileId')
      \/ /\ fileId' = NewId(files) /\ fileId' \notin DOMAIN files
         /\ found = there => \A j \in DOMAIN files : files[j] # row
  <2>1. /\ there # 0 => there \in DOMAIN files /\ files[there] = row /\ IsFirst(files, there)
        /\ there = 0 => \A j \in DOMAIN files : files[j] # row
    BY <1>4, FileFound
  <2>. HIDE DEF there, row
  <2>2. CASE found # 0
    BY <1>1, <2>1, <2>2 DEF Lookup, RowFor
  <2>3. CASE found = 0
    BY <1>1, <1>4, <2>1, <2>3, NewIdFacts DEF RowFor
  <2>. QED  BY <2>2, <2>3
<1>. HIDE DEF row, there
<1>6. /\ fileId' \in Nat \ {0} /\ IsTable(files')
      /\ DOMAIN files' = (DOMAIN files) \cup {fileId'} /\ files'[fileId'] = row
      /\ \A j \in DOMAIN files : /\ files'[j] = files[j]
                                 /\ IsFirst(files', j) <=> IsFirst(files, j)
      /\ found = there => IsFirst(files', fileId')
  <2>1. MayPut(files, fileId', row)
    BY <1>5 DEF MayPut
  <2>2. files' = Put(files, fileId', row)
    BY <1>1 DEF row
  <2>3. RowIsPut(files, fileId', row, files')
    BY <1>4, <2>1, <2>2, RowPut
  <2>. QED  BY <1>5, <2>3 DEF RowIsPut
<1>7. /\ UNCHANGED <<archives, strings, translations, translated, name, input, todo, archiveId, translationId>>
      /\ stage = "lookup" /\ stage' = "pairs" /\ at' = 1 /\ journal'.open
      /\ savedStrings' = strings /\ savedTranslations' = translations
      /\ savedTranslated' = translated
  BY DEF FindFile, Begin, BeginWith, savedStrings, savedTranslations, savedTranslated, Committed
<1>8. FilesLinked(archives', files')
  BY <1>1, <1>3, <1>6, <1>7, PutFileLinked
<1>9. RunTypeOK'
  BY <1>1, <1>6, <1>7 DEF RunTypeOK, Stages, Note
<1>10. RunFits'
  <2>1. UNCHANGED FromArchive
    BY <1>7 DEF FromArchive
  <2>2. fileId' \in DOMAIN files' /\ files'[fileId'] = [archive |-> archiveId', name |-> Head(todo').name]
    BY <1>6, <1>7 DEF row
  <2>3. ~IsFirst(files', fileId') => \A i \in DOMAIN strings' : strings'[i].file # fileId'
    <3>1. \A i \in DOMAIN strings : strings[i].file \in DOMAIN files
      BY DEF TextsLinked, StringRow
    <3>. QED  BY <1>5, <1>6, <1>7, <3>1
  <2>4. OffCourse' => flaw' # "none"
    <3>1. UNCHANGED Astray
      BY <1>7 DEF Astray, QueryTranslation
    <3>. QED  BY <1>1, <1>6, <1>7, <3>1 DEF OffCourse
  <2>. QED  BY <1>7, <2>1, <2>2, <2>3, <2>4 DEF RunFits
<1>11. TextsLinked(files', strings, translations, translated)
  <2>1. \A i \in DOMAIN strings : strings[i].file \in DOMAIN files
    BY DEF TextsLinked, StringRow
  <2>. QED  BY <1>6, <2>1, FilesChange
<1>12. SavedFits'
  BY <1>7 DEF SavedFits
<1>13. NoneTwice'
  <2>1. mishaps \subseteq mishaps' /\ (found # there => "second file" \in mishaps')
    BY <1>1 DEF Note
  <2>2. found = there /\ Once(files) => Once(files')
    BY <1>5, <1>6 DEF Once
  <2>. QED  BY <1>7, <2>1, <2>2 DEF NoneTwice
<1>. QED  BY <1>7, <1>8, <1>9, <1>10, <1>11, <1>12, <1>13

LEMMA ImportOriginalPreserves == ASSUME Integrity, ImportOriginal PROVE Integrity'
<1>. USE DEF Integrity
<1>. DEFINE place == <<fileId, Occurrence(textPairs, at), textPairs[at].identifier>>
            row == [file |-> fileId, collision |-> Occurrence(textPairs, at),
                    identifier |-> textPairs[at].identifier, value |-> textPairs[at].text]
<1>1. /\ at \in Nat /\ textPairs[at].identifier \in Identifiers /\ textPairs[at].text \in Texts
      /\ Occurrence(textPairs, at) \in Nat
  BY PairTyped, OccurrenceType DEF ImportOriginal
<1>2. row \in StringRow(DOMAIN files)
  BY <1>1 DEF StringRow, RunFits, ImportOriginal, AtPair
<1>3. IsTable(strings)
  BY DEF TextsLinked
<1>4. PICK i \in Nat \ {0} :
         /\ strings' = Put(strings, i, row)
         /\ \A j \in DOMAIN strings : Place(strings[j]) = place => j = i
         /\ i \in DOMAIN strings => strings[i].file = fileId
  <2>1. PairString = QueryString(fileId, Occurrence(textPairs, at), textPairs[at].identifier)
    BY DEF PairString
  <2>. HIDE DEF place
  <2>2. CASE PairString = 0 /\ PutString(NewId(strings))
    <3>1. \A j \in DOMAIN strings : Place(strings[j]) # place
      BY <1>3, <2>1, <2>2, StringFound DEF place
    <3>2. NewId(strings) \in Nat \ {0} /\ NewId(strings) \notin DOMAIN strings
      BY <1>3, NewIdFacts
    <3>. QED  BY <2>2, <3>1, <3>2 DEF PutString
  <2>3. CASE Differs /\ PutString(PairString)
    <3>1. PairString \in DOMAIN strings /\ Place(strings[PairString]) = place
      BY <1>3, <2>1, <2>3, StringFound DEF Differs, place
    <3>2. \A j \in DOMAIN strings : Place(strings[j]) = place => j = PairString
      BY <3>1 DEF TextsLinked
    <3>3. PairString \in Nat \ {0} /\ strings[PairString].file = fileId
      BY <1>3, <3>1 DEF IsTable, Place, place
    <3>. QED  BY <2>3, <3>2, <3>3 DEF PutString
  <2>. QED  BY <2>2, <2>3 DEF ImportOriginal
<1>5. Place(row) = place /\ row.file = fileId
  BY DEF Place
<1>6. /\ UNCHANGED <<archives, files, translations, translated, journal, mishaps, stage, name, input, todo,
                     archiveId, fileId, translationId, flaw>>
      /\ at' = at + 1 /\ name = NoName /\ stage = "pairs"
  BY DEF ImportOriginal, NextPair, PutString, AtPair
<1>. HIDE DEF row, place
<1>7. TextsLinked(files, strings', translations, translated)
  BY <1>2, <1>4, <1>5, PutStringLinked
<1>8. TextsLinked(files', savedStrings', savedTranslations', savedTranslated')
  BY <1>6, <1>7, SavedLinked
<1>9. UNCHANGED <<savedTranslations, savedTranslated>>
  BY <1>6 DEF savedTranslations, savedTranslated, Committed
<1>10. RunTypeOK' /\ at' # 0
  <2>1. at # 0
    BY <1>6 DEF RunFits
  <2>. QED  BY <1>6, <2>1, TypeStays
<1>11. RunFits'
  <2>1. UNCHANGED <<FromArchive, OffCourse>>
    BY <1>6, OffCourseStays DEF FromArchive
  <2>2. UNCHANGED IsFirst(files, fileId)
    BY <1>6 DEF IsFirst
  <2>. QED  BY <1>6, <1>10, <2>1, <2>2 DEF RunFits
<1>12. SavedFits' /\ NoneTwice'
  BY <1>6, <1>9 DEF SavedFits, NoneTwice
<1>. QED  BY <1>6, <1>7, <1>8, <1>10, <1>11, <1>12

\* The row that is looked for is found, if it is the first of its kind.
LEMMA FoundFirst ==
    ASSUME NEW table, IsTable(table), NEW i \in DOMAIN table, IsFirst(table, i), NEW row, table[i] = row
    PROVE  Found({j \in DOMAIN table : table[j] = row}) = i
<1>. DEFINE ids == {j \in DOMAIN table : table[j] = row}
<1>1. i \in ids /\ ids \subseteq Nat \ {0}
  BY DEF IsTable
<1>2. \A j \in ids : i <= j
  BY DEF IsFirst
<1>. HIDE DEF ids
<1>3. Found(ids) \in ids /\ Found(ids) <= i
  BY <1>1, FoundFacts
<1>4. Found(ids) \in Nat /\ i \in Nat /\ i <= Found(ids)
  BY <1>1, <1>2, <1>3
<1>. QED  BY <1>3, <1>4 DEF ids

\* The row of a translation is found or made, whoever looks for it.
TranslationIsPut(n, i, trs, isFound) ==
    /\ RowIsPut(translations, i, n, trs) /\ TextsLinked(files, strings, trs, translated)
    /\ i \in DOMAIN translations => translations[i] = n
    /\ isFound => /\ Found({j \in DOMAIN trs : trs[j] = n}) = i
                  /\ Once(translations) => Once(trs)

LEMMA TranslationPut ==
    ASSUME Integrity, NEW n \in Names, NEW found \in Lookup(QueryTranslation(n)),
           NEW i, i = RowFor(found, translations)
    PROVE  TranslationIsPut(n, i, Put(translations, i, n), found = QueryTranslation(n))
<1>. DEFINE there == QueryTranslation(n)
<1>1. IsTable(translations)
  BY DEF TextsLinked, Integrity
<1>2. \/ found = there /\ i \in DOMAIN translations /\ translations[i] = n /\ IsFirst(translations, i)
      \/ /\ i = NewId(translations) /\ i \notin DOMAIN translations
         /\ found = there => \A j \in DOMAIN translations : translations[j] # n
  <2>1. /\ there # 0 => there \in DOMAIN translations /\ translations[there] = n
                        /\ IsFirst(translations, there)
        /\ there = 0 => \A j \in DOMAIN translations : translations[j] # n
    BY <1>1, TranslationFound
  <2>. HIDE DEF there
  <2>2. CASE found # 0
    BY <2>1, <2>2 DEF Lookup, RowFor, there
  <2>3. CASE found = 0
    BY <1>1, <2>1, <2>3, NewIdFacts DEF RowFor
  <2>. QED  BY <2>2, <2>3
<1>. DEFINE trs == Put(translations, i, n)
<1>7. RowIsPut(translations, i, n, trs)
  <2>1. MayPut(translations, i, n)
    BY <1>2 DEF MayPut
  <2>. QED  BY <1>1, <2>1, RowPut
<1>. HIDE DEF there, trs
<1>3. /\ i \in Nat \ {0} /\ IsTable(trs)
      /\ DOMAIN trs = (DOMAIN translations) \cup {i} /\ trs[i] = n
      /\ \A j \in DOMAIN translations : /\ trs[j] = translations[j]
                                        /\ IsFirst(trs, j) <=> IsFirst(translations, j)
      /\ found = there => IsFirst(trs, i)
  BY <1>2, <1>7 DEF RowIsPut
<1>4. TextsLinked(files, strings, trs, translated)
  <2>1. TextsLinked(files, strings, translations, translated)
    BY DEF Integrity
  <2>. QED  BY <1>3, <2>1, PutTranslationLinked DEF trs
<1>5. found = there => Found({j \in DOMAIN trs : trs[j] = n}) = i
  BY <1>3, FoundFirst
<1>6. found = there /\ Once(translations) => Once(trs)
  BY <1>2, <1>3 DEF Once
<1>8. TranslationIsPut(n, i, trs, found = there)
  BY <1>2, <1>4, <1>5, <1>6, <1>7 DEF TranslationIsPut
<1>. QED  BY <1>8 DEF there, trs

LEMMA FindTranslationPreserves == ASSUME Integrity, FindTranslation PROVE Integrity'
<1>. USE DEF Integrity
<1>1. PICK found \in Lookup(QueryTranslation(name)) :
         /\ translationId' = RowFor(found, translations)
         /\ Note("second translation", found # QueryTranslation(name))
         /\ flaw' = IF found # QueryTranslation(name) THEN "unnoticed" ELSE flaw
         /\ translations' = Put(translations, translationId', name)
  BY DEF FindTranslation
<1>2. /\ UNCHANGED <<archives, files, strings, translated, journal, name, stage, at, fileId, archiveId,
                     input, todo>>
      /\ name \in Names /\ stage = "pairs" /\ translationId = 0
  BY DEF FindTranslation, AtPair, RunTypeOK
<1>3. /\ translationId' \in Nat \ {0}
      /\ TextsLinked(files, strings, translations', translated)
      /\ translationId' \in DOMAIN translations' /\ translations'[translationId'] = name
      /\ \A j \in DOMAIN translations : j \in DOMAIN translations' /\ translations'[j] = translations[j]
      /\ found = QueryTranslation(name) =>
            /\ Found({j \in DOMAIN translations' : translations'[j] = name}) = translationId'
            /\ Once(translations) => Once(translations')
  <2>1. TranslationIsPut(name, translationId', translations', found = QueryTranslation(name))
    BY <1>1, <1>2, TranslationPut
  <2>. QED  BY <2>1 DEF TranslationIsPut, RowIsPut
<1>4. TextsLinked(files', savedStrings', savedTranslations', savedTranslated')
  BY <1>2, <1>3, SavedLinked
<1>5. RunTypeOK'
  <2>2. /\ flaw' \in {flaw, "reported", "unnoticed"}
        /\ mishaps' \subseteq mishaps \cup {"second translation", "orphans"}
    BY <1>1 DEF Note
  <2>. QED  BY <1>2, <1>3, <2>2, TypeStays
<1>6. RunFits'
  <2>1. UNCHANGED FromArchive
    BY <1>2 DEF FromArchive
  <2>2. OffCourse' => flaw' # "none"
    <3>1. CASE found = QueryTranslation(name)
      <4>1. ~Astray'
        BY <1>2, <1>3, <3>1 DEF Astray, QueryTranslation
      <4>2. OffCourse' => OffCourse
        BY <1>2, <4>1 DEF OffCourse, IsFirst
      <4>. QED  BY <1>1, <1>2, <3>1, <4>2 DEF RunFits
    <3>2. CASE found # QueryTranslation(name)
      BY <1>1, <3>2
    <3>. QED  BY <3>1, <3>2
  <2>3. UNCHANGED IsFirst(files, fileId)
    BY <1>2 DEF IsFirst
  <2>. QED  BY <1>2, <1>3, <2>1, <2>2, <2>3 DEF RunFits
<1>7. SavedFits'
  <2>1. CASE journal.open
    <3>1. UNCHANGED <<savedStrings, savedTranslations>>
      BY <1>2, <2>1, SavedStay
    <3>. QED  BY <1>2, <1>3, <3>1 DEF SavedFits
  <2>2. CASE ~journal.open
    BY <1>2, <2>2, SavedClosedNext DEF SavedFits
  <2>. QED  BY <2>1, <2>2
<1>8. NoneTwice'
  <2>1. mishaps \subseteq mishaps' /\ (found # QueryTranslation(name) => "second translation" \in mishaps')
    BY <1>1 DEF Note
  <2>2. NoOrphans(translations, translated) => NoOrphans(translations', translated)
    BY <1>3 DEF NoOrphans
  <2>3. \/ UNCHANGED <<savedTranslations, savedTranslated>>
        \/ savedTranslations' = translations' /\ savedTranslated' = translated'
    BY <1>2, SavedStay, SavedClosedNext
  <2>. QED  BY <1>2, <1>3, <2>1, <2>2, <2>3 DEF NoneTwice
<1>. QED  BY <1>2, <1>3, <1>4, <1>5, <1>6, <1>7, <1>8

\* A text is put in for a translation, and perhaps for one that is not there.
LEMMA PutTranslationPreserves ==
    ASSUME Integrity, NEW i \in DOMAIN strings, NEW text \in Texts, PutTranslationString(i, text),
           IsFirst(files, strings[i].file), translationId # 0,
           UNCHANGED <<archives, files, strings, translations, journal, name>>
    PROVE  /\ TextsLinked(files, strings, translations, translated')
           /\ TextsLinked(files', savedStrings', savedTranslations', savedTranslated')
           /\ SavedFits' /\ NoneTwice'
<1>. USE DEF Integrity
<1>1. translationId \in Nat \ {0} /\ translated' = Put(translated, <<translationId, i>>, text)
  BY DEF RunTypeOK, PutTranslationString
<1>2. TextsLinked(files, strings, translations, translated')
  BY <1>1, PutTranslatedLinked
<1>3. TextsLinked(files', savedStrings', savedTranslations', savedTranslated')
  BY <1>2, SavedLinked
<1>4. UNCHANGED <<savedStrings, savedTranslations>>
  BY DEF savedStrings, savedTranslations, Committed
<1>5. SavedFits'
  BY <1>4 DEF SavedFits
<1>6. NoneTwice'
  <2>1. mishaps \subseteq mishaps' /\ (translationId \notin DOMAIN translations => "orphans" \in mishaps')
    BY DEF PutTranslationString, Note
  <2>2. DOMAIN translated' = (DOMAIN translated) \cup {<<translationId, i>>}
    BY <1>1 DEF Put
  <2>3. translationId \in DOMAIN translations /\ NoOrphans(translations, translated)
           => NoOrphans(translations, translated')
    BY <2>2 DEF NoOrphans
  <2>4. UNCHANGED savedTranslated \/ (savedTranslated' = translated' /\ savedTranslations = translations)
    <3>1. CASE journal.open
      BY <3>1 DEF savedTranslated, Committed
    <3>2. CASE ~journal.open
      BY <3>2, SavedClosed, SavedClosedNext
    <3>. QED  BY <3>1, <3>2
  <2>. QED  BY <1>4, <2>1, <2>3, <2>4 DEF NoneTwice
<1>. QED  BY <1>2, <1>3, <1>5, <1>6

LEMMA ImportTranslatedPreserves == ASSUME Integrity, ImportTranslated PROVE Integrity'
<1>. USE DEF Integrity
<1>1. at \in Nat /\ textPairs[at].text \in Texts
  BY PairTyped DEF ImportTranslated
<1>2. PairString \in DOMAIN strings /\ strings[PairString].file = fileId
  <2>1. IsTable(strings) /\ PairString # 0
    BY DEF TextsLinked, ImportTranslated, Differs
  <2>. QED  BY <2>1, StringFound DEF PairString, Place
<1>3. /\ UNCHANGED <<archives, files, strings, translations, journal, name, stage, input, todo, archiveId,
                     fileId, translationId, flaw>>
      /\ PutTranslationString(PairString, textPairs[at].text)
      /\ translationId # 0 /\ stage = "pairs" /\ name # NoName /\ at' = at + 1
  BY DEF ImportTranslated, NextPair, AtPair
<1>4. IsFirst(files, strings[PairString].file)
  BY <1>2, <1>3 DEF RunFits
<1>5. /\ TextsLinked(files, strings, translations, translated')
      /\ TextsLinked(files', savedStrings', savedTranslations', savedTranslated')
      /\ SavedFits' /\ NoneTwice'
  BY <1>1, <1>2, <1>3, <1>4, PutTranslationPreserves
<1>6. RunTypeOK' /\ at' # 0
  <2>1. at # 0
    BY <1>3 DEF RunFits
  <2>2. mishaps' \subseteq mishaps \cup {"second translation", "orphans"}
    BY <1>3 DEF PutTranslationString, Note
  <2>. QED  BY <1>3, <2>1, <2>2, TypeStays
<1>7. RunFits'
  <2>1. UNCHANGED <<FromArchive, OffCourse>>
    BY <1>3, OffCourseStays DEF FromArchive
  <2>2. UNCHANGED IsFirst(files, fileId)
    BY <1>3 DEF IsFirst
  <2>. QED  BY <1>3, <1>6, <2>1, <2>2 DEF RunFits
<1>. QED  BY <1>3, <1>5, <1>6, <1>7

LEMMA CommitPreserves ==
    ASSUME Integrity, PairFails \/ AllPairs \/ EndTable
    PROVE  Integrity'
<1>. USE DEF Integrity
<1>1. UNCHANGED <<tables, mishaps>> /\ ~journal'.open
  BY DEF PairFails, AllPairs, EndFile, EndTable, End, NoJournal
<1>2. /\ savedStrings' = strings /\ savedTranslations' = translations
      /\ savedTranslated' = translated
  BY <1>1, SavedClosedNext DEF tables
<1>3. RunTypeOK'
  <2>1. /\ stage' = "file" /\ at' = 0 /\ fileId' \in {0, fileId}
        /\ flaw' \in {flaw, "reported"} /\ UNCHANGED <<name, archiveId, translationId>>
    BY DEF PairFails, AllPairs, EndFile, EndTable
  <2>2. /\ name \in Names \cup {NoName} /\ flaw \in {"none", "reported", "unnoticed"}
        /\ mishaps \subseteq {"second file", "second translation", "orphans"}
        /\ archiveId \in Nat /\ fileId \in Nat /\ translationId \in Nat
    BY DEF RunTypeOK
  <2>3. at' \in Nat /\ fileId' \in Nat
    BY <2>1, <2>2, Successor, Zenon
  <2>4. stage' \in Stages /\ flaw' \in {"none", "reported", "unnoticed"}
    BY <2>1, <2>2 DEF Stages
  <2>. QED  BY <1>1, <2>1, <2>2, <2>3, <2>4 DEF RunTypeOK
<1>4. RunFits'
  <2>1. CASE PairFails \/ AllPairs
    <3>1. stage = "pairs" /\ stage' = "file" /\ todo' = Tail(todo)
          /\ UNCHANGED <<tables, name, input, archiveId, translationId>>
      BY <2>1 DEF PairFails, AllPairs, EndFile, AtPair
    <3>2. FromArchive'
      <4>1. PICK c \in Contents :
               input = c.archive /\ todo \in Seq({c.texts[k] : k \in DOMAIN c.texts})
        BY <3>1 DEF RunFits, FromArchive
      <4>. DEFINE its == {c.texts[k] : k \in DOMAIN c.texts}
      <4>2. Tail(todo) \in Seq(its)
        <5>. HIDE DEF its
        <5>1. todo \in Seq(its) /\ todo # <<>>
          BY <4>1, <3>1 DEF its, RunFits
        <5>. QED  BY <5>1, HeadTailProperties
      <4>3. input' = c.archive /\ todo' \in Seq({c.texts[k] : k \in DOMAIN c.texts})
        <5>. HIDE DEF its
        <5>1. input' = c.archive /\ todo' \in Seq(its)
          BY <3>1, <4>1, <4>2
        <5>. QED  BY <5>1 DEF its
      <4>. QED  BY <4>3 DEF FromArchive
    <3>. QED  BY <3>1, <3>2 DEF RunFits, tables
  <2>2. CASE EndTable
    BY <2>2 DEF EndTable, RunFits, tables
  <2>. QED  BY <2>1, <2>2
<1>5. SavedFits' /\ NoneTwice'
  BY <1>1, <1>2 DEF tables, SavedFits, NoneTwice
<1>. QED  BY <1>1, <1>2, <1>3, <1>4, <1>5 DEF tables

LEMMA OpenTablePreserves ==
    ASSUME Integrity, NEW lines \in Tables, NEW n \in Names, OpenTable(lines, n)
    PROVE  Integrity'
<1>. USE DEF Integrity
<1>1. PICK found \in Lookup(QueryTranslation(n)) :
         /\ translationId' = RowFor(found, translations)
         /\ Note("second translation", found # QueryTranslation(n))
         /\ flaw' = IF found # QueryTranslation(n) THEN "unnoticed" ELSE "none"
         /\ translations' = Put(translations, translationId', n)
  BY DEF OpenTable
<1>2. /\ UNCHANGED <<archives, files, strings, translated, archiveId, fileId, input>>
      /\ stage = "off" /\ stage' = "table" /\ name' = n /\ todo' = lines /\ at' = 1 /\ journal'.open
      /\ savedStrings' = strings /\ savedTranslations' = translations'
      /\ savedTranslated' = translated
  BY DEF OpenTable, BeginWith, savedStrings, savedTranslations, savedTranslated, Committed
<1>3. /\ translationId' \in Nat \ {0}
      /\ TextsLinked(files, strings, translations', translated)
      /\ translationId' \in DOMAIN translations' /\ translations'[translationId'] = n
      /\ \A j \in DOMAIN translations : j \in DOMAIN translations' /\ translations'[j] = translations[j]
      /\ found = QueryTranslation(n) =>
            /\ Found({j \in DOMAIN translations' : translations'[j] = n}) = translationId'
            /\ Once(translations) => Once(translations')
  <2>1. TranslationIsPut(n, translationId', translations', found = QueryTranslation(n))
    BY <1>1, TranslationPut
  <2>. QED  BY <2>1 DEF TranslationIsPut, RowIsPut
<1>4. RunTypeOK'
  BY <1>1, <1>2, <1>3 DEF RunTypeOK, Stages, Note
<1>5. RunFits'
  <2>1. OffCourse' => flaw' # "none"
    <3>1. found = QueryTranslation(n) => ~Astray'
      BY <1>2, <1>3 DEF Astray, QueryTranslation
    <3>. QED  BY <1>1, <1>2, <3>1 DEF OffCourse
  <2>. QED  BY <1>2, <1>3, <2>1 DEF RunFits
<1>6. SavedFits'
  BY <1>2 DEF SavedFits
<1>7. NoneTwice'
  <2>1. mishaps \subseteq mishaps' /\ (found # QueryTranslation(n) => "second translation" \in mishaps')
    BY <1>1 DEF Note
  <2>2. NoOrphans(translations, translated) => NoOrphans(translations', translated)
    BY <1>3 DEF NoOrphans
  <2>. QED  BY <1>2, <1>3, <2>1, <2>2 DEF NoneTwice
<1>. QED  BY <1>2, <1>3, <1>4, <1>5, <1>6, <1>7

LEMMA LinesPreserve ==
    ASSUME Integrity, ImportLine \/ PassLine \/ LineFails
    PROVE  Integrity'
<1>. USE DEF Integrity
<1>1. /\ AtLine /\ stage = "table" /\ at' = at + 1
      /\ UNCHANGED <<archives, files, strings, translations, journal, stage, name, input, todo, archiveId,
                     fileId, translationId>>
      /\ flaw' \in {flaw, "reported", "unnoticed"}
  BY DEF ImportLine, PassLine, LineFails, NextLine, AtLine
<1>2. at \in 1 .. Len(todo) /\ todo[at] \in Line
  BY <1>1, LineTyped
<1>3. /\ TextsLinked(files, strings, translations, translated')
      /\ TextsLinked(files', savedStrings', savedTranslations', savedTranslated')
      /\ SavedFits' /\ NoneTwice'
  <2>1. CASE ImportLine
    <3>. DEFINE f == QueryFile(QueryArchive(todo[at].archive), todo[at].name)
    <3>1. LineString \in DOMAIN strings /\ strings[LineString].file = f
      <4>1. IsTable(strings) /\ LineString # 0
        BY <2>1 DEF TextsLinked, ImportLine
      <4>. QED  BY <4>1, StringFound DEF LineString, Place
    <3>2. f \in DOMAIN files
      BY <3>1 DEF TextsLinked, StringRow
    <3>3. IsFirst(files, f)
      <4>1. IsTable(files)
        BY DEF FilesLinked
      <4>2. f # 0
        BY <3>2, <4>1 DEF IsTable
      <4>. QED  BY <4>1, <4>2, FileFound
    <3>4. translationId # 0
      <4>1. translationId \in DOMAIN translations
        BY <1>1 DEF RunFits
      <4>. QED  BY <4>1 DEF TextsLinked, IsTable
    <3>5. todo[at].text \in Texts
      BY <1>2 DEF Line
    <3>6. PutTranslationString(LineString, todo[at].text)
      BY <2>1 DEF ImportLine
    <3>. QED  BY <1>1, <3>1, <3>3, <3>4, <3>5, <3>6, PutTranslationPreserves
  <2>2. CASE PassLine \/ LineFails
    <3>1. UNCHANGED <<translated, mishaps>>
      BY <2>2 DEF PassLine, LineFails
    <3>2. UNCHANGED <<savedStrings, savedTranslations, savedTranslated>>
      BY <1>1, <3>1, SavedStay
    <3>. QED  BY <1>1, <3>1, <3>2 DEF SavedFits, NoneTwice
  <2>. QED  BY <2>1, <2>2
<1>4. RunTypeOK' /\ at' # 0
  <2>1. at # 0
    BY <1>1 DEF RunFits
  <2>2. mishaps' \subseteq mishaps \cup {"second translation", "orphans"}
    BY DEF ImportLine, PassLine, LineFails, PutTranslationString, Note
  <2>. QED  BY <1>1, <2>1, <2>2, TypeStays
<1>5. RunFits'
  <2>1. UNCHANGED <<savedTranslations, OffCourse>>
    BY <1>1, OffCourseStays DEF savedTranslations, Committed
  <2>. QED  BY <1>1, <1>4, <2>1 DEF RunFits
<1>. QED  BY <1>1, <1>3, <1>4, <1>5

\* The tables are what a crash would have left.
LEMMA RollbackPreserves ==
    ASSUME Integrity, Rollback, UNCHANGED mishaps, RunTypeOK', RunFits' PROVE Integrity'
<1>. USE DEF Integrity
<1>1. /\ UNCHANGED <<archives, files>> /\ ~journal'.open
      /\ strings' = savedStrings /\ translations' = savedTranslations
      /\ translated' = savedTranslated
  BY DEF Rollback, NoJournal, savedStrings, savedTranslations, savedTranslated, Committed
<1>2. /\ savedStrings' = strings' /\ savedTranslations' = translations'
      /\ savedTranslated' = translated'
  BY <1>1, SavedClosedNext
<1>3. SavedFits'
  BY <1>2 DEF SavedFits
<1>4. NoneTwice'
  <2>1. Once(translations) => Once(savedTranslations)
    BY DEF Once, SavedFits
  <2>. QED  BY <1>1, <1>2, <2>1 DEF NoneTwice
<1>. QED  BY <1>1, <1>2, <1>3, <1>4

LEMMA KillPreserves == ASSUME Integrity, Kill PROVE Integrity'
<1>1. RunTypeOK' /\ RunFits'
  BY DEF Kill, Rollback, NoJournal, Idle, RunTypeOK, RunFits, Stages, Integrity
<1>. QED  BY <1>1, RollbackPreserves DEF Kill

LEMMA RollsBackPreserves == ASSUME Integrity, RollsBack PROVE Integrity'
<1>. USE DEF Integrity
<1>1. /\ UNCHANGED <<archives, files, stage, name, input, todo, at, archiveId, fileId, translationId, mishaps>>
      /\ stage \in {"pairs", "table"} /\ ~journal'.open /\ flaw' = "unnoticed"
      /\ strings' = savedStrings /\ translations' = savedTranslations
  BY DEF RollsBack, Rollback, NoJournal, RunTypeOK, savedStrings, savedTranslations, Committed
<1>2. RunTypeOK'
  BY <1>1 DEF RunTypeOK
<1>3. RunFits'
  <2>1. UNCHANGED FromArchive
    BY <1>1 DEF FromArchive
  <2>2. name # NoName => UNCHANGED strings
    BY <1>1 DEF SavedFits
  <2>3. translationId \in DOMAIN translations' => translationId \in DOMAIN translations
                                                  /\ translations'[translationId] = translations[translationId]
    BY <1>1 DEF SavedFits
  <2>4. stage = "table" => UNCHANGED translations /\ savedTranslations' = translations'
    BY <1>1, SavedClosedNext DEF RunFits
  <2>5. UNCHANGED IsFirst(files, fileId)
    BY <1>1 DEF IsFirst
  <2>. QED  BY <1>1, <2>1, <2>2, <2>3, <2>4, <2>5 DEF RunFits
<1>. QED  BY <1>2, <1>3, RollbackPreserves DEF RollsBack

LEMMA StripPreserves ==
    ASSUME Integrity, ClearValues \/ DropStrings \/ DropFiles \/ DropArchives
    PROVE  Integrity'
<1>. USE DEF Integrity
<1>1. /\ UNCHANGED <<translations, translated, journal, name, input, todo, at, archiveId,
                     fileId, translationId, flaw, mishaps>>
      /\ ~journal.open /\ ~journal'.open
      /\ stage \in {"off", "cleared", "strings", "files"}
      /\ stage' \in {"off", "cleared", "strings", "files"}
  BY DEF ClearValues, DropStrings, DropFiles, DropArchives, Strip, RunTypeOK
<1>2. /\ savedStrings' = strings' /\ savedTranslations' = translations'
      /\ savedTranslated' = translated'
      /\ savedTranslations = translations /\ savedTranslated = translated
  BY <1>1, SavedClosed, SavedClosedNext
<1>3. RunTypeOK' /\ RunFits'
  <2>1. RunTypeOK'
    BY <1>1 DEF RunTypeOK, Stages
  <2>2. stage' = "strings" => DOMAIN strings' \subseteq TranslatedIds'
    <3>1. stage' = "strings" => strings' = Keep(strings, TranslatedIds)
      BY DEF ClearValues, DropStrings, DropFiles, DropArchives, Strip
    <3>2. TranslatedIds' = TranslatedIds
      BY <1>1 DEF TranslatedIds
    <3>3. DOMAIN Keep(strings, TranslatedIds) \subseteq TranslatedIds
      BY DEF Keep
    <3>. QED  BY <3>1, <3>2, <3>3
  <2>. QED  BY <1>1, <2>1, <2>2 DEF RunFits
<1>4. SavedFits'
  BY <1>2 DEF SavedFits
<1>5. Once(files) => Once(files')
  <2>1. UNCHANGED files \/ DropFiles
    BY DEF ClearValues, DropStrings, DropArchives
  <2>2. ASSUME NEW ids, files' = Keep(files, ids), Once(files) PROVE Once(files')
    <3>1. /\ DOMAIN files' = (DOMAIN files) \cap ids
          /\ \A i \in (DOMAIN files) \cap ids : files'[i] = files[i]
      BY <2>2, KeepFacts
    <3>. QED  BY <2>2, <3>1 DEF Once
  <2>. QED  BY <2>1, <2>2 DEF Once, DropFiles
<1>6. NoneTwice'
  BY <1>1, <1>2, <1>5 DEF NoneTwice
<1>7. CASE ClearValues
  <2>1. /\ DOMAIN strings' = DOMAIN strings
        /\ \A i \in DOMAIN strings : strings'[i] = [strings[i] EXCEPT !.value = Empty]
        /\ UNCHANGED <<archives, files>>
    BY <1>7 DEF ClearValues
  <2>2. \A i \in DOMAIN strings' :
           /\ strings'[i] \in StringRow(DOMAIN files) /\ Place(strings'[i]) = Place(strings[i])
           /\ strings'[i].file = strings[i].file
    BY <2>1 DEF TextsLinked, StringRow, Place
  <2>3. IsTable(strings')
    BY <2>1 DEF TextsLinked, IsTable
  <2>4. \A r \in DOMAIN translated : translated[r] \in Texts /\ IsFirst(files, strings'[r[2]].file)
    BY <2>1, <2>2 DEF TextsLinked
  <2>5. TextsLinked(files, strings', translations, translated)
    BY <2>1, <2>2, <2>3, <2>4 DEF TextsLinked
  <2>. QED  BY <1>1, <1>2, <1>3, <1>4, <1>6, <2>1, <2>5
<1>8. CASE DropStrings
  <2>1. /\ strings' = Keep(strings, TranslatedIds) /\ UNCHANGED <<archives, files>>
    BY <1>8 DEF DropStrings
  <2>2. /\ DOMAIN strings' = (DOMAIN strings) \cap TranslatedIds
        /\ \A i \in (DOMAIN strings) \cap TranslatedIds : strings'[i] = strings[i]
    BY <2>1, KeepFacts
  <2>3. IsTable(strings')
    BY <2>1, KeepIsTable DEF TextsLinked
  <2>4. \A r \in DOMAIN translated : r[2] \in DOMAIN strings'
    <3>1. \A r \in DOMAIN translated : r[2] \in TranslatedIds
      BY DEF TranslatedIds
    <3>. QED  BY <2>2, <3>1 DEF TextsLinked
  <2>5. DOMAIN translated \subseteq (Nat \ {0}) \X (DOMAIN strings')
    <3>1. \A r \in DOMAIN translated : r = <<r[1], r[2]>> /\ r[1] \in Nat \ {0}
      BY DEF TextsLinked
    <3>. QED  BY <2>4, <3>1
  <2>6. \A r \in DOMAIN translated : translated[r] \in Texts /\ IsFirst(files, strings'[r[2]].file)
    BY <2>2, <2>4 DEF TextsLinked
  <2>7. TextsLinked(files, strings', translations, translated)
    BY <2>2, <2>3, <2>5, <2>6 DEF TextsLinked
  <2>. QED  BY <1>1, <1>2, <1>3, <1>4, <1>6, <2>1, <2>7
<1>9. CASE DropFiles
  <2>. DEFINE ids == {strings[i].file : i \in DOMAIN strings}
  <2>1. files' = Keep(files, ids) /\ UNCHANGED <<archives, strings>>
    BY <1>9 DEF DropFiles
  <2>2. \A i \in DOMAIN strings : strings[i].file \in (DOMAIN files) \cap ids
    BY DEF TextsLinked, StringRow
  <2>. HIDE DEF ids
  <2>3. /\ DOMAIN files' = (DOMAIN files) \cap ids
        /\ \A i \in (DOMAIN files) \cap ids : files'[i] = files[i]
    BY <2>1, KeepFacts
  <2>4. IsTable(files')
    BY <2>1, KeepIsTable DEF FilesLinked
  <2>5. FilesLinked(archives, files')
    BY <2>3, <2>4 DEF FilesLinked
  <2>6. \A i \in DOMAIN files' : IsFirst(files, i) => IsFirst(files', i)
    BY <2>3 DEF IsFirst
  <2>7. TextsLinked(files', strings, translations, translated)
    BY <2>2, <2>3, <2>6, FilesChange
  <2>. QED  BY <1>1, <1>2, <1>3, <1>4, <1>6, <2>1, <2>5, <2>7
<1>10. CASE DropArchives
  <2>. DEFINE ids == {files[i].archive : i \in DOMAIN files}
  <2>1. archives' = Keep(archives, ids) /\ UNCHANGED <<files, strings>>
    BY <1>10 DEF DropArchives
  <2>2. \A i \in DOMAIN files : files[i].archive \in (DOMAIN archives) \cap ids
    BY DEF FilesLinked
  <2>. HIDE DEF ids
  <2>3. /\ DOMAIN archives' = (DOMAIN archives) \cap ids
        /\ \A i \in (DOMAIN archives) \cap ids : archives'[i] = archives[i]
    BY <2>1, KeepFacts
  <2>4. IsTable(archives')
    BY <2>1, KeepIsTable DEF FilesLinked
  <2>5. \A i \in DOMAIN files : files[i] \in [archive : DOMAIN archives', name : FileNames]
    BY <2>2, <2>3 DEF FilesLinked
  <2>6. FilesLinked(archives', files)
    BY <2>3, <2>4, <2>5 DEF FilesLinked, Once
  <2>. QED  BY <1>1, <1>2, <1>3, <1>4, <1>6, <2>1, <2>6
<1>. QED  BY <1>7, <1>8, <1>9, <1>10

LEMMA NextPreserves == Integrity /\ [DatabaseNext]_databaseVars => Integrity'
<1>. SUFFICES ASSUME Integrity, [DatabaseNext]_databaseVars PROVE Integrity'
  OBVIOUS
<1>1. CASE Run
  BY <1>1, RunStepsPreserve, OpenTablePreserves, StripPreserves DEF Run
<1>2. CASE Kill \/ DatabaseStep
  BY <1>2, RunStepsPreserve, FindArchivePreserves, FindFilePreserves, ImportOriginalPreserves,
     FindTranslationPreserves, ImportTranslatedPreserves, CommitPreserves, LinesPreserve,
     KillPreserves, RollsBackPreserves, StripPreserves DEF DatabaseStep
<1>3. CASE UNCHANGED databaseVars
  <2>1. UNCHANGED <<tables, journal, mishaps, name>>
    BY <1>3 DEF databaseVars, run
  <2>2. UNCHANGED <<FromArchive, OffCourse, savedTranslations>>
    BY <1>3, OffCourseStays DEF databaseVars, tables, run, FromArchive, savedTranslations, Committed
  <2>3. RunTypeOK' /\ RunFits'
    BY <1>3, <2>2 DEF databaseVars, tables, run, RunTypeOK, RunFits, TranslatedIds, Integrity
  <2>. QED  BY <2>1, <2>3, TablesStay
<1>. QED  BY <1>1, <1>2, <1>3 DEF DatabaseNext

\* Every row refers to rows that exist and nothing is twice in the database, whatever
\* is imported, stripped and killed, and whatever statement fails, but for the mishaps
\* that nobody is told of.
THEOREM IntegrityKept == DatabaseSpec => []Integrity
  BY InitEstablishes, NextPreserves, PTL DEF DatabaseSpec

-----------------------------------------------------------------------------
(* The entries of a file, or of a table, are told apart by how often their     *)
(* identifier occurs before them.                                             *)

Alike(lines, j, k) == [lines[j] EXCEPT !.text = lines[k].text] = lines[k]

LEMMA OccurrencesGrow ==
    ASSUME NEW lines, NEW j \in Nat, NEW k \in Nat, j < k, j # 0, Alike(lines, j, k),
           \A i \in 1 .. j - 1 : Alike(lines, i, j) => Alike(lines, i, k)
    PROVE  Occurrence(lines, j) < Occurrence(lines, k)
<1>. DEFINE before(n) == {i \in 1 .. n - 1 : Alike(lines, i, n)}
<1>1. Occurrence(lines, j) = Cardinality(before(j)) /\ Occurrence(lines, k) = Cardinality(before(k))
  BY DEF Occurrence, Alike
<1>2. IsFiniteSet(before(k))
  <2>1. 1 \in Int /\ k - 1 \in Int /\ before(k) \subseteq 1 .. k - 1
    OBVIOUS
  <2>2. IsFiniteSet(1 .. k - 1)
    BY <2>1, FS_Interval
  <2>. QED  BY <2>1, <2>2, FS_Subset
<1>3. j \in before(k) /\ j \notin before(j) /\ before(j) \subseteq before(k)
  OBVIOUS
<1>. HIDE DEF before
<1>4. IsFiniteSet(before(j)) /\ Cardinality(before(j)) <= Cardinality(before(k))
  BY <1>2, <1>3, FS_Subset
<1>5. Cardinality(before(j)) # Cardinality(before(k))
  <2>1. Cardinality(before(k)) = Cardinality(before(j)) => before(k) = before(j)
    BY <1>2, <1>3, FS_Subset
  <2>. QED  BY <2>1, <1>3
<1>6. Cardinality(before(j)) \in Nat /\ Cardinality(before(k)) \in Nat
  BY <1>2, <1>4, FS_CardinalityType
<1>. QED  BY <1>1, <1>4, <1>5, <1>6

Pair == [identifier : Identifiers, text : Texts]

LEMMA PairsAlike ==
    ASSUME NEW pairs \in Seq(Pair), NEW j \in DOMAIN pairs, NEW k \in DOMAIN pairs
    PROVE  Alike(pairs, j, k) <=> pairs[j].identifier = pairs[k].identifier
<1>1. pairs[j] \in Pair /\ pairs[k] \in Pair
  <2>. HIDE DEF Pair
  <2>. QED  OBVIOUS
<1>. QED  BY <1>1 DEF Pair, Alike

LEMMA LinesAlike ==
    ASSUME NEW lines \in Seq(Line), NEW j \in DOMAIN lines, NEW k \in DOMAIN lines
    PROVE  Alike(lines, j, k) <=> /\ lines[j].archive = lines[k].archive
                                  /\ lines[j].name = lines[k].name
                                  /\ lines[j].identifier = lines[k].identifier
<1>1. lines[j] \in Line /\ lines[k] \in Line
  <2>. HIDE DEF Line
  <2>. QED  OBVIOUS
<1>. QED  BY <1>1 DEF Line, Alike

LEMMA TextEntriesDiffer ==
    ASSUME NEW a, NEW text \in TextFile, NEW j \in DOMAIN text.pairs, NEW k \in DOMAIN text.pairs,
           TextEntry(a, text, j) = TextEntry(a, text, k)
    PROVE  j = k
<1>. DEFINE pairs == text.pairs
<1>1. pairs \in Seq(Pair)
  BY DEF TextFile, Pair
<1>2. /\ pairs[j].identifier = pairs[k].identifier
      /\ Occurrence(pairs, j) = Occurrence(pairs, k)
  BY DEF TextEntry
<1>. HIDE DEF pairs
<1>3. j \in DOMAIN pairs /\ k \in DOMAIN pairs
  BY DEF pairs
<1>4. DOMAIN pairs = 1 .. Len(pairs) /\ Len(pairs) \in Nat
  BY <1>1
<1>5. Occurrence(pairs, j) \in Nat /\ Occurrence(pairs, k) \in Nat
  BY <1>3, <1>4, OccurrenceType
<1>6. ASSUME NEW m \in DOMAIN pairs, NEW n \in DOMAIN pairs, m < n,
             pairs[m].identifier = pairs[n].identifier
      PROVE  Occurrence(pairs, m) < Occurrence(pairs, n)
  <2>1. \A i \in 1 .. m - 1 : i \in DOMAIN pairs
    BY <1>4
  <2>2. Alike(pairs, m, n) /\ \A i \in 1 .. m - 1 : Alike(pairs, i, m) => Alike(pairs, i, n)
    BY <1>1, <1>6, <2>1, PairsAlike
  <2>3. m \in Nat /\ n \in Nat /\ m # 0
    BY <1>4
  <2>. QED  BY <1>6, <2>2, <2>3, OccurrencesGrow
<1>7. j \in Nat /\ k \in Nat
  BY <1>3, <1>4
<1>. QED  BY <1>2, <1>3, <1>5, <1>6, <1>7

LEMMA LineEntriesDiffer ==
    ASSUME NEW lines \in Seq(Line), NEW j \in DOMAIN lines, NEW k \in DOMAIN lines,
           LineEntry(lines, j) = LineEntry(lines, k)
    PROVE  j = k
<1>2. /\ lines[j].archive = lines[k].archive /\ lines[j].name = lines[k].name
      /\ lines[j].identifier = lines[k].identifier
      /\ Occurrence(lines, j) = Occurrence(lines, k)
  BY DEF LineEntry
<1>. HIDE DEF Line
<1>4. DOMAIN lines = 1 .. Len(lines) /\ Len(lines) \in Nat
  OBVIOUS
<1>5. Occurrence(lines, j) \in Nat /\ Occurrence(lines, k) \in Nat
  BY <1>4, OccurrenceType
<1>6. ASSUME NEW m \in DOMAIN lines, NEW n \in DOMAIN lines, m < n,
             lines[m].archive = lines[n].archive, lines[m].name = lines[n].name,
             lines[m].identifier = lines[n].identifier
      PROVE  Occurrence(lines, m) < Occurrence(lines, n)
  <2>1. \A i \in 1 .. m - 1 : i \in DOMAIN lines
    BY <1>4
  <2>2. Alike(lines, m, n) /\ \A i \in 1 .. m - 1 : Alike(lines, i, m) => Alike(lines, i, n)
    BY <1>6, <2>1, LinesAlike
  <2>3. m \in Nat /\ n \in Nat /\ m # 0
    BY <1>4
  <2>. QED  BY <1>6, <2>2, <2>3, OccurrencesGrow
<1>7. j \in Nat /\ k \in Nat
  BY <1>4
<1>. QED  BY <1>2, <1>5, <1>6, <1>7

LEMMA FileEntriesFacts ==
    ASSUME NEW a, NEW text \in TextFile
    PROVE  /\ DOMAIN FileEntries(a, text) = {TextEntry(a, text, k) : k \in DOMAIN text.pairs}
           /\ \A k \in DOMAIN text.pairs :
                 FileEntries(a, text)[TextEntry(a, text, k)] = text.pairs[k].text
<1>1. ASSUME NEW k \in DOMAIN text.pairs
      PROVE  (CHOOSE j \in DOMAIN text.pairs : TextEntry(a, text, j) = TextEntry(a, text, k)) = k
  BY TextEntriesDiffer
<1>. QED  BY <1>1 DEF FileEntries

LEMMA TableEntriesFacts ==
    ASSUME NEW lines \in Seq(Line)
    PROVE  /\ DOMAIN TableEntries(lines) = {LineEntry(lines, k) : k \in DOMAIN lines}
           /\ \A k \in DOMAIN lines : TableEntries(lines)[LineEntry(lines, k)] = lines[k].text
<1>. HIDE DEF Line
<1>1. ASSUME NEW k \in DOMAIN lines
      PROVE  (CHOOSE j \in DOMAIN lines : LineEntry(lines, j) = LineEntry(lines, k)) = k
  BY LineEntriesDiffer
<1>. QED  BY <1>1 DEF TableEntries

-----------------------------------------------------------------------------
(* What a dictionary says is in the tables.                                   *)

LEMMA OneString ==
    ASSUME NEW archs, NEW fs, FilesLinked(archs, fs), NEW strs, NEW trs, NEW trd,
           TextsLinked(fs, strs, trs, trd), NEW e,
           NEW i \in StringsOf(archs, fs, strs, e), NEW j \in StringsOf(archs, fs, strs, e)
    PROVE  i = j
<1>1. /\ i \in DOMAIN strs /\ j \in DOMAIN strs
      /\ archs[fs[strs[i].file].archive] = archs[fs[strs[j].file].archive]
      /\ fs[strs[i].file].name = fs[strs[j].file].name
      /\ strs[i].identifier = strs[j].identifier /\ strs[i].collision = strs[j].collision
  BY DEF StringsOf
<1>2. strs[i].file \in DOMAIN fs /\ strs[j].file \in DOMAIN fs
  BY <1>1 DEF TextsLinked, StringRow
<1>3. fs[strs[i].file] = fs[strs[j].file]
  BY <1>1, <1>2 DEF FilesLinked, Once
<1>4. strs[i].file = strs[j].file
  <2>1. IsTable(fs) /\ IsFirst(fs, strs[i].file) /\ IsFirst(fs, strs[j].file)
    BY DEF FilesLinked, StringsOf
  <2>. QED  BY <1>2, <1>3, <2>1, OneFirst
<1>. QED  BY <1>1, <1>4 DEF TextsLinked, Place

LEMMA SourceFacts ==
    ASSUME NEW archs, NEW fs, FilesLinked(archs, fs), NEW strs, NEW trs, NEW trd,
           TextsLinked(fs, strs, trs, trd), NEW e \in Keys
    PROVE  /\ \A i \in StringsOf(archs, fs, strs, e) : SourceIn(archs, fs, strs)[e] = strs[i].value
           /\ StringsOf(archs, fs, strs, e) = {} => SourceIn(archs, fs, strs)[e] = NoString
           /\ StringsOf(archs, fs, strs, e) # {} => SourceIn(archs, fs, strs)[e] # NoString
<1>1. \A i \in StringsOf(archs, fs, strs, e) : SourceIn(archs, fs, strs)[e] = strs[i].value
  BY OneString DEF SourceIn
<1>2. StringsOf(archs, fs, strs, e) = {} => SourceIn(archs, fs, strs)[e] = NoString
  BY DEF SourceIn
<1>3. \A i \in DOMAIN strs : strs[i].value # NoString
  BY NoStringAssumption DEF TextsLinked, StringRow
<1>4. \A i \in StringsOf(archs, fs, strs, e) : i \in DOMAIN strs
  BY DEF StringsOf
<1>. QED  BY <1>1, <1>2, <1>3, <1>4

LEMMA TargetFacts ==
    ASSUME NEW archs, NEW fs, FilesLinked(archs, fs), NEW strs, NEW trs, NEW trd,
           TextsLinked(fs, strs, trs, trd), NEW n \in Names, NEW e \in Keys
    PROVE  /\ \A r \in RowsOf(archs, fs, strs, trs, trd, n, e) : TargetIn(archs, fs, strs, trs, trd)[n][e] = trd[r]
           /\ RowsOf(archs, fs, strs, trs, trd, n, e) = {} => TargetIn(archs, fs, strs, trs, trd)[n][e] = NoString
           /\ RowsOf(archs, fs, strs, trs, trd, n, e) # {} => TargetIn(archs, fs, strs, trs, trd)[n][e] # NoString
<1>. DEFINE rows == RowsOf(archs, fs, strs, trs, trd, n, e)
<1>1. ASSUME NEW r \in rows, NEW q \in rows
      PROVE  r = q
  <2>1. r[2] = q[2]
    BY OneString DEF RowsOf
  <2>2. /\ r \in DOMAIN trd /\ q \in DOMAIN trd /\ trs[r[1]] = trs[q[1]]
        /\ r = <<r[1], r[2]>> /\ q = <<q[1], q[2]>>
        /\ r[1] \in DOMAIN trs /\ q[1] \in DOMAIN trs
        /\ IsFirst(trs, r[1]) /\ IsFirst(trs, q[1])
    BY DEF RowsOf, TextsLinked
  <2>3. r[1] = q[1]
    <3>1. IsTable(trs)
      BY DEF TextsLinked
    <3>. QED  BY <2>2, <3>1, OneFirst
  <2>. QED  BY <2>1, <2>2, <2>3
<1>2. TargetIn(archs, fs, strs, trs, trd)[n][e] = IF rows = {} THEN NoString ELSE trd[CHOOSE r \in rows : TRUE]
  BY DEF TargetIn, RowsOf
<1>3. \A r \in rows : trd[r] # NoString
  BY NoStringAssumption DEF TextsLinked, RowsOf
<1>. HIDE DEF rows
<1>4. \A r \in rows : TargetIn(archs, fs, strs, trs, trd)[n][e] = trd[r]
  BY <1>1, <1>2
<1>. QED  BY <1>2, <1>3, <1>4 DEF rows

\* What is translated depends on the rows of each entry only.
LEMMA SameRows ==
    ASSUME NEW archs, NEW fs, NEW strs, NEW trs, NEW archs2, NEW fs2, NEW strs2, NEW trs2, NEW trd,
           \A n \in Names, e \in Keys :
              RowsOf(archs2, fs2, strs2, trs2, trd, n, e) = RowsOf(archs, fs, strs, trs, trd, n, e)
    PROVE  TargetIn(archs2, fs2, strs2, trs2, trd) = TargetIn(archs, fs, strs, trs, trd)
<1>. DEFINE value(rows) == IF rows = {} THEN NoString ELSE trd[CHOOSE r \in rows : TRUE]
<1>1. /\ TargetIn(archs, fs, strs, trs, trd) =
            [n \in Names |-> [e \in Keys |-> value(RowsOf(archs, fs, strs, trs, trd, n, e))]]
      /\ TargetIn(archs2, fs2, strs2, trs2, trd) =
            [n \in Names |-> [e \in Keys |-> value(RowsOf(archs2, fs2, strs2, trs2, trd, n, e))]]
  BY Zenon DEF TargetIn
<1>. HIDE DEF value
<1>. QED  BY <1>1

\* What the dictionary is does not depend on which other files and archives there are.
LEMMA SameEntries ==
    ASSUME NEW archs, NEW fs, NEW archs2, NEW fs2, NEW strs, NEW trs, NEW trd,
           \A i \in DOMAIN strs : /\ fs2[strs[i].file] = fs[strs[i].file]
                                  /\ IsFirst(fs2, strs[i].file) <=> IsFirst(fs, strs[i].file)
                                  /\ archs2[fs[strs[i].file].archive] = archs[fs[strs[i].file].archive]
    PROVE  /\ SourceIn(archs2, fs2, strs) = SourceIn(archs, fs, strs)
           /\ TargetIn(archs2, fs2, strs, trs, trd) = TargetIn(archs, fs, strs, trs, trd)
<1>1. ASSUME NEW e PROVE StringsOf(archs2, fs2, strs, e) = StringsOf(archs, fs, strs, e)
  BY DEF StringsOf
<1>2. ASSUME NEW n, NEW e
      PROVE  RowsOf(archs2, fs2, strs, trs, trd, n, e) = RowsOf(archs, fs, strs, trs, trd, n, e)
  BY <1>1 DEF RowsOf
<1>3. SourceIn(archs2, fs2, strs) = SourceIn(archs, fs, strs)
  <2>. DEFINE value(ids) == IF ids = {} THEN NoString ELSE strs[CHOOSE i \in ids : TRUE].value
  <2>1. /\ SourceIn(archs, fs, strs) = [e \in Keys |-> value(StringsOf(archs, fs, strs, e))]
        /\ SourceIn(archs2, fs2, strs) = [e \in Keys |-> value(StringsOf(archs2, fs2, strs, e))]
    BY Zenon DEF SourceIn
  <2>. HIDE DEF value
  <2>. QED  BY <1>1, <2>1
<1>. QED  BY <1>2, <1>3, SameRows

\* A dictionary without strings.
LEMMA NothingSaid ==
    ASSUME NEW archs, NEW fs, NEW trs
    PROVE  /\ SourceIn(archs, fs, EmptyTable) = [e \in Keys |-> NoString]
           /\ TargetIn(archs, fs, EmptyTable, trs, EmptyTable) =
                 [n \in Names |-> [e \in Keys |-> NoString]]
<1>1. DOMAIN EmptyTable = {}
  BY DEF EmptyTable
<1>2. ASSUME NEW e PROVE StringsOf(archs, fs, EmptyTable, e) = {}
  BY <1>1 DEF StringsOf
<1>3. ASSUME NEW n, NEW e PROVE RowsOf(archs, fs, EmptyTable, trs, EmptyTable, n, e) = {}
  BY <1>1 DEF RowsOf
<1>. QED  BY <1>2, <1>3 DEF SourceIn, TargetIn

\* A string is put in for an entry.
LEMMA StringPut ==
    ASSUME NEW archs, NEW fs, FilesLinked(archs, fs), NEW strs, NEW trs, NEW trd,
           TextsLinked(fs, strs, trs, trd), NEW i \in Nat \ {0},
           NEW row \in StringRow(DOMAIN fs), NEW e0 \in Keys, IsFirst(fs, row.file),
           e0 = <<archs[fs[row.file].archive], fs[row.file].name, row.identifier, row.collision>>,
           \/ i \notin DOMAIN strs /\ StringsOf(archs, fs, strs, e0) = {}
           \/ i \in StringsOf(archs, fs, strs, e0)
    PROVE  /\ SourceIn(archs, fs, Put(strs, i, row)) =
                 [SourceIn(archs, fs, strs) EXCEPT ![e0] = row.value]
           /\ TargetIn(archs, fs, Put(strs, i, row), trs, trd) = TargetIn(archs, fs, strs, trs, trd)
<1>. DEFINE new == Put(strs, i, row)
<1>1. /\ DOMAIN new = (DOMAIN strs) \cup {i} /\ new[i] = row
      /\ \A j \in DOMAIN strs : j # i => new[j] = strs[j]
  BY DEF Put
<1>. HIDE DEF new
<1>2. ASSUME NEW e, e # e0 PROVE StringsOf(archs, fs, new, e) = StringsOf(archs, fs, strs, e)
  BY <1>1, <1>2 DEF StringsOf
<1>3. StringsOf(archs, fs, new, e0) = {i}
  <2>1. i \in StringsOf(archs, fs, new, e0)
    BY <1>1 DEF StringsOf
  <2>2. ASSUME NEW j \in StringsOf(archs, fs, new, e0), j # i PROVE FALSE
    <3>1. j \in StringsOf(archs, fs, strs, e0)
      BY <1>1, <2>2 DEF StringsOf
    <3>. QED  BY <2>2, <3>1, OneString
  <2>. QED  BY <2>1, <2>2
<1>4. ASSUME NEW e \in Keys
      PROVE  SourceIn(archs, fs, new)[e] = [SourceIn(archs, fs, strs) EXCEPT ![e0] = row.value][e]
  <2>1. CASE e = e0
    <3>1. SourceIn(archs, fs, new)[e0] = new[CHOOSE j \in {i} : TRUE].value
      BY <1>3 DEF SourceIn
    <3>2. (CHOOSE j \in {i} : TRUE) = i
      OBVIOUS
    <3>3. DOMAIN SourceIn(archs, fs, strs) = Keys
      BY DEF SourceIn
    <3>. QED  BY <1>1, <2>1, <3>1, <3>2, <3>3
  <2>2. CASE e # e0
    <3>1. ASSUME NEW j \in StringsOf(archs, fs, strs, e) PROVE new[j] = strs[j]
      BY <1>1, <2>2 DEF StringsOf
    <3>2. SourceIn(archs, fs, new)[e] = SourceIn(archs, fs, strs)[e]
      <4>. DEFINE ids == StringsOf(archs, fs, strs, e)
      <4>1. /\ SourceIn(archs, fs, strs)[e] =
                  IF ids = {} THEN NoString ELSE strs[CHOOSE j \in ids : TRUE].value
            /\ SourceIn(archs, fs, new)[e] =
                  IF ids = {} THEN NoString ELSE new[CHOOSE j \in ids : TRUE].value
        <5>1. StringsOf(archs, fs, new, e) = ids
          BY <1>2, <2>2
        <5>. HIDE DEF ids
        <5>2. SourceIn(archs, fs, strs)[e] =
                    IF ids = {} THEN NoString ELSE strs[CHOOSE j \in ids : TRUE].value
          BY DEF SourceIn, ids
        <5>3. SourceIn(archs, fs, new)[e] =
                    IF ids = {} THEN NoString ELSE new[CHOOSE j \in ids : TRUE].value
          BY <5>1 DEF SourceIn
        <5>. QED  BY <5>2, <5>3
      <4>2. ids # {} => new[CHOOSE j \in ids : TRUE] = strs[CHOOSE j \in ids : TRUE]
        BY <3>1
      <4>. HIDE DEF ids
      <4>. QED  BY <4>1, <4>2
    <3>. QED  BY <2>2, <3>2 DEF SourceIn
  <2>. QED  BY <2>1, <2>2
<1>5. SourceIn(archs, fs, new) = [SourceIn(archs, fs, strs) EXCEPT ![e0] = row.value]
  <2>1. /\ SourceIn(archs, fs, new) = [e \in Keys |-> SourceIn(archs, fs, new)[e]]
        /\ SourceIn(archs, fs, strs) = [e \in Keys |-> SourceIn(archs, fs, strs)[e]]
    BY DEF SourceIn
  <2>. QED  BY <1>4, <2>1
<1>6. ASSUME NEW n, NEW e
      PROVE  RowsOf(archs, fs, new, trs, trd, n, e) = RowsOf(archs, fs, strs, trs, trd, n, e)
  <2>1. \A r \in DOMAIN trd : r[2] \in DOMAIN strs
    BY DEF TextsLinked
  <2>2. ASSUME NEW r \in DOMAIN trd
        PROVE  r[2] \in StringsOf(archs, fs, new, e) <=> r[2] \in StringsOf(archs, fs, strs, e)
    <3>1. CASE e # e0
      BY <1>2, <3>1
    <3>2. CASE e = e0 /\ i \in StringsOf(archs, fs, strs, e0)
      <4>1. \A j \in StringsOf(archs, fs, strs, e0) : j = i
        BY <3>2, OneString
      <4>. QED  BY <1>3, <3>2, <4>1
    <3>3. CASE e = e0 /\ i \notin DOMAIN strs /\ StringsOf(archs, fs, strs, e0) = {}
      BY <1>3, <2>1, <3>3
    <3>. QED  BY <3>1, <3>2, <3>3
  <2>. QED  BY <2>2 DEF RowsOf
<1>7. TargetIn(archs, fs, new, trs, trd) = TargetIn(archs, fs, strs, trs, trd)
  BY <1>6, SameRows
<1>. QED  BY <1>5, <1>7 DEF new

\* A string is put in for a file that is there twice, and whose first row is another.
LEMMA StringPutAside ==
    ASSUME NEW archs, NEW fs, NEW strs, NEW trs, NEW trd, TextsLinked(fs, strs, trs, trd),
           NEW i, NEW row, ~IsFirst(fs, row.file), i \in DOMAIN strs => strs[i].file = row.file
    PROVE  /\ SourceIn(archs, fs, Put(strs, i, row)) = SourceIn(archs, fs, strs)
           /\ TargetIn(archs, fs, Put(strs, i, row), trs, trd) = TargetIn(archs, fs, strs, trs, trd)
<1>. DEFINE new == Put(strs, i, row)
<1>1. /\ DOMAIN new = (DOMAIN strs) \cup {i} /\ new[i] = row
      /\ \A j \in DOMAIN strs : j # i => new[j] = strs[j]
  BY DEF Put
<1>. HIDE DEF new
<1>2. ASSUME NEW e PROVE StringsOf(archs, fs, new, e) = StringsOf(archs, fs, strs, e)
  BY <1>1 DEF StringsOf
<1>3. ASSUME NEW e, NEW j \in StringsOf(archs, fs, strs, e) PROVE new[j] = strs[j]
  BY <1>1 DEF StringsOf
<1>4. SourceIn(archs, fs, new) = SourceIn(archs, fs, strs)
  <2>. DEFINE value(t, ids) == IF ids = {} THEN NoString ELSE t[CHOOSE j \in ids : TRUE].value
  <2>1. /\ SourceIn(archs, fs, strs) = [e \in Keys |-> value(strs, StringsOf(archs, fs, strs, e))]
        /\ SourceIn(archs, fs, new) = [e \in Keys |-> value(new, StringsOf(archs, fs, new, e))]
    BY Zenon DEF SourceIn
  <2>2. ASSUME NEW e
        PROVE  value(new, StringsOf(archs, fs, strs, e)) = value(strs, StringsOf(archs, fs, strs, e))
    <3>. DEFINE ids == StringsOf(archs, fs, strs, e)
    <3>1. ids # {} => new[CHOOSE j \in ids : TRUE] = strs[CHOOSE j \in ids : TRUE]
      BY <1>3
    <3>. HIDE DEF ids
    <3>2. value(new, ids) = value(strs, ids)
      BY <3>1
    <3>. QED  BY <3>2 DEF ids
  <2>. HIDE DEF value
  <2>. QED  BY <1>2, <2>1, <2>2
<1>5. ASSUME NEW n, NEW e
      PROVE  RowsOf(archs, fs, new, trs, trd, n, e) = RowsOf(archs, fs, strs, trs, trd, n, e)
  BY <1>2 DEF RowsOf
<1>6. TargetIn(archs, fs, new, trs, trd) = TargetIn(archs, fs, strs, trs, trd)
  BY <1>5, SameRows
<1>. QED  BY <1>4, <1>6 DEF new

\* A translation is put in: it has no rows yet, and those that are there stay the first.
LEMMA TranslationNamed ==
    ASSUME NEW archs, NEW fs, NEW strs, NEW trs, NEW trd, NEW new, NoOrphans(trs, trd),
           \A j \in DOMAIN trs : /\ j \in DOMAIN new /\ new[j] = trs[j]
                                 /\ IsFirst(new, j) <=> IsFirst(trs, j)
    PROVE  TargetIn(archs, fs, strs, new, trd) = TargetIn(archs, fs, strs, trs, trd)
<1>1. ASSUME NEW m, NEW e
      PROVE  RowsOf(archs, fs, strs, new, trd, m, e) = RowsOf(archs, fs, strs, trs, trd, m, e)
  BY DEF RowsOf, NoOrphans
<1>. QED  BY <1>1, SameRows

\* The translation of an entry is put in for a row that no lookup finds.
LEMMA TranslatedPutAside ==
    ASSUME NEW archs, NEW fs, NEW strs, NEW trs, NEW trd, NEW t, NEW i, NEW text,
           t \in DOMAIN trs => ~IsFirst(trs, t)
    PROVE  TargetIn(archs, fs, strs, trs, Put(trd, <<t, i>>, text)) = TargetIn(archs, fs, strs, trs, trd)
<1>. DEFINE new == Put(trd, <<t, i>>, text)
            value(d, rows) == IF rows = {} THEN NoString ELSE d[CHOOSE r \in rows : TRUE]
<1>1. /\ DOMAIN new = (DOMAIN trd) \cup {<<t, i>>}
      /\ \A r \in DOMAIN trd : r # <<t, i>> => new[r] = trd[r]
  BY DEF Put
<1>. HIDE DEF new
<1>2. ASSUME NEW n, NEW e
      PROVE  RowsOf(archs, fs, strs, trs, new, n, e) = RowsOf(archs, fs, strs, trs, trd, n, e)
  <2>1. <<t, i>>[1] = t
    OBVIOUS
  <2>. QED  BY <1>1, <2>1 DEF RowsOf
<1>3. ASSUME NEW n, NEW e, NEW r \in RowsOf(archs, fs, strs, trs, trd, n, e) PROVE new[r] = trd[r]
  <2>1. r # <<t, i>>
    BY DEF RowsOf
  <2>. QED  BY <1>1, <2>1 DEF RowsOf
<1>4. /\ TargetIn(archs, fs, strs, trs, trd) =
            [n \in Names |-> [e \in Keys |-> value(trd, RowsOf(archs, fs, strs, trs, trd, n, e))]]
      /\ TargetIn(archs, fs, strs, trs, new) =
            [n \in Names |-> [e \in Keys |-> value(new, RowsOf(archs, fs, strs, trs, new, n, e))]]
  BY Zenon DEF TargetIn
<1>5. ASSUME NEW n, NEW e
      PROVE  value(new, RowsOf(archs, fs, strs, trs, trd, n, e))
                = value(trd, RowsOf(archs, fs, strs, trs, trd, n, e))
  <2>. DEFINE rows == RowsOf(archs, fs, strs, trs, trd, n, e)
  <2>1. rows # {} => new[CHOOSE r \in rows : TRUE] = trd[CHOOSE r \in rows : TRUE]
    BY <1>3
  <2>. HIDE DEF rows
  <2>2. value(new, rows) = value(trd, rows)
    BY <2>1
  <2>. QED  BY <2>2 DEF rows
<1>. HIDE DEF value
<1>6. TargetIn(archs, fs, strs, trs, new) = TargetIn(archs, fs, strs, trs, trd)
  BY <1>2, <1>4, <1>5
<1>. QED  BY <1>6 DEF new

\* The translation of an entry is put in.
LEMMA TranslatedPut ==
    ASSUME NEW archs, NEW fs, FilesLinked(archs, fs), NEW strs, NEW trs, NEW trd,
           TextsLinked(fs, strs, trs, trd), NEW t \in DOMAIN trs, IsFirst(trs, t),
           NEW text \in Texts, NEW e0 \in Keys, NEW i \in StringsOf(archs, fs, strs, e0)
    PROVE  TargetIn(archs, fs, strs, trs, Put(trd, <<t, i>>, text)) =
              [TargetIn(archs, fs, strs, trs, trd) EXCEPT
                  ![trs[t]] = [@ EXCEPT ![e0] = text]]
<1>. DEFINE new == Put(trd, <<t, i>>, text)
            old == TargetIn(archs, fs, strs, trs, trd)
<1>1. /\ DOMAIN new = (DOMAIN trd) \cup {<<t, i>>} /\ new[<<t, i>>] = text
      /\ \A r \in DOMAIN trd : r # <<t, i>> => new[r] = trd[r]
  BY DEF Put
<1>2. TextsLinked(fs, strs, trs, new)
  <2>1. i \in DOMAIN strs /\ IsFirst(fs, strs[i].file) /\ t \in Nat \ {0}
    BY DEF StringsOf, TextsLinked, IsTable
  <2>. QED  BY <2>1, PutTranslatedLinked
<1>3. trs[t] \in Names
  BY DEF TextsLinked
<1>. HIDE DEF new
<1>4. ASSUME NEW n \in Names, NEW e \in Keys
      PROVE  TargetIn(archs, fs, strs, trs, new)[n][e] =
                IF n = trs[t] /\ e = e0 THEN text ELSE old[n][e]
  <2>1. CASE n = trs[t] /\ e = e0
    <3>1. <<t, i>> \in RowsOf(archs, fs, strs, trs, new, n, e)
      BY <1>1, <2>1 DEF RowsOf
    <3>. QED  BY <1>1, <1>2, <2>1, <3>1, TargetFacts
  <2>2. CASE ~(n = trs[t] /\ e = e0)
    <3>1. ASSUME NEW r \in RowsOf(archs, fs, strs, trs, new, n, e) PROVE r # <<t, i>>
      <4>1. e # e0 => i \notin StringsOf(archs, fs, strs, e)
        BY DEF StringsOf
      <4>. QED  BY <2>2, <4>1 DEF RowsOf
    <3>2. RowsOf(archs, fs, strs, trs, new, n, e) \subseteq RowsOf(archs, fs, strs, trs, trd, n, e)
      BY <1>1, <3>1 DEF RowsOf
    <3>3. RowsOf(archs, fs, strs, trs, trd, n, e) \subseteq RowsOf(archs, fs, strs, trs, new, n, e)
      BY <1>1 DEF RowsOf
    <3>4. \A r \in RowsOf(archs, fs, strs, trs, new, n, e) : new[r] = trd[r]
      BY <1>1, <3>1, <3>2 DEF RowsOf
    <3>5. CASE RowsOf(archs, fs, strs, trs, trd, n, e) = {}
      BY <1>2, <2>2, <3>2, <3>5, TargetFacts
    <3>6. CASE RowsOf(archs, fs, strs, trs, trd, n, e) # {}
      BY <1>2, <2>2, <3>2, <3>3, <3>4, <3>6, TargetFacts
    <3>. QED  BY <3>5, <3>6
  <2>. QED  BY <2>1, <2>2
<1>5. /\ TargetIn(archs, fs, strs, trs, new) =
            [n \in Names |-> [e \in Keys |-> TargetIn(archs, fs, strs, trs, new)[n][e]]]
      /\ old = [n \in Names |-> [e \in Keys |-> old[n][e]]]
  BY DEF TargetIn
<1>. HIDE DEF old
<1>6. TargetIn(archs, fs, strs, trs, new) = [old EXCEPT ![trs[t]] = [@ EXCEPT ![e0] = text]]
  BY <1>3, <1>4, <1>5
<1>. QED  BY <1>6 DEF new, old

-----------------------------------------------------------------------------
(* Patching.                                                                  *)

\* What a file has been given instead of its texts occurs as its texts did.
LEMMA SamePlaces ==
    ASSUME NEW given \in Seq(Pair), NEW other \in Seq(Pair), Len(other) = Len(given),
           \A k \in DOMAIN given : other[k].identifier = given[k].identifier,
           NEW k \in DOMAIN given
    PROVE  Occurrence(other, k) = Occurrence(given, k)
<1>. HIDE DEF Pair
<1>1. DOMAIN other = DOMAIN given /\ DOMAIN given = 1 .. Len(given) /\ Len(given) \in Nat
  OBVIOUS
<1>2. \A j \in 1 .. k - 1 : j \in DOMAIN given
  BY <1>1
<1>3. \A j \in 1 .. k - 1 : Alike(other, j, k) <=> Alike(given, j, k)
  BY <1>1, <1>2, PairsAlike
<1>. QED  BY <1>3 DEF Occurrence, Alike

LEMMA SameTextEntries ==
    ASSUME NEW a, NEW text \in TextFile, NEW other \in Seq(Pair), Len(other) = Len(text.pairs),
           \A k \in DOMAIN text.pairs : other[k].identifier = text.pairs[k].identifier
    PROVE  /\ DOMAIN FileEntries(a, [text EXCEPT !.pairs = other]) = DOMAIN FileEntries(a, text)
           /\ \A k \in DOMAIN text.pairs :
                 FileEntries(a, [text EXCEPT !.pairs = other])[TextEntry(a, text, k)] = other[k].text
<1>. DEFINE patched == [text EXCEPT !.pairs = other]
            pairs == text.pairs
<1>1. /\ patched \in TextFile /\ patched.pairs = other /\ patched.name = text.name
      /\ pairs \in Seq(Pair)
  BY DEF TextFile, Pair
<1>. HIDE DEF patched
<1>2. DOMAIN other = DOMAIN text.pairs
  <2>. HIDE DEF Pair
  <2>1. DOMAIN other = 1 .. Len(other) /\ DOMAIN pairs = 1 .. Len(pairs)
    BY <1>1
  <2>. QED  BY <2>1
<1>3. ASSUME NEW k \in DOMAIN text.pairs PROVE TextEntry(a, patched, k) = TextEntry(a, text, k)
  <2>1. Occurrence(other, k) = Occurrence(pairs, k)
    BY <1>1, SamePlaces
  <2>. QED  BY <1>1, <2>1 DEF TextEntry
<1>. DEFINE entries == FileEntries(a, patched)
<1>4. DOMAIN FileEntries(a, text) = {TextEntry(a, text, k) : k \in DOMAIN text.pairs}
  BY FileEntriesFacts
<1>5. /\ DOMAIN entries = {TextEntry(a, patched, k) : k \in DOMAIN patched.pairs}
      /\ \A k \in DOMAIN patched.pairs : entries[TextEntry(a, patched, k)] = patched.pairs[k].text
  <2>1. patched \in TextFile
    BY <1>1
  <2>. QED  BY <2>1, FileEntriesFacts
<1>. HIDE DEF entries
<1>6. DOMAIN entries = DOMAIN FileEntries(a, text)
  BY <1>1, <1>2, <1>3, <1>4, <1>5
<1>7. ASSUME NEW k \in DOMAIN text.pairs PROVE entries[TextEntry(a, text, k)] = other[k].text
  BY <1>1, <1>2, <1>3, <1>5
<1>. QED  BY <1>6, <1>7 DEF entries, patched

LEMMA ContentFacts ==
    ASSUME NEW c \in Contents, NEW k \in DOMAIN c.texts
    PROVE  /\ c.texts[k] \in TextFile /\ c.archive \in Archives
           /\ FileEntries(c.archive, c.texts[k]) \in Imports
           /\ \A j \in DOMAIN c.texts[k].pairs : TextEntry(c.archive, c.texts[k], j) \in Keys
<1>1. c.texts \in Seq(TextFile) /\ c.archive \in Archives
  BY InputsAssumption DEF TextFile
<1>2. c.texts[k] \in TextFile
  <2>. HIDE DEF TextFile
  <2>. QED  BY <1>1
<1>3. FileEntries(c.archive, c.texts[k]) \in Imports
  BY DEF Imports
<1>4. \A j \in DOMAIN c.texts[k].pairs : TextEntry(c.archive, c.texts[k], j) \in Keys
  <2>. DEFINE text == c.texts[k]
  <2>1. text \in TextFile
    BY <1>2
  <2>. HIDE DEF text
  <2>2. DOMAIN FileEntries(c.archive, text) = {TextEntry(c.archive, text, j) : j \in DOMAIN text.pairs}
    BY <2>1, FileEntriesFacts
  <2>. QED  BY <1>3, <2>2 DEF Keys, text
<1>. QED  BY <1>1, <1>2, <1>3, <1>4

\* The rows that PatchFiles finds for an entry are those that translate it.
LEMMA RowsFound ==
    ASSUME Integrity, NEW n \in Names, NEW a \in Archives, NEW text \in TextFile,
           NEW k \in DOMAIN text.pairs
    PROVE  LET t == QueryTranslation(n)
               found == UNION {QueryTranslationStringsFile(t, i) :
                                  i \in QueryFiles(QueryArchive(a), text.name)}
               rows == RowsOf(archives, files, strings, translations, translated, n,
                              TextEntry(a, text, k))
           IN  /\ TranslationOf(found, text.pairs, k) = rows
               /\ rows # {} => QueryArchive(a) \in QueryArchivesTranslation(t)
<1>. DEFINE t == QueryTranslation(n)
            q == QueryArchive(a)
            pairs == text.pairs
            found == UNION {QueryTranslationStringsFile(t, i) : i \in QueryFiles(q, text.name)}
            entry == TextEntry(a, text, k)
            rows == RowsOf(archives, files, strings, translations, translated, n, entry)
<1>1. /\ FilesLinked(archives, files)
      /\ TextsLinked(files, strings, translations, translated)
  BY DEF Integrity
<1>2. /\ t # 0 => t \in DOMAIN translations /\ translations[t] = n /\ IsFirst(translations, t)
      /\ t = 0 => \A i \in DOMAIN translations : translations[i] # n
  BY <1>1, TranslationFound DEF TextsLinked
<1>3. /\ q # 0 => q \in DOMAIN archives /\ archives[q] = a
      /\ q = 0 => \A i \in DOMAIN archives : archives[i] # a
  BY <1>1, ArchiveFound DEF FilesLinked
<1>4. 0 \notin DOMAIN translations /\ 0 \notin DOMAIN archives
  BY <1>1 DEF TextsLinked, FilesLinked, IsTable
<1>5. \A i \in Nat \ {0} :
         i \in DOMAIN translations /\ translations[i] = n /\ IsFirst(translations, i) <=> i = t
  <2>. HIDE DEF t
  <2>1. IsTable(translations)
    BY <1>1 DEF TextsLinked
  <2>. QED  BY <1>2, <2>1, OneFirst
<1>6. \A i \in DOMAIN archives : archives[i] = a <=> i = q
  BY <1>1, <1>3, <1>4 DEF FilesLinked, Once
<1>7. \A r \in DOMAIN translated :
         /\ r[1] \in Nat \ {0} /\ r[2] \in DOMAIN strings
         /\ IsFirst(files, strings[r[2]].file)
         /\ strings[r[2]].file \in DOMAIN files
         /\ files[strings[r[2]].file] \in [archive : DOMAIN archives, name : FileNames]
  BY <1>1 DEF TextsLinked, FilesLinked, StringRow
<1>. HIDE DEF t, q
<1>8. ASSUME NEW r \in DOMAIN translated
      PROVE  r \in rows <=>
                /\ r[1] = t
                /\ files[strings[r[2]].file] = [archive |-> q, name |-> text.name]
                /\ strings[r[2]].identifier = pairs[k].identifier
                /\ strings[r[2]].collision = Occurrence(pairs, k)
  <2>. DEFINE f == files[strings[r[2]].file]
  <2>1. f = [archive |-> f.archive, name |-> f.name] /\ f.archive \in DOMAIN archives
    BY <1>7
  <2>2. r \in rows <=> /\ r[1] \in DOMAIN translations /\ translations[r[1]] = n
                       /\ IsFirst(translations, r[1])
                       /\ archives[f.archive] = a /\ f.name = text.name
                       /\ strings[r[2]].identifier = pairs[k].identifier
                       /\ strings[r[2]].collision = Occurrence(pairs, k)
    BY <1>7 DEF RowsOf, StringsOf, TextEntry
  <2>3. f = [archive |-> q, name |-> text.name] <=> f.archive = q /\ f.name = text.name
    BY <2>1
  <2>. HIDE DEF f, rows
  <2>4. /\ (r[1] \in DOMAIN translations /\ translations[r[1]] = n /\ IsFirst(translations, r[1]))
              <=> r[1] = t
        /\ archives[f.archive] = a <=> f.archive = q
    BY <1>5, <1>6, <1>7, <2>1
  <2>. QED  BY <2>2, <2>3, <2>4 DEF f
<1>9. ASSUME NEW r
      PROVE  r \in TranslationOf(found, pairs, k) <=>
                /\ r \in DOMAIN translated /\ r[1] = t
                /\ files[strings[r[2]].file] = [archive |-> q, name |-> text.name]
                /\ strings[r[2]].identifier = pairs[k].identifier
                /\ strings[r[2]].collision = Occurrence(pairs, k)
  <2>1. r \in found <=> /\ r \in DOMAIN translated /\ r[1] = t
                        /\ files[strings[r[2]].file] = [archive |-> q, name |-> text.name]
    BY <1>7 DEF QueryFiles, QueryTranslationStringsFile
  <2>. HIDE DEF found
  <2>. QED  BY <2>1 DEF TranslationOf
<1>10. rows \subseteq DOMAIN translated
  BY DEF RowsOf
<1>11. TranslationOf(found, pairs, k) = rows
  <2>. HIDE DEF rows, found
  <2>. QED  BY <1>8, <1>9, <1>10
<1>12. ASSUME NEW r \in rows PROVE q \in QueryArchivesTranslation(t)
  <2>1. /\ r \in DOMAIN translated /\ r[1] = t
        /\ files[strings[r[2]].file] = [archive |-> q, name |-> text.name]
    <3>. HIDE DEF rows
    <3>. QED  BY <1>8, <1>10
  <2>2. files[strings[r[2]].file].archive = q
    BY <2>1
  <2>. QED  BY <2>1, <2>2 DEF QueryArchivesTranslation
<1>. QED  BY <1>11, <1>12 DEF t, q

LEMMA PatchedFacts ==
    ASSUME Integrity, NEW n \in Names, NEW a \in Archives, NEW text \in TextFile,
           \A k \in DOMAIN text.pairs : TextEntry(a, text, k) \in Keys
    PROVE  LET patched == PatchedText(n, a, text.name, text.pairs)
               target0 == TargetIn(archives, files, strings, translations, translated)
           IN  /\ patched \in Seq(Pair) /\ Len(patched) = Len(text.pairs)
               /\ \A k \in DOMAIN text.pairs :
                     /\ patched[k].identifier = text.pairs[k].identifier
                     /\ patched[k].text = IF target0[n][TextEntry(a, text, k)] = NoString
                                          THEN text.pairs[k].text
                                          ELSE target0[n][TextEntry(a, text, k)]
<1>. DEFINE pairs == text.pairs
            patched == PatchedText(n, a, text.name, pairs)
            target0 == TargetIn(archives, files, strings, translations, translated)
            entry(k) == TextEntry(a, text, k)
            rows(k) == RowsOf(archives, files, strings, translations, translated, n, entry(k))
            known == QueryArchive(a) \in QueryArchivesTranslation(QueryTranslation(n))
<1>1. /\ FilesLinked(archives, files)
      /\ TextsLinked(files, strings, translations, translated)
  BY DEF Integrity
<1>2. pairs \in Seq(Pair)
  BY DEF TextFile, Pair
<1>3. \A k \in DOMAIN pairs : pairs[k] \in Pair
  <2>. HIDE DEF Pair
  <2>. QED  BY <1>2
<1>4. ASSUME NEW k \in DOMAIN pairs
      PROVE  /\ \A r \in rows(k) : target0[n][entry(k)] = translated[r] /\ translated[r] \in Texts
             /\ rows(k) = {} => target0[n][entry(k)] = NoString
             /\ rows(k) # {} => target0[n][entry(k)] # NoString
  <2>1. entry(k) \in Keys
    OBVIOUS
  <2>2. \A r \in rows(k) : translated[r] \in Texts
    BY <1>1 DEF TextsLinked, RowsOf
  <2>. QED  BY <1>1, <2>1, <2>2, TargetFacts
<1>5. ASSUME NEW k \in DOMAIN pairs PROVE rows(k) # {} => known
  BY RowsFound
<1>6. patched = IF ~known THEN pairs
                ELSE [k \in DOMAIN pairs |->
                        IF rows(k) = {} THEN pairs[k]
                        ELSE [pairs[k] EXCEPT !.text = translated[CHOOSE r \in rows(k) : TRUE]]]
  <2>. DEFINE found == UNION {QueryTranslationStringsFile(QueryTranslation(n), i) :
                                i \in QueryFiles(QueryArchive(a), text.name)}
              of(k) == TranslationOf(found, pairs, k)
  <2>1. patched = IF ~known THEN pairs
                  ELSE [k \in DOMAIN pairs |->
                        IF of(k) = {} THEN pairs[k]
                        ELSE [pairs[k] EXCEPT !.text = translated[CHOOSE r \in of(k) : TRUE]]]
    BY Zenon DEF PatchedText
  <2>2. \A k \in DOMAIN pairs : of(k) = rows(k)
    BY RowsFound
  <2>. HIDE DEF of, rows, known, patched, pairs
  <2>. QED  BY <2>1, <2>2
<1>. HIDE DEF patched, rows, known, target0, pairs, entry
<1>7. ASSUME NEW k \in DOMAIN pairs
      PROVE  /\ patched[k] \in Pair
             /\ patched[k].identifier = pairs[k].identifier
             /\ patched[k].text = IF target0[n][entry(k)] = NoString THEN pairs[k].text
                                  ELSE target0[n][entry(k)]
  <2>1. CASE rows(k) = {}
    BY <1>3, <1>4, <1>6, <2>1
  <2>2. CASE rows(k) # {}
    <3>. DEFINE r == CHOOSE r \in rows(k) : TRUE
    <3>1. r \in rows(k)
      BY <2>2
    <3>. HIDE DEF r
    <3>2. patched[k] = [pairs[k] EXCEPT !.text = translated[r]]
      BY <1>5, <1>6, <2>2 DEF r
    <3>3. /\ translated[r] \in Texts /\ target0[n][entry(k)] = translated[r]
          /\ target0[n][entry(k)] # NoString
      BY <1>4, <2>2, <3>1
    <3>4. pairs[k] \in Pair
      BY <1>3
    <3>5. patched[k] \in Pair /\ patched[k].identifier = pairs[k].identifier
          /\ patched[k].text = translated[r]
      BY <3>2, <3>3, <3>4 DEF Pair
    <3>. QED  BY <3>3, <3>5
  <2>. QED  BY <2>1, <2>2
<1>8. DOMAIN patched = DOMAIN pairs
  BY <1>6
<1>9. patched \in Seq(Pair) /\ Len(patched) = Len(pairs)
  <2>. HIDE DEF Pair
  <2>1. DOMAIN pairs = 1 .. Len(pairs) /\ Len(pairs) \in Nat
    BY <1>2
  <2>2. patched = [k \in 1 .. Len(pairs) |-> patched[k]]
    <3>1. CASE ~known
      BY <1>2, <1>6, <2>1, <3>1
    <3>2. CASE known
      <4>. DEFINE value(k) == IF rows(k) = {} THEN pairs[k]
                              ELSE [pairs[k] EXCEPT !.text = translated[CHOOSE r \in rows(k) : TRUE]]
      <4>1. patched = [k \in DOMAIN pairs |-> value(k)]
        BY <1>6, <3>2
      <4>. HIDE DEF value
      <4>. QED  BY <2>1, <4>1
    <3>. QED  BY <3>1, <3>2
  <2>3. \A k \in 1 .. Len(pairs) : patched[k] \in Pair
    BY <1>7, <2>1
  <2>. QED  BY <2>1, <2>2, <2>3
<1>. QED  BY <1>7, <1>9 DEF patched, target0, pairs, entry

LEMMA PatchesAsTold == Integrity => PatchesFollowDictionary
<1>. SUFFICES ASSUME Integrity, stage = "off", NEW c \in Contents, NEW n \in Names,
                     NEW m \in DOMAIN c.texts
              PROVE  FileEntries(c.archive,
                        [c.texts[m] EXCEPT !.pairs = PatchedText(n, c.archive, c.texts[m].name, @)])
                     = Dict!Patch(n, FileEntries(c.archive, c.texts[m]))
  BY DEF PatchesFollowDictionary
<1>. DEFINE a == c.archive
            text == c.texts[m]
            patched == PatchedText(n, a, text.name, text.pairs)
            new == [text EXCEPT !.pairs = patched]
            target0 == TargetIn(archives, files, strings, translations, translated)
<1>1. /\ text \in TextFile /\ a \in Archives
      /\ \A k \in DOMAIN text.pairs : TextEntry(a, text, k) \in Keys
  BY ContentFacts
<1>2. target = target0
  <2>1. ~journal.open
    BY DEF Integrity, RunTypeOK
  <2>. QED  BY <2>1 DEF target, savedStrings, savedTranslations, savedTranslated, Committed
<1>3. [text EXCEPT !.pairs = PatchedText(n, a, text.name, @)] = new
  BY <1>1 DEF TextFile
<1>. HIDE DEF a, text, patched, target0
<1>4. /\ patched \in Seq(Pair) /\ Len(patched) = Len(text.pairs)
      /\ \A k \in DOMAIN text.pairs :
            /\ patched[k].identifier = text.pairs[k].identifier
            /\ patched[k].text = IF target0[n][TextEntry(a, text, k)] = NoString
                                 THEN text.pairs[k].text
                                 ELSE target0[n][TextEntry(a, text, k)]
  BY <1>1, PatchedFacts DEF patched, target0
<1>5. /\ DOMAIN FileEntries(a, new) = DOMAIN FileEntries(a, text)
      /\ \A k \in DOMAIN text.pairs : FileEntries(a, new)[TextEntry(a, text, k)] = patched[k].text
  BY <1>1, <1>4, SameTextEntries
<1>6. /\ DOMAIN FileEntries(a, text) = {TextEntry(a, text, k) : k \in DOMAIN text.pairs}
      /\ \A k \in DOMAIN text.pairs :
            FileEntries(a, text)[TextEntry(a, text, k)] = text.pairs[k].text
  BY <1>1, FileEntriesFacts
<1>7. FileEntries(a, new) = [e \in DOMAIN FileEntries(a, new) |-> FileEntries(a, new)[e]]
  BY DEF FileEntries
<1>. HIDE DEF new
<1>8. FileEntries(a, new) = Dict!Patch(n, FileEntries(a, text))
  <2>1. ASSUME NEW e \in DOMAIN FileEntries(a, text)
        PROVE  FileEntries(a, new)[e] = IF target[n][e] = NoString THEN FileEntries(a, text)[e]
                                        ELSE target[n][e]
    BY <1>2, <1>4, <1>5, <1>6
  <2>. QED  BY <1>5, <1>7, <2>1 DEF Dict!Patch
<1>. QED  BY <1>3, <1>8 DEF a, text, patched

\* PatchFiles finds the translations of a file's entries, and no others.
THEOREM PatchesRight == DatabaseSpec => []PatchesFollowDictionary
  BY IntegrityKept, PatchesAsTold, PTL

-----------------------------------------------------------------------------
(* The entry at hand.                                                         *)

EntryAt == IF stage = "table" THEN LineEntry(todo, at) ELSE TextEntry(input, Head(todo), at)
TextAt == IF stage = "table" THEN todo[at].text ELSE textPairs[at].text
StringAt == IF stage = "table" THEN LineString ELSE PairString

\* The string that is looked up is that of the entry.
StringKnown ==
    /\ StringAt # 0 => StringAt \in StringsOf(archives, files, strings, EntryAt)
    /\ StringAt = 0 => StringsOf(archives, files, strings, EntryAt) = {}

\* The string of an entry is found if there is one.
LEMMA EntryFound ==
    ASSUME FilesLinked(archives, files), IsTable(strings),
           \A i \in DOMAIN strings : strings[i].file \in DOMAIN files,
           NEW a, NEW n, NEW c, NEW id
    PROVE  LET i == QueryString(QueryFile(QueryArchive(a), n), c, id)
               entry == <<a, n, id, c>>
           IN  /\ i # 0 => i \in StringsOf(archives, files, strings, entry)
               /\ i = 0 => StringsOf(archives, files, strings, entry) = {}
<1>. DEFINE q == QueryArchive(a)
            f == QueryFile(q, n)
            i == QueryString(f, c, id)
<1>1. /\ q # 0 => q \in DOMAIN archives /\ archives[q] = a
      /\ q = 0 => \A j \in DOMAIN archives : archives[j] # a
  BY ArchiveFound DEF FilesLinked
<1>2. IsTable(files)
  BY DEF FilesLinked
<1>3. /\ f # 0 => f \in DOMAIN files /\ files[f] = [archive |-> q, name |-> n] /\ IsFirst(files, f)
      /\ f = 0 => \A j \in DOMAIN files : files[j] # [archive |-> q, name |-> n]
  <2>. HIDE DEF q
  <2>. QED  BY <1>2, FileFound
<1>4. /\ i # 0 => i \in DOMAIN strings /\ Place(strings[i]) = <<f, c, id>>
      /\ i = 0 => \A j \in DOMAIN strings : Place(strings[j]) # <<f, c, id>>
  <2>. HIDE DEF f
  <2>. QED  BY StringFound
<1>. HIDE DEF q, f, i
<1>5. \A j \in DOMAIN files : files[j] = [archive |-> files[j].archive, name |-> files[j].name]
                              /\ files[j].archive \in DOMAIN archives
  BY DEF FilesLinked
<1>6. 0 \notin DOMAIN files /\ 0 \notin DOMAIN archives
  BY DEF FilesLinked, IsTable
<1>7. ASSUME i # 0 PROVE i \in StringsOf(archives, files, strings, <<a, n, id, c>>)
  <2>1. i \in DOMAIN strings /\ strings[i].file = f /\ strings[i].collision = c
        /\ strings[i].identifier = id
    BY <1>4, <1>7 DEF Place
  <2>2. f \in DOMAIN files
    BY <2>1
  <2>3. files[f].archive = q /\ files[f].name = n
    BY <1>3, <1>6, <2>2
  <2>4. archives[q] = a
    BY <1>1, <1>5, <1>6, <2>2, <2>3
  <2>5. IsFirst(files, strings[i].file)
    BY <1>3, <1>6, <2>1, <2>2
  <2>. QED  BY <2>1, <2>3, <2>4, <2>5 DEF StringsOf
<1>8. ASSUME NEW j \in StringsOf(archives, files, strings, <<a, n, id, c>>) PROVE i # 0
  <2>. DEFINE g == strings[j].file
  <2>1. /\ j \in DOMAIN strings /\ archives[files[g].archive] = a /\ files[g].name = n
        /\ strings[j].identifier = id /\ strings[j].collision = c
        /\ IsFirst(files, g)
    BY DEF StringsOf
  <2>2. g \in DOMAIN files
    BY <2>1
  <2>3. Place(strings[j]) = <<g, c, id>>
    BY <2>1 DEF Place
  <2>. HIDE DEF g
  <2>4. files[g].archive = q
    BY <1>1, <1>5, <2>1, <2>2 DEF FilesLinked, Once
  <2>5. files[g] = [archive |-> q, name |-> n]
    BY <1>5, <2>1, <2>2, <2>4
  <2>6. g = f
    BY <1>2, <1>3, <2>1, <2>2, <2>5, OneFirst
  <2>. QED  BY <1>4, <2>1, <2>3, <2>6
<1>. QED  BY <1>7, <1>8 DEF i, f, q

LEMMA PairAtHand ==
    ASSUME Integrity, AtPair
    PROVE  /\ New \in Imports /\ EntryAt \in DOMAIN New /\ EntryAt \in Keys
           /\ New[EntryAt] = TextAt /\ TextAt \in Texts
           /\ EntryAt = <<archives[files[fileId].archive], files[fileId].name,
                          textPairs[at].identifier, Occurrence(textPairs, at)>>
           /\ IsFirst(files, fileId) => StringKnown
<1>. DEFINE text == Head(todo)
            id == textPairs[at].identifier
            c == Occurrence(textPairs, at)
<1>1. /\ stage = "pairs" /\ todo # <<>> /\ fileId \in DOMAIN files
      /\ files[fileId] = [archive |-> archiveId, name |-> text.name]
      /\ archiveId \in DOMAIN archives /\ archives[archiveId] = input
  BY DEF AtPair, Integrity, RunFits
<1>2. /\ text \in TextFile
      /\ \E k \in Contents : \E j \in DOMAIN k.texts : input = k.archive /\ text = k.texts[j]
  BY <1>1, HeadTyped
<1>3. at \in DOMAIN text.pairs /\ textPairs[at].text \in Texts
  <2>1. text.pairs \in Seq(Pair)
    BY <1>2 DEF TextFile, Pair
  <2>2. DOMAIN text.pairs = 1 .. Len(text.pairs)
    <3>. HIDE DEF Pair
    <3>. QED  BY <2>1
  <2>. QED  BY <2>2, PairTyped DEF textPairs
<1>4. /\ New = FileEntries(input, text) /\ EntryAt = TextEntry(input, text, at)
      /\ TextAt = text.pairs[at].text /\ StringAt = QueryString(fileId, c, id)
      /\ EntryAt = <<input, text.name, id, c>>
  BY <1>1 DEF New, EntryAt, TextAt, StringAt, PairString, textPairs, TextEntry
<1>5. New \in Imports
  BY <1>2, <1>4 DEF Imports
<1>6. EntryAt \in DOMAIN New /\ New[EntryAt] = TextAt
  <2>. HIDE DEF text
  <2>1. /\ DOMAIN FileEntries(input, text) = {TextEntry(input, text, k) : k \in DOMAIN text.pairs}
        /\ \A k \in DOMAIN text.pairs :
              FileEntries(input, text)[TextEntry(input, text, k)] = text.pairs[k].text
    BY <1>2, FileEntriesFacts
  <2>. QED  BY <1>3, <1>4, <2>1
<1>7. EntryAt \in Keys
  BY <1>5, <1>6 DEF Keys
<1>8. /\ FilesLinked(archives, files)
      /\ TextsLinked(files, strings, translations, translated)
  BY DEF Integrity
<1>9. IsTable(strings) /\ \A i \in DOMAIN strings : strings[i].file \in DOMAIN files
  BY <1>8 DEF TextsLinked, StringRow
<1>10. QueryArchive(input) = archiveId
  <2>1. IsTable(archives)
    BY <1>8 DEF FilesLinked
  <2>. QED  BY <1>1, <1>8, <2>1, ArchiveFound DEF FilesLinked, Once
<1>11. IsFirst(files, fileId) => QueryFile(archiveId, text.name) = fileId
  <2>1. IsTable(files)
    BY <1>8 DEF FilesLinked
  <2>. HIDE DEF text
  <2>. QED  BY <1>1, <2>1, FoundFirst DEF QueryFile
<1>12. IsFirst(files, fileId) => StringAt = QueryString(QueryFile(QueryArchive(input), text.name), c, id)
  BY <1>4, <1>10, <1>11
<1>. HIDE DEF text, id, c
<1>13. IsFirst(files, fileId) => StringKnown
  BY <1>4, <1>8, <1>9, <1>12, EntryFound DEF StringKnown
<1>14. EntryAt = <<archives[files[fileId].archive], files[fileId].name, id, c>>
  BY <1>1, <1>4
<1>15. TextAt \in Texts
  BY <1>3, <1>4 DEF textPairs, text
<1>. QED  BY <1>5, <1>6, <1>7, <1>13, <1>14, <1>15 DEF text, id, c

LEMMA LineAtHand ==
    ASSUME Integrity, AtLine
    PROVE  /\ New \in Imports /\ EntryAt \in DOMAIN New /\ EntryAt \in Keys
           /\ New[EntryAt] = TextAt /\ TextAt \in Texts /\ StringKnown
<1>1. stage = "table" /\ todo \in Tables
  BY DEF AtLine, Integrity, RunFits
<1>2. todo \in Seq(Line)
  BY <1>1, InputsAssumption DEF Line
<1>3. at \in DOMAIN todo /\ todo[at] \in Line
  <2>1. DOMAIN todo = 1 .. Len(todo)
    <3>. HIDE DEF Line
    <3>. QED  BY <1>2
  <2>. QED  BY <2>1, LineTyped
<1>4. /\ New = TableEntries(todo) /\ EntryAt = LineEntry(todo, at) /\ TextAt = todo[at].text
      /\ StringAt = LineString
      /\ EntryAt = <<todo[at].archive, todo[at].name, todo[at].identifier, Occurrence(todo, at)>>
  BY <1>1 DEF New, EntryAt, TextAt, StringAt, LineEntry
<1>5. New \in Imports
  BY <1>1, <1>4 DEF Imports
<1>6. EntryAt \in DOMAIN New /\ New[EntryAt] = TextAt
  <2>. HIDE DEF Line
  <2>. QED  BY <1>2, <1>3, <1>4, TableEntriesFacts
<1>7. EntryAt \in Keys
  BY <1>5, <1>6 DEF Keys
<1>8. /\ FilesLinked(archives, files)
      /\ TextsLinked(files, strings, translations, translated)
  BY DEF Integrity
<1>9. IsTable(strings) /\ \A i \in DOMAIN strings : strings[i].file \in DOMAIN files
  BY <1>8 DEF TextsLinked, StringRow
<1>10. StringAt = QueryString(QueryFile(QueryArchive(todo[at].archive), todo[at].name),
                              Occurrence(todo, at), todo[at].identifier)
  BY <1>4 DEF LineString
<1>11. StringKnown
  BY <1>4, <1>8, <1>9, <1>10, EntryFound DEF StringKnown
<1>12. TextAt \in Texts
  BY <1>3, <1>4 DEF Line
<1>. QED  BY <1>5, <1>6, <1>7, <1>11, <1>12

\* The next entry.
LEMMA NextEntry ==
    ASSUME Integrity, AtPair \/ AtLine, at' = at + 1, UNCHANGED <<stage, input, todo>>
    PROVE  UNCHANGED New /\ Passed' = Passed \cup {EntryAt}
<1>1. at \in Nat
  BY DEF Integrity, RunTypeOK
<1>2. UNCHANGED New
  BY DEF New
<1>3. CASE AtLine
  <2>1. stage = "table" /\ stage' = "table"
    BY <1>3 DEF AtLine
  <2>2. at \in DOMAIN todo /\ DOMAIN todo \subseteq Nat
    <3>1. todo \in Seq(Line)
      BY <1>3, InputsAssumption DEF Line, AtLine, Integrity, RunFits
    <3>2. DOMAIN todo = 1 .. Len(todo)
      <4>. HIDE DEF Line
      <4>. QED  BY <3>1
    <3>. QED  BY <1>3, <3>2, LineTyped
  <2>3. {j \in DOMAIN todo : j < at + 1} = {j \in DOMAIN todo : j < at} \cup {at}
    BY <1>1, <2>2
  <2>4. /\ Passed = {LineEntry(todo, k) : k \in {j \in DOMAIN todo : j < at}}
        /\ Passed' = {LineEntry(todo, k) : k \in {j \in DOMAIN todo : j < at + 1}}
        /\ EntryAt = LineEntry(todo, at)
    BY <2>1 DEF Passed, EntryAt
  <2>. QED  BY <1>2, <2>3, <2>4
<1>4. CASE AtPair
  <2>1. stage = "pairs" /\ stage' = "pairs" /\ textPairs' = textPairs
    BY <1>4 DEF AtPair, textPairs
  <2>2. at \in DOMAIN textPairs /\ DOMAIN textPairs \subseteq Nat
    <3>1. textPairs \in Seq(Pair)
      BY <2>1, HeadTyped DEF TextFile, Pair, textPairs, Integrity, RunFits
    <3>2. DOMAIN textPairs = 1 .. Len(textPairs)
      <4>. HIDE DEF Pair
      <4>. QED  BY <3>1
    <3>. QED  BY <1>4, <3>2, PairTyped
  <2>3. {j \in DOMAIN textPairs : j < at + 1} = {j \in DOMAIN textPairs : j < at} \cup {at}
    BY <1>1, <2>2
  <2>4. /\ Passed = {TextEntry(input, Head(todo), k) : k \in {j \in DOMAIN textPairs : j < at}}
        /\ Passed' = {TextEntry(input, Head(todo), k) : k \in {j \in DOMAIN textPairs : j < at + 1}}
        /\ EntryAt = TextEntry(input, Head(todo), at)
    BY <2>1 DEF Passed, EntryAt
  <2>. QED  BY <1>2, <2>3, <2>4
<1>. QED  BY <1>3, <1>4

-----------------------------------------------------------------------------
(* What is imported so far is a part of the import.                           *)

LEMMA TakenNone ==
    ASSUME NEW old, old = [e \in Keys |-> old[e]], NEW new
    PROVE  Dict!Taken(old, new, {}) = old
  BY DEF Dict!Taken

LEMMA DictionaryType ==
    /\ source = [e \in Keys |-> source[e]]
    /\ target = [n \in Names |-> target[n]]
    /\ \A n \in Names : target[n] = [e \in Keys |-> target[n][e]]
  BY DEF source, target, SourceIn, TargetIn

\* The dictionary is that of the saved tables, and of the files and archives.
LEMMA SameDictionary ==
    ASSUME UNCHANGED <<archives, files, savedStrings, savedTranslations, savedTranslated>>
    PROVE  UNCHANGED <<source, target>>
  BY DEF source, target

\* Before the first entry nothing has been imported.
Beginning ==
    /\ Passed = {} /\ savedStrings = strings /\ savedTranslations = translations
    /\ savedTranslated = translated

LEMMA BeginFollows == Beginning => Follows({})
<1>. SUFFICES ASSUME Beginning PROVE Follows({})
  OBVIOUS
<1>. USE DEF Beginning
<1>1. /\ source = SourceIn(archives, files, strings)
      /\ target = TargetIn(archives, files, strings, translations, translated)
  BY DEF source, target
<1>2. Dict!Taken(source, New, {}) = source
  BY DictionaryType, TakenNone
<1>3. ASSUME name \in Names
      PROVE  [target EXCEPT ![name] = Dict!Taken(@, New, {})] = target
  BY <1>3, DictionaryType, TakenNone
<1>4. name \notin Names => [target EXCEPT ![name] = Dict!Taken(@, New, {})] = target
  BY DictionaryType
<1>5. {} \cap Dict!Differing(New, source) = {}
  OBVIOUS
<1>. QED  BY <1>1, <1>2, <1>3, <1>4, <1>5 DEF Follows

\* What the tables say now, in a transaction or not.
Source == SourceIn(archives, files, strings)
Target == TargetIn(archives, files, strings, translations, translated)

LEMMA TablesType ==
    /\ Source = [e \in Keys |-> Source[e]]
    /\ Target = [n \in Names |-> Target[n]]
    /\ \A n \in Names : Target[n] = [e \in Keys |-> Target[n][e]]
  BY DEF Source, Target, SourceIn, TargetIn

LEMMA TakenTwice ==
    ASSUME NEW old, NEW new, NEW part, NEW more
    PROVE  Dict!Taken(Dict!Taken(old, new, part), new, more) = Dict!Taken(old, new, part \cup more)
  BY DEF Dict!Taken

LEMMA TakenOne ==
    ASSUME NEW old, old = [e \in Keys |-> old[e]], NEW new, NEW e0
    PROVE  Dict!Taken(old, new, {e0}) = [old EXCEPT ![e0] = new[e0]]
  BY DEF Dict!Taken

\* A step that deals with the entry at hand.
EntryStep ==
    /\ AtPair \/ AtLine
    /\ at' = at + 1
    /\ UNCHANGED <<archives, files, translations, journal, stage, name, input, todo>>
    /\ name # NoName => UNCHANGED strings

\* What it adds to the tables: the entry, or nothing.
Adds(add) ==
    /\ add \in {{}, {EntryAt}} /\ (flaw' = "none" => flaw = "none" /\ add = {EntryAt})
    /\ IF name = NoName THEN Source' = Dict!Taken(Source, New, add) /\ UNCHANGED Target
       ELSE Target' = [Target EXCEPT ![name] = Dict!Taken(@, New, add \cap Dict!Differing(New, Source))]

LEMMA SourceTaken == Dict!Taken(Source, New, {EntryAt}) = [Source EXCEPT ![EntryAt] = New[EntryAt]]
<1>1. Source = [e \in Keys |-> Source[e]]
  BY TablesType
<1>. QED  BY <1>1 DEF Dict!Taken

LEMMA AddNothing ==
    ASSUME Integrity, EntryStep, UNCHANGED <<Source, Target>>, flaw' # "none"
    PROVE  Adds({})
<1>1. Dict!Taken(Source, New, {}) = Source
  BY TablesType, TakenNone
<1>2. ASSUME name # NoName PROVE [Target EXCEPT ![name] = Dict!Taken(@, New, {})] = Target
  <2>1. name \in Names
    BY <1>2 DEF Integrity, RunTypeOK
  <2>. QED  BY <2>1, TablesType, TakenNone
<1>3. {} \cap Dict!Differing(New, Source) = {}
  OBVIOUS
<1>. QED  BY <1>1, <1>2, <1>3 DEF Adds

\* What the tables say of the entry at hand.
LEMMA SourceAt ==
    ASSUME Integrity, EntryAt \in Keys, StringKnown
    PROVE  Source[EntryAt] = IF StringAt = 0 THEN NoString ELSE strings[StringAt].value
<1>1. /\ FilesLinked(archives, files)
      /\ TextsLinked(files, strings, translations, translated)
  BY DEF Integrity
<1>. QED  BY <1>1, SourceFacts DEF Source, StringKnown

\* An entry is one to translate if its string has another text.
LEMMA DiffersAt ==
    ASSUME Integrity, EntryAt \in Keys, EntryAt \in DOMAIN New, New[EntryAt] = TextAt, StringKnown
    PROVE  EntryAt \in Dict!Differing(New, Source) <=>
              StringAt # 0 /\ strings[StringAt].value # TextAt
<1>1. Source[EntryAt] = IF StringAt = 0 THEN NoString ELSE strings[StringAt].value
  BY SourceAt
<1>2. StringAt # 0 => strings[StringAt].value # NoString
  <2>1. \A i \in DOMAIN strings : strings[i].value \in Texts \cup {Empty}
    BY DEF Integrity, TextsLinked, StringRow
  <2>2. StringAt # 0 => StringAt \in DOMAIN strings
    BY DEF StringsOf, StringKnown
  <2>. QED  BY <2>1, <2>2, NoStringAssumption
<1>. QED  BY <1>1, <1>2 DEF Dict!Differing

\* An entry that is not to be translated.
LEMMA AddSame ==
    ASSUME Integrity, EntryStep, UNCHANGED <<Source, Target>>, flaw' = "none" => flaw = "none",
           name # NoName, EntryAt \notin Dict!Differing(New, Source)
    PROVE  Adds({EntryAt})
<1>1. name \in Names
  BY DEF Integrity, RunTypeOK
<1>2. {EntryAt} \cap Dict!Differing(New, Source) = {}
  OBVIOUS
<1>3. [Target EXCEPT ![name] = Dict!Taken(@, New, {})] = Target
  BY <1>1, TablesType, TakenNone
<1>. QED  BY <1>2, <1>3 DEF Adds

LEMMA OriginalAdds == ASSUME Integrity, ImportOriginal PROVE EntryStep /\ \E add : Adds(add)
<1>. DEFINE row == [file |-> fileId, collision |-> Occurrence(textPairs, at),
                    identifier |-> textPairs[at].identifier, value |-> textPairs[at].text]
<1>1. /\ AtPair /\ name = NoName /\ stage = "pairs" /\ fileId \in DOMAIN files
      /\ UNCHANGED <<archives, files, translations, translated, journal, stage, name, input, todo, flaw>>
      /\ at' = at + 1
  BY DEF ImportOriginal, NextPair, PutString, AtPair, Integrity, RunTypeOK, RunFits
<1>2. /\ FilesLinked(archives, files)
      /\ TextsLinked(files, strings, translations, translated)
  BY DEF Integrity
<1>3. row \in StringRow(DOMAIN files) /\ row.value = textPairs[at].text /\ row.file = fileId
  <2>1. at \in Nat /\ textPairs[at].identifier \in Identifiers /\ textPairs[at].text \in Texts
    BY <1>1, PairTyped
  <2>2. Occurrence(textPairs, at) \in Nat
    BY <2>1, OccurrenceType
  <2>. QED  BY <1>1, <2>1, <2>2 DEF StringRow
<1>4. /\ EntryAt \in Keys /\ New[EntryAt] = row.value
      /\ EntryAt = <<archives[files[row.file].archive], files[row.file].name, row.identifier, row.collision>>
      /\ IsFirst(files, fileId) =>
            /\ PairString # 0 => PairString \in StringsOf(archives, files, strings, EntryAt)
            /\ PairString = 0 => StringsOf(archives, files, strings, EntryAt) = {}
  BY <1>1, <1>3, PairAtHand DEF StringAt, TextAt, StringKnown
<1>5. PICK i \in Nat \ {0} :
         /\ strings' = Put(strings, i, row)
         /\ i \in DOMAIN strings => strings[i].file = fileId
         /\ IsFirst(files, fileId) =>
               \/ i \notin DOMAIN strings /\ StringsOf(archives, files, strings, EntryAt) = {}
               \/ i \in StringsOf(archives, files, strings, EntryAt)
  <2>1. IsTable(strings)
    BY <1>2 DEF TextsLinked
  <2>2. CASE PairString = 0 /\ PutString(NewId(strings))
    BY <1>4, <2>1, <2>2, NewIdFacts DEF PutString
  <2>3. CASE Differs /\ PutString(PairString)
    <3>1. PairString \in DOMAIN strings /\ strings[PairString].file = fileId
      BY <2>1, <2>3, StringFound DEF Differs, PairString, Place
    <3>2. PairString \in Nat \ {0}
      BY <2>1, <3>1 DEF IsTable
    <3>3. IsFirst(files, fileId) => PairString \in StringsOf(archives, files, strings, EntryAt)
      BY <1>4, <2>3 DEF Differs
    <3>. QED  BY <2>3, <3>1, <3>2, <3>3 DEF PutString
  <2>. QED  BY <2>2, <2>3 DEF ImportOriginal
<1>. HIDE DEF row
<1>6. EntryStep
  BY <1>1 DEF EntryStep
<1>7. CASE IsFirst(files, fileId)
  <2>1. /\ SourceIn(archives, files, strings') =
              [SourceIn(archives, files, strings) EXCEPT ![EntryAt] = row.value]
        /\ TargetIn(archives, files, strings', translations, translated) =
              TargetIn(archives, files, strings, translations, translated)
    BY <1>2, <1>3, <1>4, <1>5, <1>7, StringPut
  <2>2. Source' = [Source EXCEPT ![EntryAt] = New[EntryAt]] /\ UNCHANGED Target
    BY <1>1, <1>4, <2>1 DEF Source, Target
  <2>3. Source' = Dict!Taken(Source, New, {EntryAt})
    BY <2>2, SourceTaken
  <2>4. Adds({EntryAt})
    BY <1>1, <2>2, <2>3 DEF Adds
  <2>. QED  BY <1>6, <2>4
<1>8. CASE ~IsFirst(files, fileId)
  <2>1. UNCHANGED <<Source, Target>>
    BY <1>1, <1>2, <1>3, <1>5, <1>8, StringPutAside DEF Source, Target
  <2>2. flaw' # "none"
    BY <1>1, <1>8 DEF Integrity, RunFits, OffCourse
  <2>. QED  BY <1>6, <2>1, <2>2, AddNothing
<1>. QED  BY <1>7, <1>8

LEMMA PassAdds == ASSUME Integrity, PassPair \/ MissPair PROVE EntryStep /\ \E add : Adds(add)
<1>1. /\ AtPair /\ stage = "pairs"
      /\ UNCHANGED <<archives, files, strings, translations, translated, journal, stage, name,
                     input, todo>>
      /\ at' = at + 1
  BY DEF PassPair, MissPair, NextPair, AtPair
<1>2. EntryStep /\ UNCHANGED <<Source, Target>>
  BY <1>1 DEF EntryStep, Source, Target
<1>3. CASE MissPair \/ ~IsFirst(files, fileId)
  <2>1. flaw' # "none"
    BY <1>1, <1>3 DEF PassPair, MissPair, Integrity, RunFits, OffCourse
  <2>. QED  BY <1>2, <2>1, AddNothing
<1>4. CASE PassPair /\ IsFirst(files, fileId)
  <2>1. /\ EntryAt \in Keys /\ EntryAt \in DOMAIN New /\ New[EntryAt] = TextAt /\ StringKnown
    BY <1>1, <1>4, PairAtHand
  <2>2. /\ ~(StringAt # 0 /\ strings[StringAt].value # TextAt) /\ (StringAt # 0 \/ name # NoName)
        /\ UNCHANGED flaw
    BY <1>1, <1>4 DEF PassPair, Differs, StringAt, TextAt
  <2>3. CASE name = NoName
    <3>1. Source[EntryAt] = New[EntryAt]
      BY <2>1, <2>2, <2>3, SourceAt
    <3>2. [Source EXCEPT ![EntryAt] = New[EntryAt]] = Source
      BY <3>1, TablesType
    <3>3. Source' = Dict!Taken(Source, New, {EntryAt})
      BY <1>2, <3>2, SourceTaken
    <3>4. Adds({EntryAt})
      BY <1>2, <2>2, <2>3, <3>3 DEF Adds
    <3>. QED  BY <1>2, <3>4
  <2>4. CASE name # NoName
    <3>1. EntryAt \notin Dict!Differing(New, Source)
      BY <2>1, <2>2, DiffersAt
    <3>. QED  BY <1>2, <2>2, <2>4, <3>1, AddSame
  <2>. QED  BY <2>3, <2>4
<1>. QED  BY <1>3, <1>4

\* A translation is put in for the string of the entry at hand.
LEMMA TranslatedAt ==
    ASSUME Integrity, EntryStep, name # NoName, EntryAt \in Keys, EntryAt \in DOMAIN New,
           New[EntryAt] = TextAt, TextAt \in Texts,
           StringKnown, StringAt # 0, strings[StringAt].value # TextAt,
           PutTranslationString(StringAt, TextAt), "orphans" \notin mishaps',
           translationId # 0, UNCHANGED flaw
    PROVE  \E add : Adds(add)
<1>1. /\ FilesLinked(archives, files)
      /\ TextsLinked(files, strings, translations, translated)
  BY DEF Integrity
<1>2. /\ translated' = Put(translated, <<translationId, StringAt>>, TextAt)
      /\ translationId \in DOMAIN translations /\ translations[translationId] = name
      /\ StringAt \in StringsOf(archives, files, strings, EntryAt)
      /\ UNCHANGED <<archives, files, strings, translations>> /\ name \in Names
  BY DEF PutTranslationString, Note, Integrity, RunTypeOK, RunFits, StringKnown, EntryStep
<1>3. CASE IsFirst(translations, translationId)
  <2>1. TargetIn(archives, files, strings, translations, Put(translated, <<translationId, StringAt>>, TextAt)) =
           [TargetIn(archives, files, strings, translations, translated) EXCEPT
               ![translations[translationId]] = [@ EXCEPT ![EntryAt] = TextAt]]
    BY <1>1, <1>2, <1>3, TranslatedPut
  <2>2. Target' = [Target EXCEPT ![name] = [@ EXCEPT ![EntryAt] = New[EntryAt]]]
    BY <1>2, <2>1 DEF Target
  <2>3. EntryAt \in Dict!Differing(New, Source)
    BY DiffersAt
  <2>4. {EntryAt} \cap Dict!Differing(New, Source) = {EntryAt}
    BY <2>3
  <2>5. Dict!Taken(Target[name], New, {EntryAt}) = [Target[name] EXCEPT ![EntryAt] = New[EntryAt]]
    BY <1>2, TablesType, TakenOne
  <2>6. Target' = [Target EXCEPT ![name] = Dict!Taken(@, New, {EntryAt})]
    BY <2>2, <2>5
  <2>7. Adds({EntryAt})
    BY <2>4, <2>6 DEF Adds
  <2>. QED  BY <2>7
<1>4. CASE ~IsFirst(translations, translationId)
  <2>1. UNCHANGED <<Source, Target>>
    BY <1>2, <1>4, TranslatedPutAside DEF Source, Target
  <2>2. Astray
    <3>1. IsTable(translations)
      BY <1>1 DEF TextsLinked
    <3>. QED  BY <1>2, <1>4, <3>1, TranslationFound DEF Astray
  <2>3. flaw' # "none"
    BY <2>2 DEF EntryStep, AtPair, AtLine, Integrity, RunFits, OffCourse
  <2>. QED  BY <2>1, <2>3, AddNothing
<1>. QED  BY <1>3, <1>4

LEMMA TranslatedAdds ==
    ASSUME Integrity, ImportTranslated, "orphans" \notin mishaps'
    PROVE  EntryStep /\ \E add : Adds(add)
<1>1. /\ AtPair /\ stage = "pairs" /\ name # NoName /\ translationId # 0 /\ Differs
      /\ UNCHANGED <<archives, files, strings, translations, journal, stage, name, input, todo, flaw>>
      /\ at' = at + 1
      /\ PutTranslationString(PairString, textPairs[at].text)
  BY DEF ImportTranslated, NextPair, AtPair
<1>2. EntryStep
  BY <1>1 DEF EntryStep
<1>3. IsFirst(files, fileId)
  <2>1. PairString \in DOMAIN strings /\ strings[PairString].file = fileId
    <3>1. IsTable(strings) /\ PairString # 0
      BY <1>1 DEF TextsLinked, Integrity, Differs
    <3>. QED  BY <3>1, StringFound DEF PairString, Place
  <2>. QED  BY <1>1, <2>1 DEF Integrity, RunFits
<1>4. /\ EntryAt \in Keys /\ EntryAt \in DOMAIN New /\ New[EntryAt] = TextAt /\ TextAt \in Texts
      /\ StringKnown
  BY <1>1, <1>3, PairAtHand
<1>5. /\ StringAt # 0 /\ strings[StringAt].value # TextAt /\ PutTranslationString(StringAt, TextAt)
  BY <1>1 DEF Differs, StringAt, TextAt
<1>. QED  BY <1>1, <1>2, <1>4, <1>5, TranslatedAt

LEMMA LineAdds ==
    ASSUME Integrity, ImportLine \/ PassLine \/ LineFails, "orphans" \notin mishaps'
    PROVE  EntryStep /\ \E add : Adds(add)
<1>1. /\ AtLine /\ stage = "table"
      /\ UNCHANGED <<archives, files, strings, translations, journal, stage, name, input, todo>>
      /\ at' = at + 1
  BY DEF ImportLine, PassLine, LineFails, NextLine, AtLine
<1>2. EntryStep
  BY <1>1 DEF EntryStep
<1>3. translationId # 0 /\ name # NoName
  <2>1. translationId \in DOMAIN translations
    BY <1>1 DEF Integrity, RunFits
  <2>2. translationId # 0
    BY <2>1 DEF Integrity, TextsLinked, IsTable
  <2>. QED  BY <2>2, NoNameAssumption DEF Integrity, RunFits
<1>4. /\ EntryAt \in Keys /\ EntryAt \in DOMAIN New /\ New[EntryAt] = TextAt /\ TextAt \in Texts
      /\ StringKnown
  BY <1>1, LineAtHand
<1>5. CASE ImportLine
  <2>1. /\ StringAt # 0 /\ strings[StringAt].value # TextAt /\ UNCHANGED flaw
        /\ PutTranslationString(StringAt, TextAt)
    BY <1>1, <1>5 DEF ImportLine, StringAt, TextAt
  <2>. QED  BY <1>2, <1>3, <1>4, <2>1, TranslatedAt
<1>6. CASE PassLine
  <2>1. /\ ~(StringAt # 0 /\ strings[StringAt].value # TextAt) /\ UNCHANGED <<flaw, translated>>
    BY <1>1, <1>6 DEF PassLine, StringAt, TextAt
  <2>2. EntryAt \notin Dict!Differing(New, Source)
    BY <1>4, <2>1, DiffersAt
  <2>3. UNCHANGED <<Source, Target>>
    BY <1>1, <2>1 DEF Source, Target
  <2>. QED  BY <1>2, <1>3, <2>1, <2>2, <2>3, AddSame
<1>7. CASE LineFails
  <2>1. UNCHANGED <<Source, Target>> /\ flaw' # "none"
    BY <1>1, <1>7 DEF LineFails, Source, Target
  <2>. QED  BY <1>2, <2>1, AddNothing
<1>. QED  BY <1>5, <1>6, <1>7

AddingStep ==
    \/ ImportOriginal \/ PassPair \/ MissPair \/ ImportTranslated
    \/ ImportLine \/ PassLine \/ LineFails

LEMMA StepAdds ==
    ASSUME Integrity, AddingStep, "orphans" \notin mishaps'
    PROVE  EntryStep /\ \E add : Adds(add)
  BY OriginalAdds, PassAdds, TranslatedAdds, LineAdds DEF AddingStep

LEMMA MishapsStay == [DatabaseNext]_databaseVars => mishaps \subseteq mishaps'
  BY DEF DatabaseNext, Run, DatabaseStep, OpenArchive, SkipFile, FindArchive, FindFile, ImportOriginal,
         FindTranslation, ImportTranslated, PassPair, MissPair, PutString, NextPair, EndFile, PairFails,
         AllPairs, Finish, RollsBack, OpenTable, ImportLine, PassLine, LineFails, NextLine, EndTable,
         ClearValues, DropStrings, DropFiles, DropArchives, Strip, Kill, Rollback, PutTranslationString,
         Note, databaseVars

\* In a transaction, what is added is added to what was done.
LEMMA AddsFollow ==
    ASSUME Integrity, ImportFollowed, journal.open, "orphans" \notin mishaps, EntryStep,
           NEW add, Adds(add)
    PROVE  ImportFollowed'
<1>1. PICK part \in IF flaw = "none" THEN {Passed} ELSE SUBSET Passed : Follows(part)
  BY DEF ImportFollowed
<1>. DEFINE more == part \cup add
<1>2. UNCHANGED <<source, target, name>>
  <2>1. UNCHANGED <<savedStrings, savedTranslations, savedTranslated>>
    BY SavedStay DEF EntryStep
  <2>. QED  BY <2>1, SameDictionary DEF EntryStep
<1>3. UNCHANGED New /\ Passed' = Passed \cup {EntryAt}
  BY NextEntry DEF EntryStep
<1>4. more \in IF flaw' = "none" THEN {Passed'} ELSE SUBSET (Passed')
  BY <1>1, <1>3 DEF Adds
<1>5. Follows(more)'
  <2>1. CASE name = NoName
    <3>1. Source = Dict!Taken(source, New, part) /\ Target = target
      BY <1>1, <2>1 DEF Follows, Source, Target
    <3>2. Source' = Dict!Taken(source, New, more) /\ Target' = target
      BY <2>1, <3>1, TakenTwice DEF Adds
    <3>. QED  BY <1>2, <1>3, <2>1, <3>2 DEF Follows, Source, Target
  <2>2. CASE name # NoName
    <3>. DEFINE D == Dict!Differing(New, source)
    <3>1. Source = source
      BY <2>2 DEF Integrity, SavedFits, Source, source
    <3>2. name \in Names
      BY <2>2 DEF Integrity, RunTypeOK
    <3>3. Target = [target EXCEPT ![name] = Dict!Taken(@, New, part \cap D)]
      BY <1>1, <2>2 DEF Follows, Target
    <3>4. Target' = [Target EXCEPT ![name] = Dict!Taken(@, New, add \cap D)]
      BY <2>2, <3>1 DEF Adds
    <3>5. more \cap D = (part \cap D) \cup (add \cap D)
      OBVIOUS
    <3>6. Dict!Taken(Dict!Taken(target[name], New, part \cap D), New, add \cap D)
             = Dict!Taken(target[name], New, more \cap D)
      BY <3>5, TakenTwice
    <3>7. target = [n \in Names |-> target[n]]
      BY DictionaryType
    <3>8. Target' = [target EXCEPT ![name] = Dict!Taken(@, New, more \cap D)]
      <4>. HIDE DEF D, more
      <4>. QED  BY <3>2, <3>3, <3>4, <3>6, <3>7
    <3>. QED  BY <1>2, <1>3, <2>2, <3>8 DEF Follows, Target
  <2>. QED  BY <2>1, <2>2
<1>. QED  BY <1>4, <1>5 DEF ImportFollowed

\* Naming a translation adds nothing.
LEMMA NamingSilent ==
    ASSUME Integrity, NEW n \in Names, NEW found \in Lookup(QueryTranslation(n)), NEW i,
           i = RowFor(found, translations), "orphans" \notin mishaps
    PROVE  TargetIn(archives, files, strings, Put(translations, i, n), translated) = Target
<1>1. TranslationIsPut(n, i, Put(translations, i, n), found = QueryTranslation(n))
  BY TranslationPut
<1>2. NoOrphans(translations, translated)
  BY DEF Integrity, NoneTwice
<1>. DEFINE new == Put(translations, i, n)
<1>3. \A j \in DOMAIN translations : /\ j \in DOMAIN new /\ new[j] = translations[j]
                                     /\ IsFirst(new, j) <=> IsFirst(translations, j)
  <2>. HIDE DEF new
  <2>1. RowIsPut(translations, i, n, new)
    BY <1>1 DEF TranslationIsPut, new
  <2>. QED  BY <2>1 DEF RowIsPut
<1>. HIDE DEF new
<1>4. TargetIn(archives, files, strings, new, translated) = Target
  BY <1>2, <1>3, TranslationNamed DEF Target
<1>. QED  BY <1>4 DEF new

LEMMA FindTranslationSilent ==
    ASSUME Integrity, FindTranslation, "orphans" \notin mishaps
    PROVE  UNCHANGED <<Source, Target>> /\ (flaw' = "none" => flaw = "none")
<1>1. PICK found \in Lookup(QueryTranslation(name)) :
         /\ translationId' = RowFor(found, translations)
         /\ flaw' = IF found # QueryTranslation(name) THEN "unnoticed" ELSE flaw
         /\ translations' = Put(translations, translationId', name)
  BY DEF FindTranslation
<1>2. name \in Names /\ UNCHANGED <<archives, files, strings, translated>>
  BY DEF FindTranslation, Integrity, RunTypeOK
<1>3. TargetIn(archives, files, strings, translations', translated) = Target
  BY <1>1, <1>2, NamingSilent
<1>. QED  BY <1>1, <1>2, <1>3 DEF Source, Target

LEMMA FindTranslationFollows ==
    ASSUME Integrity, ImportFollowed, FindTranslation PROVE ImportFollowed'
<1>. SUFFICES ASSUME journal'.open, "orphans" \notin mishaps'
              PROVE  \E part \in IF flaw' = "none" THEN {Passed'} ELSE SUBSET (Passed') : Follows(part)'
  BY DEF ImportFollowed
<1>1. /\ journal.open /\ "orphans" \notin mishaps /\ name # NoName
      /\ UNCHANGED <<archives, files, journal, strings, stage, name, input, todo, at>>
  BY DEF FindTranslation, Note
<1>2. UNCHANGED <<source, target>>
  <2>1. UNCHANGED <<savedStrings, savedTranslations, savedTranslated>>
    BY <1>1, SavedStay
  <2>. QED  BY <1>1, <2>1, SameDictionary
<1>3. UNCHANGED <<New, Passed>>
  BY <1>1 DEF New, Passed, textPairs
<1>4. UNCHANGED <<Source, Target>> /\ (flaw' = "none" => flaw = "none")
  BY <1>1, FindTranslationSilent
<1>5. PICK part \in IF flaw = "none" THEN {Passed} ELSE SUBSET Passed : Follows(part)
  BY <1>1 DEF ImportFollowed
<1>6. Follows(part)'
  BY <1>1, <1>2, <1>3, <1>4, <1>5 DEF Follows, Target
<1>7. part \in IF flaw' = "none" THEN {Passed'} ELSE SUBSET (Passed')
  BY <1>3, <1>4, <1>5
<1>. QED  BY <1>6, <1>7

LEMMA NextFollows ==
    Integrity /\ ImportFollowed /\ [DatabaseNext]_databaseVars => ImportFollowed'
<1>. SUFFICES ASSUME Integrity, ImportFollowed, [DatabaseNext]_databaseVars PROVE ImportFollowed'
  OBVIOUS
<1>0. mishaps \subseteq mishaps'
  BY MishapsStay
<1>1. CASE journal'.open = FALSE
  BY <1>1 DEF ImportFollowed
<1>2. CASE UNCHANGED databaseVars
  <2>1. /\ UNCHANGED <<savedStrings, savedTranslations, savedTranslated, New, Passed, mishaps>>
        /\ UNCHANGED <<archives, files, strings, translations, translated, journal, name, flaw>>
    BY <1>2 DEF databaseVars, tables, run, savedStrings, savedTranslations, savedTranslated,
                Committed, New, Passed, textPairs
  <2>2. UNCHANGED <<source, target>>
    BY <2>1, SameDictionary
  <2>3. \A part : Follows(part)' <=> Follows(part)
    BY <2>1, <2>2 DEF Follows
  <2>. QED  BY <2>1, <2>3 DEF ImportFollowed
<1>3. CASE FindFile
  <2>1. /\ Passed' = {} /\ savedStrings' = strings' /\ savedTranslations' = translations'
        /\ savedTranslated' = translated'
    <3>1. at' = 1 /\ stage' = "pairs" /\ textPairs' \in Seq(Pair)
      <4>1. Head(todo) \in TextFile
        BY <1>3, HeadTyped DEF FindFile, Integrity, RunFits
      <4>. QED  BY <1>3, <4>1 DEF FindFile, textPairs, TextFile, Pair
    <3>2. \A j \in DOMAIN textPairs' : ~(j < 1)
      <4>. HIDE DEF Pair
      <4>1. DOMAIN textPairs' = 1 .. Len(textPairs')
        BY <3>1
      <4>. QED  BY <4>1
    <3>3. Passed' = {}
      BY <3>1, <3>2 DEF Passed
    <3>. QED  BY <1>3, <3>3 DEF FindFile, Begin, BeginWith, savedStrings, savedTranslations,
                                savedTranslated, Committed
  <2>2. Follows({})'
    <3>1. Beginning'
      BY <2>1 DEF Beginning
    <3>. QED  BY <3>1, BeginFollows, PTL
  <2>. QED  BY <2>1, <2>2 DEF ImportFollowed
<1>4. CASE \E lines \in Tables, n \in Names : OpenTable(lines, n)
  <2>1. /\ Passed' = {} /\ savedStrings' = strings' /\ savedTranslations' = translations'
        /\ savedTranslated' = translated'
    <3>1. PICK lines \in Tables, n \in Names : OpenTable(lines, n)
      BY <1>4
    <3>2. at' = 1 /\ stage' = "table" /\ todo' \in Seq(Line)
      BY <3>1, InputsAssumption DEF OpenTable, Line
    <3>3. \A j \in DOMAIN todo' : ~(j < 1)
      <4>. HIDE DEF Line
      <4>1. DOMAIN todo' = 1 .. Len(todo')
        BY <3>2
      <4>. QED  BY <4>1
    <3>4. Passed' = {}
      BY <3>2, <3>3 DEF Passed
    <3>. QED  BY <3>1, <3>4 DEF OpenTable, BeginWith, savedStrings, savedTranslations,
                                savedTranslated, Committed
  <2>2. Follows({})'
    <3>1. Beginning'
      BY <2>1 DEF Beginning
    <3>. QED  BY <3>1, BeginFollows, PTL
  <2>. QED  BY <2>1, <2>2 DEF ImportFollowed
<1>5. CASE AddingStep
  <2>. SUFFICES ASSUME journal'.open, "orphans" \notin mishaps' PROVE ImportFollowed'
    BY DEF ImportFollowed
  <2>1. EntryStep /\ \E add : Adds(add)
    BY <1>5, StepAdds
  <2>2. journal.open /\ "orphans" \notin mishaps
    BY <1>0, <2>1 DEF EntryStep
  <2>. QED  BY <2>1, <2>2, AddsFollow
<1>6. CASE \/ \E content \in Contents, n \in Names \cup {NoName} : OpenArchive(content, n)
           \/ SkipFile \/ FindArchive \/ Finish
           \/ ClearValues \/ DropStrings \/ DropFiles \/ DropArchives
  <2>1. ~journal.open /\ UNCHANGED journal
    BY <1>6 DEF OpenArchive, SkipFile, FindArchive, Finish, ClearValues, DropStrings, DropFiles,
                DropArchives, Strip, Integrity, RunTypeOK
  <2>. QED  BY <2>1 DEF ImportFollowed
<1>7. CASE PairFails \/ AllPairs \/ EndTable \/ Kill \/ RollsBack
  <2>1. ~journal'.open
    BY <1>7 DEF PairFails, AllPairs, EndFile, EndTable, End, Kill, RollsBack, Rollback, NoJournal
  <2>. QED  BY <2>1 DEF ImportFollowed
<1>8. CASE FindTranslation
  BY <1>8, FindTranslationFollows
<1>. QED  BY <1>2, <1>3, <1>4, <1>5, <1>6, <1>7, <1>8 DEF DatabaseNext, Run, DatabaseStep, AddingStep

\* While an import is under way the tables stand for the dictionary as it was and for
\* the part of the import that is done.
THEOREM ImportsFollowed == DatabaseSpec => []ImportFollowed
<1>1. DatabaseInit => ImportFollowed
  BY DEF DatabaseInit, NoJournal, ImportFollowed
<1>. QED  BY <1>1, IntegrityKept, NextFollows, PTL DEF DatabaseSpec

-----------------------------------------------------------------------------
(* The database implements the dictionary.                                    *)

\* Steps that no committed table, file or archive tells of: they begin something, or
\* tell that an import takes nothing in.
LEMMA Silent ==
    ASSUME UNCHANGED <<source, target>>, flaw = "none" /\ flaw' # "none" => Imports # {}
    PROVE  [Dict!DictNext]_(Dict!dictionary)
<1>1. CASE flaw' = "none"
  BY <1>1 DEF Dict!DictNext, Dict!Begin
<1>2. CASE flaw = "none" /\ flaw' # "none"
  <2>1. PICK new \in Imports : TRUE
    BY <1>2
  <2>2. source' = Dict!Taken(source, new, {})
    BY DictionaryType, TakenNone
  <2>3. Dict!Part(new, {}) /\ {} \in SUBSET DOMAIN new
    BY <1>2 DEF Dict!Part
  <2>4. Dict!ImportOriginals(new)
    BY <2>2, <2>3 DEF Dict!ImportOriginals
  <2>. QED  BY <2>1, <2>4 DEF Dict!DictNext
<1>3. CASE flaw # "none" /\ flaw' # "none"
  BY <1>3 DEF Dict!dictionary
<1>. QED  BY <1>1, <1>2, <1>3

LEMMA SomethingImported ==
    ASSUME Integrity, stage \in {"lookup", "pairs", "table"} PROVE Imports # {}
<1>1. CASE stage = "table"
  BY <1>1 DEF Integrity, RunFits, Imports
<1>2. CASE stage \in {"lookup", "pairs"}
  <2>1. \E c \in Contents : \E k \in DOMAIN c.texts : TRUE
    BY <1>2, HeadTyped DEF Integrity, RunFits
  <2>. QED  BY <2>1, ContentFacts
<1>. QED  BY <1>1, <1>2

\* Outside of a transaction, the tables are what is committed.
LEMMA NowCommitted == ~journal.open => source = Source /\ target = Target
  BY SavedClosed DEF source, target, Source, Target

LEMMA SimulateInit == DatabaseInit => Dict!DictInit
<1>. SUFFICES ASSUME DatabaseInit PROVE Dict!DictInit
  OBVIOUS
<1>1. savedStrings = EmptyTable /\ savedTranslated = EmptyTable /\ flaw = "none"
  BY DEF DatabaseInit, NoJournal, savedStrings, savedTranslated, Committed
<1>2. /\ source = [e \in Keys |-> NoString]
      /\ target = [n \in Names |-> [e \in Keys |-> NoString]]
  BY <1>1, NothingSaid DEF source, target
<1>. QED  BY <1>1, <1>2 DEF Dict!DictInit

LEMMA FileIsPut ==
    ASSUME Integrity, FindFile
    PROVE  RowIsPut(files, fileId', [archive |-> archiveId, name |-> Head(todo).name], files')
<1>. DEFINE row == [archive |-> archiveId, name |-> Head(todo).name]
            there == QueryFile(archiveId, Head(todo).name)
<1>1. PICK found \in Lookup(there) : fileId' = RowFor(found, files) /\ files' = Put(files, fileId', row)
  BY DEF FindFile
<1>2. IsTable(files)
  BY DEF Integrity, FilesLinked
<1>3. there # 0 => there \in DOMAIN files /\ files[there] = row
  BY <1>2, FileFound
<1>. HIDE DEF row, there
<1>4. MayPut(files, fileId', row)
  BY <1>1, <1>3 DEF MayPut, Lookup, RowFor
<1>5. RowIsPut(files, fileId', row, files')
  BY <1>1, <1>2, <1>4, RowPut
<1>. QED  BY <1>5 DEF row

\* Files and archives come and go; those of the strings stay.
LEMMA SimulateFiles ==
    ASSUME Integrity, FindArchive \/ FindFile \/ DropFiles \/ DropArchives
    PROVE  [Dict!DictNext]_(Dict!dictionary)
<1>1. /\ ~journal.open
      /\ UNCHANGED <<strings, translations, translated>>
      /\ UNCHANGED flaw \/ stage = "lookup"
  BY DEF FindArchive, FindFile, DropFiles, DropArchives, Strip, Integrity, RunTypeOK
<1>2. /\ savedStrings = strings /\ savedTranslations = translations /\ savedTranslated = translated
      /\ savedStrings' = strings /\ savedTranslations' = translations
      /\ savedTranslated' = translated
  <2>1. CASE FindFile
    <3>1. journal' = [strings |-> strings, translations |-> translations,
                      translated |-> translated, open |-> TRUE]
      BY <2>1 DEF FindFile, Begin, BeginWith
    <3>. QED  BY <1>1, <3>1, SavedClosed DEF savedStrings, savedTranslations, savedTranslated, Committed
  <2>2. CASE FindArchive \/ DropFiles \/ DropArchives
    <3>1. journal' = journal
      BY <2>2 DEF FindArchive, DropFiles, DropArchives, Strip
    <3>. QED  BY <1>1, <3>1, SavedClosed DEF savedStrings, savedTranslations, savedTranslated, Committed
  <2>. QED  BY <2>1, <2>2
<1>3. /\ FilesLinked(archives, files)
      /\ \A i \in DOMAIN strings : strings[i].file \in DOMAIN files
      /\ \A i \in DOMAIN files : files[i].archive \in DOMAIN archives
  BY DEF Integrity, FilesLinked, TextsLinked, StringRow
<1>4. \A i \in DOMAIN strings :
         /\ files'[strings[i].file] = files[strings[i].file]
         /\ IsFirst(files', strings[i].file) <=> IsFirst(files, strings[i].file)
         /\ archives'[files[strings[i].file].archive] = archives[files[strings[i].file].archive]
  <2>1. CASE FindArchive
    <3>1. archiveId' \in DOMAIN archives => archives[archiveId'] = input
      <4>1. IsTable(archives)
        BY <1>3 DEF FilesLinked
      <4>2. CASE archiveId # 0
        BY <2>1, <4>2 DEF FindArchive, Integrity, RunFits
      <4>3. CASE archiveId = 0 /\ QueryArchive(input) # 0
        BY <2>1, <4>1, <4>3, ArchiveFound DEF FindArchive
      <4>4. CASE archiveId = 0 /\ QueryArchive(input) = 0
        BY <2>1, <4>1, <4>4, NewIdFacts DEF FindArchive
      <4>. QED  BY <4>2, <4>3, <4>4
    <3>2. \A j \in DOMAIN archives : archives'[j] = archives[j]
      BY <2>1, <3>1 DEF FindArchive, Put
    <3>3. files' = files
      BY <2>1 DEF FindArchive
    <3>. QED  BY <1>3, <3>2, <3>3
  <2>2. CASE FindFile
    <3>1. \A j \in DOMAIN files : files'[j] = files[j] /\ (IsFirst(files', j) <=> IsFirst(files, j))
      BY <2>2, FileIsPut DEF RowIsPut
    <3>2. archives' = archives
      BY <2>2 DEF FindFile
    <3>. QED  BY <1>3, <3>1, <3>2
  <2>3. CASE DropFiles
    <3>1. \A i \in DOMAIN strings : IsFirst(files, strings[i].file)
      <4>1. ASSUME NEW i \in DOMAIN strings PROVE IsFirst(files, strings[i].file)
        <5>1. \E r \in DOMAIN translated : r[2] = i
          BY <2>3 DEF DropFiles, Strip, Integrity, RunFits, TranslatedIds
        <5>. QED  BY <5>1 DEF Integrity, TextsLinked
      <4>. QED  BY <4>1
    <3>. DEFINE ids == {strings[i].file : i \in DOMAIN strings}
    <3>2. files' = Keep(files, ids) /\ archives' = archives
      BY <2>3 DEF DropFiles
    <3>3. \A i \in DOMAIN strings : strings[i].file \in (DOMAIN files) \cap ids
      BY <1>3
    <3>. HIDE DEF ids
    <3>4. /\ DOMAIN files' = (DOMAIN files) \cap ids
          /\ \A j \in (DOMAIN files) \cap ids : files'[j] = files[j]
      BY <3>2, KeepFacts
    <3>5. \A j \in DOMAIN files' : IsFirst(files, j) => IsFirst(files', j)
      BY <3>4 DEF IsFirst
    <3>. QED  BY <3>1, <3>2, <3>3, <3>4, <3>5
  <2>4. CASE DropArchives
    <3>1. \A i \in DOMAIN files : archives'[files[i].archive] = archives[files[i].archive]
      BY <1>3, <2>4 DEF DropArchives, Keep
    <3>2. files' = files
      BY <2>4 DEF DropArchives
    <3>. QED  BY <1>3, <3>1, <3>2
  <2>. QED  BY <2>1, <2>2, <2>3, <2>4
<1>5. /\ SourceIn(archives', files', strings) = SourceIn(archives, files, strings)
      /\ TargetIn(archives', files', strings, translations, translated) =
            TargetIn(archives, files, strings, translations, translated)
  BY <1>4, SameEntries
<1>6. UNCHANGED <<source, target>>
  BY <1>2, <1>5 DEF source, target
<1>. QED  BY <1>1, <1>6, Silent, SomethingImported

\* A transaction ends as an import, of what was done.
LEMMA SimulateCommit ==
    ASSUME Integrity, ImportFollowed, PairFails \/ AllPairs \/ EndTable, journal.open,
           "orphans" \notin mishaps
    PROVE  [Dict!DictNext]_(Dict!dictionary)
<1>1. /\ ~journal'.open /\ UNCHANGED tables
      /\ flaw' = flaw \/ flaw' # "none"
      /\ stage \in {"pairs", "table"}
  BY DEF PairFails, AllPairs, EndTable, EndFile, End, NoJournal, AtPair
<1>2. PICK part \in SUBSET Passed : (flaw = "none" => part = Passed) /\ Follows(part)
  BY DEF ImportFollowed
<1>3. /\ savedStrings' = strings /\ savedTranslations' = translations
      /\ savedTranslated' = translated
  BY <1>1 DEF tables, savedStrings, savedTranslations, savedTranslated, Committed
<1>4. /\ source' = SourceIn(archives, files, strings)
      /\ target' = TargetIn(archives, files, strings, translations, translated)
  BY <1>1, <1>3 DEF source, target, tables
<1>5. /\ New \in Imports /\ Passed \subseteq DOMAIN New
      /\ AllPairs \/ EndTable => Passed = DOMAIN New
  <2>1. CASE stage = "table"
    <3>1. todo \in Tables /\ todo \in Seq(Line)
      BY <2>1, InputsAssumption DEF Integrity, RunFits, Line
    <3>2. New = TableEntries(todo) /\ New \in Imports
      BY <2>1, <3>1 DEF New, Imports
    <3>3. Passed = {LineEntry(todo, k) : k \in {j \in DOMAIN todo : j < at}}
      BY <2>1 DEF Passed
    <3>4. DOMAIN New = {LineEntry(todo, k) : k \in DOMAIN todo}
      <4>. HIDE DEF Line
      <4>. QED  BY <3>1, <3>2, TableEntriesFacts
    <3>5. AllPairs \/ EndTable => {j \in DOMAIN todo : j < at} = DOMAIN todo
      <4>1. DOMAIN todo = 1 .. Len(todo) /\ Len(todo) \in Nat
        <5>. HIDE DEF Line
        <5>. QED  BY <3>1
      <4>2. AllPairs \/ EndTable => at > Len(todo)
        BY <2>1 DEF AllPairs, EndTable
      <4>3. at \in Nat
        BY DEF Integrity, RunTypeOK
      <4>. QED  BY <4>1, <4>2, <4>3
    <3>. QED  BY <3>2, <3>3, <3>4, <3>5
  <2>2. CASE stage = "pairs"
    <3>. DEFINE text == Head(todo)
    <3>1. /\ text \in TextFile /\ textPairs = text.pairs
          /\ \E c \in Contents : \E k \in DOMAIN c.texts : input = c.archive /\ text = c.texts[k]
      BY <2>2, HeadTyped DEF textPairs, Integrity, RunFits
    <3>2. New = FileEntries(input, text) /\ New \in Imports
      BY <2>2, <3>1 DEF New, Imports
    <3>3. Passed = {TextEntry(input, text, k) : k \in {j \in DOMAIN textPairs : j < at}}
      BY <2>2 DEF Passed
    <3>. HIDE DEF text
    <3>4. DOMAIN New = {TextEntry(input, text, k) : k \in DOMAIN textPairs}
      <4>1. DOMAIN FileEntries(input, text) = {TextEntry(input, text, k) : k \in DOMAIN text.pairs}
        <5>1. text \in TextFile
          BY <3>1
        <5>. QED  BY <5>1, FileEntriesFacts
      <4>. QED  BY <3>1, <3>2, <4>1
    <3>5. AllPairs \/ EndTable => {j \in DOMAIN textPairs : j < at} = DOMAIN textPairs
      <4>1. DOMAIN textPairs = 1 .. Len(textPairs) /\ Len(textPairs) \in Nat
        <5>1. textPairs \in Seq(Pair)
          BY <3>1 DEF TextFile, Pair
        <5>. HIDE DEF Pair
        <5>. QED  BY <5>1
      <4>2. AllPairs \/ EndTable => at > Len(textPairs)
        BY <2>2 DEF AllPairs, EndTable
      <4>3. at \in Nat
        BY DEF Integrity, RunTypeOK
      <4>. QED  BY <4>1, <4>2, <4>3
    <3>. QED  BY <3>2, <3>3, <3>4, <3>5
  <2>. QED  BY <1>1, <2>1, <2>2
<1>6. part \in SUBSET DOMAIN New /\ (flaw' = "none" => part = DOMAIN New)
  <2>1. flaw' = "none" => flaw = "none" /\ (AllPairs \/ EndTable)
    BY DEF PairFails, AllPairs, EndTable
  <2>. QED  BY <1>2, <1>5, <2>1
<1>7. CASE name = NoName
  <2>1. source' = Dict!Taken(source, New, part) /\ target' = target
    BY <1>2, <1>4, <1>7 DEF Follows
  <2>2. Dict!ImportOriginals(New)
    BY <1>6, <2>1 DEF Dict!ImportOriginals, Dict!Part
  <2>. QED  BY <1>5, <2>2 DEF Dict!DictNext
<1>8. CASE name # NoName
  <2>1. name \in Names
    BY <1>8 DEF Integrity, RunTypeOK
  <2>2. source' = source
    BY <1>4, <1>8 DEF Integrity, SavedFits, source
  <2>3. target' = [target EXCEPT ![name] =
                      Dict!Taken(@, New, part \cap Dict!Differing(New, source))]
    BY <1>2, <1>4, <1>8 DEF Follows
  <2>4. Dict!ImportTranslation(name, New)
    BY <1>6, <2>2, <2>3 DEF Dict!ImportTranslation, Dict!Part
  <2>. QED  BY <1>5, <2>1, <2>4 DEF Dict!DictNext
<1>. QED  BY <1>7, <1>8

\* What is put in after SQLite took the transaction back is an import by itself, of a
\* run that tells what it left out or is excused.
LEMMA SimulateAdding ==
    ASSUME Integrity, AddingStep, "orphans" \notin mishaps'
    PROVE  [Dict!DictNext]_(Dict!dictionary)
<1>1. EntryStep /\ \E add : Adds(add)
  BY StepAdds
<1>2. UNCHANGED <<archives, files, journal, name>> /\ (AtPair \/ AtLine)
  BY <1>1 DEF EntryStep
<1>3. CASE journal.open
  <2>1. UNCHANGED <<savedStrings, savedTranslations, savedTranslated>>
    BY <1>2, <1>3, SavedStay
  <2>. QED  BY <1>2, <2>1, SameDictionary, Silent, SomethingImported DEF AtPair, AtLine
<1>4. CASE ~journal.open
  <2>1. PICK add : Adds(add)
    BY <1>1
  <2>2. flaw' # "none"
    BY <1>2, <1>4, <2>1 DEF Adds, AtPair, AtLine, Integrity, RunFits, OffCourse
  <2>3. source = Source /\ target = Target
    BY <1>4, NowCommitted
  <2>4. source' = Source' /\ target' = Target'
    <3>1. (~journal.open => source = Source /\ target = Target)'
      BY NowCommitted, PTL
    <3>. QED  BY <1>2, <1>4, <3>1
  <2>5. New \in Imports /\ EntryAt \in DOMAIN New
    BY <1>2, PairAtHand, LineAtHand
  <2>6. add \in SUBSET DOMAIN New /\ Dict!Part(New, add)
    BY <2>1, <2>2, <2>5 DEF Adds, Dict!Part
  <2>7. CASE name = NoName
    <3>1. source' = Dict!Taken(source, New, add) /\ UNCHANGED target
      BY <2>1, <2>3, <2>4, <2>7 DEF Adds
    <3>2. Dict!ImportOriginals(New)
      BY <2>6, <3>1 DEF Dict!ImportOriginals
    <3>. QED  BY <2>5, <3>2 DEF Dict!DictNext
  <2>8. CASE name # NoName
    <3>1. Source' = Source
      BY <1>1, <2>8 DEF EntryStep, Source
    <3>2. target' = [target EXCEPT ![name] = Dict!Taken(@, New, add \cap Dict!Differing(New, source))]
      BY <2>1, <2>3, <2>4, <2>8 DEF Adds
    <3>3. Dict!ImportTranslation(name, New)
      BY <2>3, <2>4, <2>6, <3>1, <3>2 DEF Dict!ImportTranslation
    <3>4. name \in Names
      BY <2>8 DEF Integrity, RunTypeOK
    <3>. QED  BY <2>5, <3>3, <3>4 DEF Dict!DictNext
  <2>. QED  BY <2>7, <2>8
<1>. QED  BY <1>3, <1>4

LEMMA SimulateNaming ==
    ASSUME Integrity, "orphans" \notin mishaps,
           \/ FindTranslation
           \/ \E lines \in Tables, n \in Names : OpenTable(lines, n)
    PROVE  [Dict!DictNext]_(Dict!dictionary)
<1>1. CASE FindTranslation
  <2>1. UNCHANGED <<archives, files, journal>> /\ stage = "pairs"
    BY <1>1 DEF FindTranslation, AtPair
  <2>2. CASE journal.open
    <3>1. UNCHANGED <<savedStrings, savedTranslations, savedTranslated>>
      BY <2>1, <2>2, SavedStay
    <3>. QED  BY <2>1, <3>1, SameDictionary, Silent, SomethingImported
  <2>3. CASE ~journal.open
    <3>1. (~journal.open => source = Source /\ target = Target)'
      BY NowCommitted, PTL
    <3>2. UNCHANGED <<Source, Target>>
      BY <1>1, FindTranslationSilent
    <3>3. UNCHANGED <<source, target>>
      BY <2>1, <2>3, <3>1, <3>2, NowCommitted
    <3>. QED  BY <2>1, <3>3, Silent, SomethingImported
  <2>. QED  BY <2>2, <2>3
<1>2. CASE \E lines \in Tables, n \in Names : OpenTable(lines, n)
  <2>1. PICK lines \in Tables, n \in Names : OpenTable(lines, n)
    BY <1>2
  <2>2. /\ \E found \in Lookup(QueryTranslation(n)) : translationId' = RowFor(found, translations)
        /\ translations' = Put(translations, translationId', n)
        /\ UNCHANGED <<archives, files, strings, translated>>
        /\ ~journal.open
    BY <2>1 DEF OpenTable, Integrity, RunTypeOK
  <2>3. /\ savedStrings = strings /\ savedTranslations = translations
        /\ savedTranslated = translated
        /\ savedStrings' = strings /\ savedTranslations' = translations'
        /\ savedTranslated' = translated
    BY <2>1, <2>2 DEF OpenTable, BeginWith, savedStrings, savedTranslations, savedTranslated,
                      Committed
  <2>4. TargetIn(archives, files, strings, translations', translated) = Target
    BY <2>2, NamingSilent
  <2>5. UNCHANGED <<source, target>>
    BY <2>2, <2>3, <2>4 DEF source, target, Target
  <2>6. Imports # {}
    BY DEF Imports
  <2>. QED  BY <2>5, <2>6, Silent
<1>. QED  BY <1>1, <1>2

\* Stripping: texts go, and entries that no translation needs.
LEMMA SimulateStrip ==
    ASSUME Integrity, ClearValues \/ DropStrings PROVE [Dict!DictNext]_(Dict!dictionary)
<1>1. /\ ~journal.open /\ UNCHANGED <<archives, files, translations, translated, journal, flaw>>
  BY DEF ClearValues, DropStrings, Strip, Integrity, RunTypeOK
<1>2. /\ source = SourceIn(archives, files, strings)
      /\ target = TargetIn(archives, files, strings, translations, translated)
      /\ source' = SourceIn(archives, files, strings')
      /\ target' = TargetIn(archives, files, strings', translations, translated)
  BY <1>1 DEF source, target, savedStrings, savedTranslations, savedTranslated, Committed
<1>3. /\ FilesLinked(archives, files)
      /\ TextsLinked(files, strings, translations, translated)
      /\ FilesLinked(archives, files)'
      /\ TextsLinked(files, strings, translations, translated)'
  BY StripPreserves DEF Integrity
<1>4. TextsLinked(files, strings', translations, translated)
  BY <1>1, <1>3
<1>. DEFINE old(e) == StringsOf(archives, files, strings, e)
            new(e) == StringsOf(archives, files, strings', e)
            rows(n, e) == RowsOf(archives, files, strings, translations, translated, n, e)
<1>5. \A e \in Keys : /\ \A i \in old(e) : source[e] = strings[i].value
                      /\ old(e) = {} => source[e] = NoString
                      /\ old(e) # {} => source[e] # NoString
                      /\ \A i \in new(e) : source'[e] = strings'[i].value
                      /\ new(e) = {} => source'[e] = NoString
  BY <1>2, <1>3, <1>4, SourceFacts
<1>6. source' = [e \in Keys |-> source'[e]] /\ source = [e \in Keys |-> source[e]]
  BY <1>2 DEF SourceIn
<1>7. CASE ClearValues
  <2>1. /\ DOMAIN strings' = DOMAIN strings
        /\ \A i \in DOMAIN strings : strings'[i] = [strings[i] EXCEPT !.value = Empty]
    BY <1>7 DEF ClearValues
  <2>2. \A i \in DOMAIN strings : strings[i] \in StringRow(DOMAIN files)
    BY <1>3 DEF TextsLinked
  <2>3. \A i \in DOMAIN strings :
           /\ strings'[i].file = strings[i].file /\ strings'[i].collision = strings[i].collision
           /\ strings'[i].identifier = strings[i].identifier /\ strings'[i].value = Empty
    BY <2>1, <2>2 DEF StringRow
  <2>4. \A e : new(e) = old(e)
    BY <2>1, <2>3 DEF StringsOf
  <2>5. \A n, e : RowsOf(archives, files, strings', translations, translated, n, e) = rows(n, e)
    BY <2>4 DEF RowsOf
  <2>6. target' = target
    BY <1>2, <2>5, SameRows
  <2>7. \A e \in Keys : \A i \in old(e) : i \in DOMAIN strings
    BY DEF StringsOf
  <2>. HIDE DEF old, new
  <2>8. ASSUME NEW e \in Keys
        PROVE  source'[e] = IF source[e] = NoString THEN NoString ELSE Empty
    BY <1>5, <2>3, <2>4, <2>7
  <2>9. source' = [e \in Keys |-> IF source[e] = NoString THEN NoString ELSE Empty]
    BY <1>6, <2>8
  <2>10. Dict!Clear
    BY <1>1, <2>6, <2>9 DEF Dict!Clear
  <2>. QED  BY <2>10 DEF Dict!DictNext
<1>8. CASE DropStrings
  <2>1. /\ DOMAIN strings' = (DOMAIN strings) \cap TranslatedIds
        /\ \A i \in DOMAIN strings' : strings'[i] = strings[i]
    BY <1>8, KeepFacts DEF DropStrings
  <2>2. \A e : new(e) = old(e) \cap TranslatedIds
    BY <2>1 DEF StringsOf
  <2>3. \A r \in DOMAIN translated : r[2] \in TranslatedIds
    BY DEF TranslatedIds
  <2>4. \A n, e : RowsOf(archives, files, strings', translations, translated, n, e) = rows(n, e)
    BY <2>2, <2>3 DEF RowsOf
  <2>5. target' = target
    BY <1>2, <2>4, SameRows
  <2>6. \A n \in Names, e \in Keys : target[n][e] # NoString <=> rows(n, e) # {}
    BY <1>2, <1>3, TargetFacts
  <2>7. ASSUME NEW e \in Keys, new(e) = {}, NEW n \in Names PROVE rows(n, e) = {}
    BY <2>2, <2>3, <2>7 DEF RowsOf
  <2>8. \A e \in Keys : \A i \in new(e) : i \in DOMAIN strings'
    BY DEF StringsOf
  <2>. HIDE DEF old, new, rows
  <2>. DEFINE gone == {e \in Keys : new(e) = {}}
  <2>9. ASSUME NEW e \in Keys PROVE source'[e] = IF e \in gone THEN NoString ELSE source[e]
    <3>1. CASE new(e) = {}
      BY <1>5, <3>1
    <3>2. CASE new(e) # {}
      <4>1. PICK i \in new(e) : TRUE
        BY <3>2
      <4>2. i \in old(e) /\ strings'[i] = strings[i]
        BY <2>1, <2>2, <2>8
      <4>. QED  BY <1>5, <3>2, <4>2
    <3>. QED  BY <3>1, <3>2
  <2>10. source' = [e \in Keys |-> IF e \in gone THEN NoString ELSE source[e]]
    BY <1>6, <2>9
  <2>11. gone \in SUBSET {k \in Keys : \A n \in Names : target[n][k] = NoString}
    BY <2>6, <2>7
  <2>. HIDE DEF gone
  <2>12. Dict!Forget
    BY <1>1, <2>5, <2>10, <2>11 DEF Dict!Forget
  <2>. QED  BY <2>12 DEF Dict!DictNext
<1>. QED  BY <1>7, <1>8

LEMMA SimulateNext ==
    Integrity /\ ImportFollowed /\ [DatabaseNext]_databaseVars =>
        [Dict!DictNext \/ ("orphans" \in mishaps)']_(Dict!dictionary)
<1>. SUFFICES ASSUME Integrity, ImportFollowed, [DatabaseNext]_databaseVars, "orphans" \notin mishaps'
              PROVE  [Dict!DictNext]_(Dict!dictionary)
  OBVIOUS
<1>0. "orphans" \notin mishaps
  BY MishapsStay
<1>1. CASE FindArchive \/ FindFile \/ DropFiles \/ DropArchives
  BY <1>1, SimulateFiles
<1>2. CASE PairFails \/ AllPairs \/ EndTable
  <2>1. CASE journal.open
    BY <1>0, <1>2, <2>1, SimulateCommit
  <2>2. CASE ~journal.open
    <3>1. /\ UNCHANGED tables /\ ~journal'.open
          /\ stage \in {"pairs", "table"} \/ UNCHANGED flaw
      BY <1>2 DEF PairFails, AllPairs, EndTable, EndFile, End, NoJournal, AtPair
    <3>2. UNCHANGED <<savedStrings, savedTranslations, savedTranslated>>
      BY <2>2, <3>1 DEF tables, savedStrings, savedTranslations, savedTranslated, Committed
    <3>. QED  BY <3>1, <3>2, SameDictionary, Silent, SomethingImported DEF tables
  <2>. QED  BY <2>1, <2>2
<1>3. CASE AddingStep
  BY <1>3, SimulateAdding
<1>4. CASE ClearValues \/ DropStrings
  BY <1>4, SimulateStrip
<1>5. CASE \/ \E content \in Contents, n \in Names \cup {NoName} : OpenArchive(content, n)
           \/ SkipFile \/ Finish \/ UNCHANGED databaseVars
  <2>1. /\ UNCHANGED <<archives, files, strings, translations, translated, journal>>
        /\ UNCHANGED flaw \/ flaw' = "none"
    BY <1>5 DEF OpenArchive, SkipFile, Finish, Idle, databaseVars, tables, run
  <2>2. UNCHANGED <<savedStrings, savedTranslations, savedTranslated>>
    BY <2>1 DEF savedStrings, savedTranslations, savedTranslated, Committed
  <2>. QED  BY <2>1, <2>2, SameDictionary, Silent
<1>6. CASE FindTranslation \/ \E lines \in Tables, n \in Names : OpenTable(lines, n)
  BY <1>0, <1>6, SimulateNaming
<1>7. CASE Kill \/ RollsBack
  <2>1. /\ UNCHANGED <<archives, files>> /\ ~journal'.open
        /\ strings' = savedStrings /\ translations' = savedTranslations
        /\ translated' = savedTranslated
    BY <1>7 DEF Kill, RollsBack, Rollback, NoJournal, savedStrings, savedTranslations,
                savedTranslated, Committed
  <2>2. UNCHANGED <<savedStrings, savedTranslations, savedTranslated>>
    BY <2>1 DEF savedStrings, savedTranslations, savedTranslated, Committed
  <2>3. flaw' = "none" \/ stage \in {"pairs", "table"}
    BY <1>7 DEF Kill, Idle, RollsBack, Integrity, RunTypeOK
  <2>. QED  BY <2>1, <2>2, <2>3, SameDictionary, Silent, SomethingImported
<1>. QED  BY <1>1, <1>2, <1>3, <1>4, <1>5, <1>6, <1>7 DEF DatabaseNext, Run, DatabaseStep, AddingStep

\* Whatever is killed or fails, the committed tables stand for a dictionary that only
\* whole imports, imports that tell what they left out or are excused, and stripping
\* have changed, until texts are put in for a translation that SQLite took back.
THEOREM DictionaryKept == DatabaseSpec => DictionaryImplemented
  BY SimulateInit, SimulateNext, IntegrityKept, ImportsFollowed, PTL
  DEF DatabaseSpec, DictionaryImplemented

\* The invariant that the run checks.
THEOREM DatabaseInvariant == DatabaseSpec => []DatabaseInv
  BY IntegrityKept, ImportsFollowed, PTL DEF DatabaseInv
=============================================================================
