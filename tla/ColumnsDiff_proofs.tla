------------------------ MODULE ColumnsDiff_proofs ------------------------
(***************************************************************************)
(* Proofs about what a plan finds and shows of the columns of a table and  *)
(* of texts, for every table, manifest and text, every datatype the        *)
(* assumptions allow and every context.                                    *)
(* The verdicts: what is called unchanged is of the type the database      *)
(* keeps for what is declared, and what is called narrowing, within one    *)
(* shape, is what loses values, but for a scale that grows.  The           *)
(* rendering, whatever pairs difflib finds: every difference is among the  *)
(* lines, a marked line is a difference, a move or a repetition, and the   *)
(* window leaves out what is far from every change.                        *)
(***************************************************************************)
EXTENDS ColumnsDiff, NumberSets

-----------------------------------------------------------------------------
(* Datatypes                                                               *)

(* What a shorthand stands for: a datatype of the database with all its    *)
(* parameters, or, for a family the table of defaults does not know,       *)
(* itself.                                                                 *)
Defaults ==
  {Plain("NUMBER", <<38, 0>>), Plain("VARCHAR", <<MaxText>>), Plain("VARCHAR", <<1>>),
   Plain("BINARY", <<MaxBinary>>), Plain("TIME", <<9>>), Plain("TIMESTAMP_NTZ", <<9>>),
   Plain("TIMESTAMP_LTZ", <<9>>), Plain("TIMESTAMP_TZ", <<9>>)}

(* A type the table does not know is its own default.  For every other the *)
(* table says what the database makes of it.                               *)
LEMMA DefaultIs ==
  ASSUME NEW dt
  PROVE  \/ Default(dt) = dt
         \/ Default(dt) \in Defaults /\ Default(dt) = Documented(dt.family)
<1>1. PICK f : f = dt.family
  OBVIOUS
<1>2. f \in NumberNames =>
        Default(dt) = Plain("NUMBER", <<38, 0>>) /\ Documented(f) = Plain("NUMBER", <<38, 0>>)
  BY <1>1 DEF Default, Documented, NumberNames
<1>3. MaxText = TextLength /\ MaxBinary = BinaryLength
  BY DEF MaxText, MaxBinary, TextLength, BinaryLength
<1>4. f \in TextNames =>
        Default(dt) = Plain("VARCHAR", <<MaxText>>) /\ Documented(f) = Plain("VARCHAR", <<MaxText>>)
  <2>1. f \in TextNames => Default(dt) = Plain("VARCHAR", <<MaxText>>)
    BY <1>1 DEF Default, NumberNames, TextNames
  <2>2. f \in TextNames => Documented(f) = Plain("VARCHAR", <<TextLength>>)
    BY DEF Documented, TextNames
  <2> QED
    BY <1>3, <2>1, <2>2
<1>5. f \in CharNames =>
        Default(dt) = Plain("VARCHAR", <<1>>) /\ Documented(f) = Plain("VARCHAR", <<1>>)
  BY <1>1 DEF Default, Documented, NumberNames, TextNames, CharNames
<1>6. f \in BinaryNames =>
        Default(dt) = Plain("BINARY", <<MaxBinary>>) /\ Documented(f) = Plain("BINARY", <<MaxBinary>>)
  <2>1. f \in BinaryNames => Default(dt) = Plain("BINARY", <<MaxBinary>>)
    BY <1>1 DEF Default, NumberNames, TextNames, CharNames, BinaryNames
  <2>2. f \in BinaryNames => Documented(f) = Plain("BINARY", <<BinaryLength>>)
    BY DEF Documented, BinaryNames
  <2> QED
    BY <1>3, <2>1, <2>2
<1>7. f \in NtzNames =>
        Default(dt) = Plain("TIMESTAMP_NTZ", <<9>>) /\ Documented(f) = Plain("TIMESTAMP_NTZ", <<9>>)
  BY <1>1 DEF Default, Documented, NumberNames, TextNames, CharNames, BinaryNames, NtzNames
<1>8. f \in {"TIME", "TIMESTAMP_LTZ", "TIMESTAMP_TZ"} =>
        Default(dt) = Plain(f, <<9>>) /\ Documented(f) = Plain(f, <<9>>)
  BY <1>1 DEF Default, Documented, NumberNames, TextNames, CharNames, BinaryNames, NtzNames
<1>9. f \notin NumberNames \cup TextNames \cup CharNames \cup BinaryNames \cup NtzNames
              \cup {"TIME", "TIMESTAMP_LTZ", "TIMESTAMP_TZ"}
      => Default(dt) = dt
  BY <1>1 DEF Default
<1> QED
  BY <1>1, <1>2, <1>4, <1>5, <1>6, <1>7, <1>8, <1>9 DEF Defaults

(* A base type with its parameters is what the database keeps it as.       *)
LEMMA BaseTypeIsStored ==
  ASSUME NEW f, NEW p, p # <<>>, BaseFamily(f) = f, f = "NUMBER" => Len(p) # 1
  PROVE  /\ Stored(Plain(f, p)) = Plain(f, p)
         /\ f \notin IrregularNames => Matches(Plain(f, p))
         /\ Plain(f, p).family = f /\ Plain(f, p).params = p
<1>1. Plain(f, p).family = f /\ Plain(f, p).params = p /\ Plain(f, p).spacing = "none"
  BY DEF Plain, Written
<1> QED
  BY <1>1 DEF Stored, Matches

(* The families of the database are their own base, and regular names.     *)
LEMMA BaseFamilies ==
  \A f \in {"NUMBER", "VARCHAR", "BINARY", "VECTOR"} \cup Temporal :
    BaseFamily(f) = f /\ f \notin IrregularNames
<1>1. \A f \in {"NUMBER", "VARCHAR", "BINARY", "VECTOR"} \cup Temporal :
        /\ f \notin IrregularNames
        /\ \E p : Documented(f) = Plain(f, p)
  BY DEF Documented, Temporal, IrregularNames
<1>2. \A f, p : Plain(f, p).family = f
  BY DEF Plain, Written
<1> QED
  BY <1>1, <1>2 DEF BaseFamily

(* A type without parameters that stands for itself: no name of the table  *)
(* of defaults, and a regular one.                                         *)
LEMMA BareTypes ==
  ASSUME NEW f, Documented(f).family = f, Documented(f).params = <<>>
  PROVE  /\ f \notin NumberNames \cup TextNames \cup CharNames \cup BinaryNames \cup NtzNames
                     \cup Temporal
         /\ f \notin IrregularNames
<1>1. \A g, p : Plain(g, p).family = g /\ Plain(g, p).params = p
  BY DEF Plain, Written
<1>2. <<38, 0>> # <<>> /\ \A n : <<n>> # <<>>
  OBVIOUS
<1>3. f \in NumberNames => Documented(f) = Plain("NUMBER", <<38, 0>>)
  BY DEF Documented, NumberNames
<1>4. f \in TextNames => Documented(f) = Plain("VARCHAR", <<TextLength>>)
  BY DEF Documented, TextNames
<1>5. f \in CharNames => Documented(f) = Plain("VARCHAR", <<1>>)
  BY DEF Documented, CharNames
<1>6. f \in BinaryNames => Documented(f) = Plain("BINARY", <<BinaryLength>>)
  BY DEF Documented, BinaryNames
<1>7. f \in NtzNames \cup Temporal => \E g : Documented(f) = Plain(g, <<9>>)
  BY DEF Documented, NtzNames, Temporal
<1>8. f \in IrregularNames =>
        \/ Documented(f) = Plain("VARCHAR", <<TextLength>>)
        \/ Documented(f) = Plain("FLOAT", <<>>) /\ f # "FLOAT"
  BY DEF Documented, IrregularNames
<1> QED
  BY <1>1, <1>2, <1>3, <1>4, <1>5, <1>6, <1>7, <1>8

(* Every default of the code's table is a type the database keeps as it    *)
(* is: where one was wrong, a declared shorthand would differ from what    *)
(* fetch() returns for it.                                                 *)
LEMMA DefaultsAreStored ==
  ASSUME NEW dt \in Defaults
  PROVE  dt.params # <<>> /\ Stored(dt) = dt /\ Matches(dt)
<1>1. PICK f, p : dt = Plain(f, p) /\ <<f, p>> \in
         {<<"NUMBER", <<38, 0>>>>, <<"VARCHAR", <<MaxText>>>>, <<"VARCHAR", <<1>>>>,
          <<"BINARY", <<MaxBinary>>>>, <<"TIME", <<9>>>>, <<"TIMESTAMP_NTZ", <<9>>>>,
          <<"TIMESTAMP_LTZ", <<9>>>>, <<"TIMESTAMP_TZ", <<9>>>>}
  BY DEF Defaults
<1>2. p # <<>>
  BY <1>1
<1>3. BaseFamily(f) = f /\ f \notin IrregularNames
  BY <1>1, BaseFamilies DEF Temporal
<1>4. f = "NUMBER" => Len(p) # 1
  BY <1>1
<1> QED
  BY <1>1, <1>2, <1>3, <1>4, BaseTypeIsStored

(* A stored type is its own normal form, and the database keeps it.        *)
LEMMA StoredIsItself ==
  ASSUME NEW l, IsStored(l)
  PROVE  NormalizeDatatype(l) = l /\ Stored(l) = l /\ Matches(l)
<1>1. l = Plain(l.family, l.params) /\ l.spacing = "none"
  BY DEF IsStored, Plain, Written
<1>2. CASE l.params = <<>>
  <2>1. Documented(l.family) = l
    <3>1. PICK p : p = l.params
      OBVIOUS
    <3>2. Len(p) # 1 /\ Len(p) # 2
      BY <1>2, <3>1
    <3> QED
      BY <3>1, <3>2 DEF IsStored
  <2>2. /\ l.family \notin NumberNames \cup TextNames \cup CharNames \cup BinaryNames
                            \cup NtzNames \cup Temporal
        /\ l.family \notin IrregularNames
    BY <1>2, <2>1, BareTypes
  <2>3. Default(l) = l
    BY <2>2 DEF Default, Temporal
  <2> QED
    BY <1>1, <1>2, <2>1, <2>2, <2>3 DEF NormalizeDatatype, Stored, Matches
<1>3. CASE l.params # <<>>
  <2>1. /\ l.family \in {"NUMBER", "VARCHAR", "BINARY", "VECTOR"} \cup Temporal
        /\ l.family = "NUMBER" => Len(l.params) # 1
    <3>1. PICK f, p : f = l.family /\ p = l.params
      OBVIOUS
    <3>2. \/ f = "NUMBER" /\ Len(p) = 2
          \/ f \in {"VARCHAR", "BINARY"} \cup Temporal
          \/ f = "VECTOR"
      BY <1>3, <3>1 DEF IsStored
    <3>3. "NUMBER" \notin {"VARCHAR", "BINARY"} \cup Temporal
      BY DEF Temporal
    <3> QED
      BY <3>1, <3>2, <3>3
  <2>2. BaseFamily(l.family) = l.family /\ l.family \notin IrregularNames
    BY <2>1, BaseFamilies
  <2> QED
    BY <1>1, <1>3, <2>1, <2>2, BaseTypeIsStored DEF NormalizeDatatype
<1> QED
  BY <1>2, <1>3

(* What the comparison takes for the same as a stored type is declared as  *)
(* that type.                                                              *)
LEMMA SameNormalFormSameType ==
  ASSUME NEW l, IsStored(l), NEW d, ~DatatypeDiffers(l, d)
  PROVE  Stored(d) = l
<1>1. NormalizeDatatype(d) = l /\ Stored(l) = l
  BY StoredIsItself DEF DatatypeDiffers
<1>2. CASE d.params # <<>>
  BY <1>1, <1>2 DEF NormalizeDatatype
<1>3. CASE d.params = <<>>
  <2>1. Default(d) = l /\ Stored(d) = Documented(d.family)
    BY <1>1, <1>3 DEF NormalizeDatatype, Stored
  <2> QED
    BY <1>1, <2>1, DefaultIs
<1> QED
  BY <1>2, <1>3

(* What is one type to the database loses nothing.                         *)
LEMMA SameTypeKeepsValues ==
  ASSUME NEW l, NEW d, Stored(l) = Stored(d)
  PROVE  ~LosesValues(l, d)
BY DEF LosesValues

-----------------------------------------------------------------------------
(* The verdict                                                             *)

(* The tables keep the types they have, and as soon as there is a verdict  *)
(* it is what Found says of them.  The lines of a text have no type, and   *)
(* nothing is dropped or narrowed of it.                                   *)
VerdictInv ==
  /\ live \in Seq(Item) /\ desired \in Seq(Item)
  /\ kind \in {"columns", "text"}
  /\ kind = "columns" =>
       /\ \A i \in DOMAIN live : IsStored(live[i].datatype)
       /\ \A i \in DOMAIN desired : IsDeclarable(desired[i].datatype)
       /\ pc # "compare" => diff = Found
  /\ kind = "text" => \A i \in DOMAIN desired : desired[i].datatype = Undeclared
  /\ kind = "text" \/ pc = "compare" => diff = [removed |-> {}, changed |-> {}, narrowed |-> {}]

(* The verdict of _diff_list_field is settled by the first step and kept   *)
(* by the rendering, for tables and texts of every size.                   *)
THEOREM VerdictInvariant == Spec => []VerdictInv
<1>1. Init => VerdictInv
  <2> SUFFICES ASSUME Init PROVE VerdictInv
    OBVIOUS
  <2>1. CASE kind = "columns"
    <3>1. PICK pair \in Pairs : live = pair[1] /\ desired = pair[2]
      BY <2>1 DEF Init
    <3>2. live \in Seq(Item) /\ desired \in Seq(Item)
      BY <3>1, FieldsAssumption
    <3>3. /\ \A i \in DOMAIN live : IsStored(live[i].datatype)
          /\ \A i \in DOMAIN desired : IsDeclarable(desired[i].datatype)
      BY <3>1, FieldsAssumption
    <3> QED
      BY <2>1, <3>2, <3>3 DEF Init, VerdictInv
  <2>2. CASE kind = "text"
    <3>1. PICK pair \in Texts : live = pair[1].lines /\ desired = pair[2].lines
      BY <2>2 DEF Init
    <3>2. Line \subseteq Item /\ live \in Seq(Line) /\ desired \in Seq(Line)
      BY <3>1, FieldsAssumption DEF Text
    <3>3. live \in Seq(Item) /\ desired \in Seq(Item)
      BY <3>2
    <3>4. \A i \in DOMAIN desired : desired[i].datatype = Undeclared
      <4>1. \A line \in Line : line.datatype = Undeclared
        BY DEF Line
      <4>2. \A i \in DOMAIN desired : desired[i] \in Line
        BY <3>2
      <4> QED
        BY <4>1, <4>2
    <3> QED
      BY <2>2, <3>3, <3>4 DEF Init, VerdictInv
  <2> QED
    BY <2>1, <2>2 DEF Init
<1>2. VerdictInv /\ [Next]_vars => VerdictInv'
  <2> SUFFICES ASSUME VerdictInv, [Next]_vars PROVE VerdictInv'
    OBVIOUS
  <2>1. live' = live /\ desired' = desired /\ kind' = kind
    BY DEF Next, CompareColumns, CompareTexts, Render, Window, vars, field
  <2>2. Found' = Found
    BY <2>1 DEF Found, Altered, Kept, ByName, ColumnNames
  <2>3. CASE CompareColumns
    BY <2>1, <2>2, <2>3 DEF CompareColumns, VerdictInv
  <2>4. CASE CompareTexts
    BY <2>1, <2>2, <2>4 DEF CompareTexts, VerdictInv
  <2>5. CASE Render \/ Window
    BY <2>1, <2>2, <2>5 DEF Render, Window, VerdictInv
  <2>6. CASE UNCHANGED vars
    BY <2>1, <2>2, <2>6 DEF vars, VerdictInv
  <2> QED
    BY <2>3, <2>4, <2>5, <2>6 DEF Next
<1> QED
  BY <1>1, <1>2, PTL DEF Spec

-----------------------------------------------------------------------------
(* Within one shape                                                        *)

(* A column that is there is found under its name.                         *)
LEMMA ByNameFinds ==
  ASSUME NEW items \in Seq(Item), NEW n \in ColumnNames(items)
  PROVE  \E i \in DOMAIN items : ByName(items, n) = items[i] /\ items[i].name = n
<1> DEFINE T == {i \in DOMAIN items : items[i].name = n}
           P(i) == items[i].name = n /\ \A j \in DOMAIN items : items[j].name = n => j <= i
<1>1. Len(items) \in Nat /\ T \subseteq 1..Len(items) /\ T # {}
  BY DEF ColumnNames
<1>2. PICK i \in T : \A j \in T : j <= i
  BY <1>1, LastExists
<1>3. i \in DOMAIN items /\ P(i)
  BY <1>2
<1> DEFINE k == CHOOSE c \in DOMAIN items : P(c)
<1>4. k \in DOMAIN items /\ items[k].name = n
  BY <1>3
<1>5. ByName(items, n) = items[k]
  BY DEF ByName
<1> QED
  BY <1>4, <1>5

(* The types that are compared.                                            *)
LEMMA KeptTypes ==
  ASSUME VerdictInv, kind = "columns", NEW n \in Kept
  PROVE  IsStored(LiveType(n)) /\ IsDeclarable(DesiredType(n))
<1>1. live \in Seq(Item) /\ desired \in Seq(Item)
  BY DEF VerdictInv
<1>2. n \in ColumnNames(live) /\ n \in ColumnNames(desired)
  BY DEF Kept
<1>3. PICK i \in DOMAIN live : ByName(live, n) = live[i]
  BY <1>1, <1>2, ByNameFinds
<1>4. PICK j \in DOMAIN desired : ByName(desired, n) = desired[j]
  BY <1>1, <1>2, ByNameFinds
<1> QED
  BY <1>3, <1>4 DEF VerdictInv, LiveType, DesiredType

(* Of a text no line declares a type.                                      *)
LEMMA LinesDeclareNothing ==
  ASSUME VerdictInv, kind = "text", NEW n \in Kept
  PROVE  DesiredType(n) = Undeclared
<1>1. desired \in Seq(Item) /\ n \in ColumnNames(desired)
  BY DEF VerdictInv, Kept
<1>2. PICK j \in DOMAIN desired : ByName(desired, n) = desired[j]
  BY <1>1, ByNameFinds
<1> QED
  BY <1>2 DEF VerdictInv, DesiredType

(* The invariant UnchangedIsTheSame of the specification: whatever the     *)
(* tables and the datatypes, a column the plan calls unchanged has the     *)
(* type Snowflake keeps for what the manifest declares.                    *)
THEOREM UnchangedIsAlwaysTheSame == Spec => []UnchangedIsTheSame
<1>1. VerdictInv => UnchangedIsTheSame
  <2> SUFFICES ASSUME VerdictInv, Compared, NEW n \in Kept \ diff.changed,
                      kind = "columns", DesiredType(n) # Undeclared
               PROVE  Stored(DesiredType(n)) = LiveType(n)
    BY DEF UnchangedIsTheSame
  <2>1. n \notin Altered
    BY DEF VerdictInv, Compared, Found
  <2>2. ~DatatypeDiffers(LiveType(n), DesiredType(n))
    BY <2>1 DEF Altered, ItemDiffers, LiveType, DesiredType
  <2> QED
    BY <2>2, KeptTypes, SameNormalFormSameType
<1> QED
  BY <1>1, VerdictInvariant, PTL

(* The defaults have no parameter but natural numbers.                     *)
LEMMA DefaultParams ==
  ASSUME NEW dt \in Defaults
  PROVE  dt.params \in Seq(Nat)
<1>1. MaxText \in Nat /\ MaxBinary \in Nat
  BY DEF MaxText, MaxBinary
<1>2. PICK f, p : dt = Plain(f, p) /\ p \in
         {<<38, 0>>, <<MaxText>>, <<1>>, <<MaxBinary>>, <<9>>}
  BY DEF Defaults
<1>3. /\ <<38, 0>> \in Seq(Nat) /\ <<1>> \in Seq(Nat) /\ <<9>> \in Seq(Nat)
      /\ \A n \in Nat : <<n>> \in Seq(Nat)
  OBVIOUS
<1>4. p \in Seq(Nat)
  BY <1>1, <1>2, <1>3
<1> QED
  BY <1>2, <1>4 DEF Plain, Written

(* What a live and a declared type of one shape have in common.            *)
OfOneShape(l, d0) ==
  LET d == NormalizeDatatype(d0) IN
  /\ d.family = l.family /\ Len(d.params) = Len(l.params)
  /\ Matches(d0)
  /\ \A i \in DOMAIN l.params : l.params[i] # NotAnInteger

(* The parameters of a stored type are natural numbers, but for a vector's.*)
LEMMA StoredParams ==
  ASSUME NEW l, IsStored(l), \A i \in DOMAIN l.params : l.params[i] # NotAnInteger
  PROVE  l.params \in Seq(Nat)
<1>1. PICK p : p = l.params
  OBVIOUS
<1>2. p \in Seq(Nat \cup {NotAnInteger})
  BY <1>1 DEF IsStored, Datatype
<1>3. \A i \in DOMAIN p : p[i] \in Nat
  BY <1>1, <1>2
<1> QED
  BY <1>1, <1>2, <1>3

(* What the declared type is, normalised and to the database.              *)
LEMMA DeclaredInShape ==
  ASSUME NEW l, IsStored(l), NEW d0, IsDeclarable(d0), OfOneShape(l, d0)
  PROVE  /\ Stored(d0).family = l.family
         /\ Stored(d0).params = NormalizeDatatype(d0).params
         /\ Matches(NormalizeDatatype(d0))
         /\ NormalizeDatatype(d0).params \in Seq(Nat)
<1>1. PICK d : d = NormalizeDatatype(d0)
  OBVIOUS
<1>2. d.family = l.family /\ Len(d.params) = Len(l.params) /\ Matches(d0)
  BY <1>1 DEF OfOneShape
<1>3. d0.params \in Seq(Nat \cup {NotAnInteger})
  BY DEF IsDeclarable, Datatype
<1>4. CASE d0.params = <<>>
  <2>1. d = Default(d0) /\ Stored(d0) = Documented(d0.family)
    BY <1>1, <1>4 DEF NormalizeDatatype, Stored
  <2>2. CASE d \in Defaults /\ d = Documented(d0.family)
    BY <1>1, <1>2, <2>1, <2>2, DefaultsAreStored, DefaultParams
  <2>3. CASE d = d0
    <3>1. d.params = <<>> /\ <<>> \in Seq(Nat)
      BY <1>4, <2>3
    <3>2. PICK p : p = l.params
      OBVIOUS
    <3>3. Len(p) = 0
      BY <1>2, <3>1, <3>2
    <3>4. Documented(l.family) = l
      BY <3>2, <3>3 DEF IsStored
    <3>5. p = <<>>
      <4>1. l \in Datatype
        BY DEF IsStored
      <4>2. p \in Seq(Nat \cup {NotAnInteger})
        BY <3>2, <4>1 DEF Datatype
      <4> QED
        BY <3>3, <4>2
    <3> QED
      BY <1>1, <1>2, <2>1, <2>3, <3>1, <3>2, <3>4, <3>5
  <2> QED
    BY <2>1, <2>2, <2>3, DefaultIs
<1>5. CASE d0.params # <<>>
  <2>1. d = d0
    BY <1>1, <1>5 DEF NormalizeDatatype
  <2>2. l.params # <<>>
    BY <1>2, <1>3, <1>5, <2>1
  <2>3. l.family # "VECTOR"
    <3>1. l.family = "VECTOR" => Len(l.params) = 2 /\ l.params[1] = NotAnInteger
      BY <2>2 DEF IsStored, Temporal
    <3> QED
      BY <3>1 DEF OfOneShape
  <2>4. \A i \in DOMAIN d.params : d.params[i] # NotAnInteger
    BY <1>2, <2>1, <2>3 DEF IsDeclarable
  <2>5. d.params \in Seq(Nat)
    BY <1>3, <2>1, <2>4
  <2>6. BaseFamily(d0.family) = d0.family /\ ~(d0.family = "NUMBER" /\ Len(d0.params) = 1)
    <3>1. PICK f, p : f = l.family /\ p = l.params
      OBVIOUS
    <3>2. \/ f = "NUMBER" /\ Len(p) = 2
          \/ f \in {"VARCHAR", "BINARY"} \cup Temporal
          \/ f = "VECTOR"
      BY <2>2, <3>1 DEF IsStored
    <3>3. "NUMBER" \notin {"VARCHAR", "BINARY"} \cup Temporal
      BY DEF Temporal
    <3>4. BaseFamily(f) = f
      BY <3>2, BaseFamilies
    <3>5. f = "NUMBER" => Len(p) # 1
      BY <3>2, <3>3
    <3>6. d0.family = f /\ Len(d0.params) = Len(p)
      BY <1>2, <2>1, <3>1
    <3> QED
      BY <3>4, <3>5, <3>6
  <2>7. Stored(d0) = Plain(d0.family, d0.params)
    BY <1>5, <2>6 DEF Stored
  <2>8. Stored(d0).family = l.family /\ Stored(d0).params = d.params
    BY <1>2, <2>1, <2>7 DEF Plain, Written
  <2> QED
    BY <1>1, <1>2, <2>1, <2>5, <2>8
<1> QED
  BY <1>4, <1>5

(* Within one shape a parameter that shrinks is what is called narrowing.  *)
LEMMA NarrowingIsShrinking ==
  ASSUME NEW l, IsStored(l), NEW d0, IsDeclarable(d0), OfOneShape(l, d0)
  PROVE  LossyNarrowing(l, d0) <=>
           \E i \in DOMAIN l.params : NormalizeDatatype(d0).params[i] < l.params[i]
<1>1. PICK d : d = NormalizeDatatype(d0)
  OBVIOUS
<1>2. /\ d.family = l.family /\ Len(d.params) = Len(l.params) /\ Matches(d)
      /\ d.params \in Seq(Nat)
  BY <1>1, DeclaredInShape DEF OfOneShape
<1>3. NormalizeDatatype(l) = l /\ Matches(l)
  BY StoredIsItself
<1>4. ParsedFamily(l) = ParsedFamily(d)
  BY <1>2, <1>3 DEF ParsedFamily
<1>5. ParsedParams(l) = l.params
  BY <1>3 DEF ParsedParams, OfOneShape
<1>6. ParsedParams(d) = d.params
  <2>1. \A i \in DOMAIN d.params : d.params[i] # NotAnInteger
    BY <1>2 DEF NotAnInteger
  <2> QED
    BY <1>2, <2>1 DEF ParsedParams
<1>7. LossyNarrowing(l, d0) <=>
        /\ l # d
        /\ l.params # <<>> /\ d.params # <<>> /\ Len(l.params) = Len(d.params)
        /\ SomeParamShrinks(l.params, d.params)
  BY <1>1, <1>3, <1>4, <1>5, <1>6 DEF LossyNarrowing
<1>8. ASSUME NEW i \in DOMAIN l.params, d.params[i] < l.params[i]
      PROVE  l # d /\ l.params # <<>> /\ d.params # <<>>
  <2>1. PICK p, q : p = l.params /\ q = d.params
    OBVIOUS
  <2>2. p # <<>>
    BY <2>1
  <2>3. p \in Seq(Nat)
    BY <2>1, StoredParams DEF OfOneShape
  <2>4. i \in DOMAIN q
    BY <1>2, <2>1, <2>3
  <2>5. q # <<>> /\ q[i] \in Nat
    BY <1>2, <2>1, <2>4
  <2>6. p # q
    BY <1>8, <2>1, <2>5
  <2> QED
    BY <2>1, <2>2, <2>5, <2>6
<1> QED
  BY <1>1, <1>2, <1>7, <1>8 DEF SomeParamShrinks

(* The kinds of types within one shape.                                    *)
LEMMA ShapeKinds ==
  ASSUME NEW l, IsStored(l), NEW d0, OfOneShape(l, d0)
  PROVE  \/ l.family = "NUMBER" /\ Len(l.params) = 2 /\ l.params[2] <= l.params[1]
         \/ l.family \in {"VARCHAR", "BINARY"} /\ Len(l.params) = 1
         \/ l.family \in Temporal /\ Len(l.params) = 1
         \/ l.params = <<>> /\ l.family \notin {"NUMBER", "VARCHAR", "BINARY", "VECTOR"} \cup Temporal
<1>1. PICK f, p : f = l.family /\ p = l.params
  OBVIOUS
<1>2. \A i \in DOMAIN p : p[i] # NotAnInteger
  BY <1>1 DEF OfOneShape
<1>3. p \in Seq(Nat)
  BY <1>1, <1>2, StoredParams
<1>4. \/ f = "NUMBER" /\ Len(p) = 2 /\ p[1] \in Nat /\ p[2] \in 0..p[1]
      \/ f \in {"VARCHAR", "BINARY"} \cup Temporal /\ Len(p) = 1
      \/ f = "VECTOR" /\ Len(p) = 2 /\ p[1] = NotAnInteger
      \/ p = <<>> /\ f # "VECTOR" /\ Documented(f).family = f /\ Documented(f).params = <<>>
  BY <1>1 DEF IsStored
<1>5. ~(Len(p) = 2 /\ p[1] = NotAnInteger)
  BY <1>2, <1>3
<1>6. "NUMBER" \in NumberNames /\ "VARCHAR" \in TextNames /\ "BINARY" \in BinaryNames
  BY DEF NumberNames, TextNames, BinaryNames
<1> QED
  BY <1>1, <1>4, <1>5, <1>6, BareTypes

(* What a type holds, kind by kind.                                        *)
LEMMA WhatHolds ==
  ASSUME NEW t, NEW w, NEW f
  PROVE  /\ t.family = "NUMBER" =>
              (Holds(t, w, f) <=> w <= t.params[1] - t.params[2] /\ f <= t.params[2])
         /\ t.family \in {"VARCHAR", "BINARY"} =>
              (Holds(t, w, f) <=> w <= t.params[1] /\ f = 0)
         /\ t.family \in Temporal => (Holds(t, w, f) <=> f <= t.params[1])
         /\ t.family \notin {"NUMBER", "VARCHAR", "BINARY", "VECTOR"} \cup Temporal =>
              Holds(t, w, f)
BY DEF Holds, Temporal

(* Every size of value is tried.                                           *)
AllSizes == Digits = Nat

(* A parameter that shrinks loses values: the largest of the live type.    *)
LEMMA ShrinkingLoses ==
  ASSUME AllSizes, NEW l, IsStored(l), NEW d0, IsDeclarable(d0), OfOneShape(l, d0),
         NEW i \in DOMAIN l.params, NormalizeDatatype(d0).params[i] < l.params[i]
  PROVE  LosesValues(l, d0)
<1>1. PICK s : s = Stored(d0)
  OBVIOUS
<1>2. PICK p, q : p = l.params /\ q = s.params
  OBVIOUS
<1>3. /\ s.family = l.family /\ q \in Seq(Nat) /\ q = NormalizeDatatype(d0).params
  BY <1>1, <1>2, DeclaredInShape
<1>4. Len(q) = Len(p)
  BY <1>2, <1>3 DEF OfOneShape
<1>5. p \in Seq(Nat) /\ i \in DOMAIN p /\ q[i] < p[i]
  BY <1>2, <1>3, StoredParams DEF OfOneShape
<1>6. ASSUME NEW w \in Nat, NEW f \in Nat, Holds(l, w, f), ~Holds(s, w, f)
      PROVE  LosesValues(l, d0)
  BY <1>1, <1>6, StoredIsItself DEF LosesValues, AllSizes
<1>7. CASE l.family = "NUMBER" /\ Len(p) = 2 /\ p[2] <= p[1]
  <2>1. p[1] \in Nat /\ p[2] \in Nat /\ q[1] \in Nat /\ q[2] \in Nat
    BY <1>3, <1>4, <1>5, <1>7
  <2>2. q[1] < p[1] \/ q[2] < p[2]
    BY <1>5, <1>7
  <2>3. p[1] - p[2] \in Nat
    BY <1>7, <2>1
  <2>4. Holds(l, p[1] - p[2], p[2])
    BY <1>2, <1>7, <2>1, <2>3, WhatHolds
  <2>5. ~(p[1] - p[2] <= q[1] - q[2] /\ p[2] <= q[2])
    BY <2>1, <2>2
  <2>6. ~Holds(s, p[1] - p[2], p[2])
    BY <1>2, <1>3, <1>7, <2>5, WhatHolds
  <2> QED
    BY <1>6, <2>1, <2>3, <2>4, <2>6
<1>8. CASE l.family \in {"VARCHAR", "BINARY"} /\ Len(p) = 1
  <2>1. p[1] \in Nat /\ q[1] \in Nat /\ q[1] < p[1]
    BY <1>3, <1>4, <1>5, <1>8
  <2>2. Holds(l, p[1], 0)
    BY <1>2, <1>8, <2>1, WhatHolds
  <2>3. ~(p[1] <= q[1])
    BY <2>1
  <2>4. ~Holds(s, p[1], 0)
    BY <1>2, <1>3, <1>8, <2>3, WhatHolds
  <2> QED
    BY <1>6, <2>1, <2>2, <2>4
<1>9. CASE l.family \in Temporal /\ Len(p) = 1
  <2>1. p[1] \in Nat /\ q[1] \in Nat /\ q[1] < p[1]
    BY <1>3, <1>4, <1>5, <1>9
  <2>2. Holds(l, 0, p[1])
    BY <1>2, <1>9, <2>1, WhatHolds
  <2>3. ~(p[1] <= q[1])
    BY <2>1
  <2>4. ~Holds(s, 0, p[1])
    BY <1>2, <1>3, <1>9, <2>3, WhatHolds
  <2> QED
    BY <1>6, <2>1, <2>2, <2>4
<1>10. p # <<>>
  BY <1>5
<1> QED
  BY <1>2, <1>7, <1>8, <1>9, <1>10, ShapeKinds

(* Without one, values are lost only where the scale of a number grows.    *)
LEMMA OtherLossIsByScale ==
  ASSUME NEW l, IsStored(l), NEW d0, IsDeclarable(d0), OfOneShape(l, d0),
         \A i \in DOMAIN l.params : ~(NormalizeDatatype(d0).params[i] < l.params[i]),
         LosesValues(l, d0)
  PROVE  l.family = "NUMBER" /\ NormalizeDatatype(d0).params[2] > l.params[2]
<1>1. PICK s : s = Stored(d0)
  OBVIOUS
<1>2. PICK p, q : p = l.params /\ q = s.params
  OBVIOUS
<1>3. /\ s.family = l.family /\ q \in Seq(Nat) /\ q = NormalizeDatatype(d0).params
  BY <1>1, <1>2, DeclaredInShape
<1>4. Len(q) = Len(p)
  BY <1>2, <1>3 DEF OfOneShape
<1>5. p \in Seq(Nat) /\ \A i \in DOMAIN p : ~(q[i] < p[i])
  BY <1>2, <1>3, StoredParams DEF OfOneShape
<1>6. PICK w \in Nat, f \in Nat : Holds(l, w, f) /\ ~Holds(s, w, f)
  BY <1>1, <1>3, StoredIsItself, DigitsAssumption DEF LosesValues
<1>7. CASE l.family = "NUMBER" /\ Len(p) = 2 /\ p[2] <= p[1]
  <2>1. /\ p[1] \in Nat /\ p[2] \in Nat /\ q[1] \in Nat /\ q[2] \in Nat
        /\ q[1] >= p[1] /\ q[2] >= p[2]
    BY <1>3, <1>4, <1>5, <1>7
  <2>2. w <= p[1] - p[2] /\ f <= p[2]
    BY <1>2, <1>6, <1>7, WhatHolds
  <2>3. ~(w <= q[1] - q[2] /\ f <= q[2])
    BY <1>2, <1>3, <1>6, <1>7, WhatHolds
  <2>4. q[2] > p[2]
    BY <2>1, <2>2, <2>3
  <2> QED
    BY <1>2, <1>3, <1>7, <2>4
<1>8. CASE l.family \in {"VARCHAR", "BINARY"} /\ Len(p) = 1
  <2>1. p[1] \in Nat /\ q[1] \in Nat /\ q[1] >= p[1]
    BY <1>3, <1>4, <1>5, <1>8
  <2>2. w <= p[1] /\ f = 0
    BY <1>2, <1>6, <1>8, WhatHolds
  <2>3. ~(w <= q[1] /\ f = 0)
    BY <1>2, <1>3, <1>6, <1>8, WhatHolds
  <2> QED
    BY <2>1, <2>2, <2>3
<1>9. CASE l.family \in Temporal /\ Len(p) = 1
  <2>1. p[1] \in Nat /\ q[1] \in Nat /\ q[1] >= p[1]
    BY <1>3, <1>4, <1>5, <1>9
  <2>2. f <= p[1]
    BY <1>2, <1>6, <1>9, WhatHolds
  <2>3. ~(f <= q[1])
    BY <1>2, <1>3, <1>6, <1>9, WhatHolds
  <2> QED
    BY <2>1, <2>2, <2>3
<1>10. CASE l.family \notin {"NUMBER", "VARCHAR", "BINARY", "VECTOR"} \cup Temporal
  BY <1>3, <1>6, <1>10, WhatHolds
<1> QED
  BY <1>2, <1>7, <1>8, <1>9, <1>10, ShapeKinds

(* A column of one shape, on both sides.                                   *)
LEMMA ColumnOfOneShape ==
  ASSUME VerdictInv, NEW n \in OneShape
  PROVE  /\ IsStored(LiveType(n)) /\ IsDeclarable(DesiredType(n))
         /\ OfOneShape(LiveType(n), DesiredType(n)) /\ DesiredType(n) # Undeclared
         /\ kind = "columns" /\ n \in Kept
<1>1. n \in Kept /\ DesiredType(n) # Undeclared /\ OfOneShape(LiveType(n), DesiredType(n))
  BY DEF OneShape, OfOneShape
<1>2. kind = "columns"
  BY <1>1, LinesDeclareNothing DEF VerdictInv
<1> QED
  BY <1>1, <1>2, KeptTypes

(* The invariant NarrowingLoses of the specification, with every size of   *)
(* value tried: whatever the tables, within one shape a column is only     *)
(* called narrowed if values of it are lost.                               *)
THEOREM NarrowingAlwaysLoses ==
  ASSUME AllSizes
  PROVE  Spec => []NarrowingLoses
<1>1. VerdictInv => NarrowingLoses
  <2> SUFFICES ASSUME VerdictInv, NEW n \in diff.narrowed \cap OneShape
               PROVE  LosesValues(LiveType(n), DesiredType(n))
    BY DEF NarrowingLoses
  <2>1. pc # "compare" /\ kind = "columns"
    BY DEF VerdictInv
  <2>2. LossyNarrowing(LiveType(n), DesiredType(n))
    BY <2>1 DEF VerdictInv, Found, LiveType, DesiredType
  <2>3. \E i \in DOMAIN LiveType(n).params :
          NormalizeDatatype(DesiredType(n)).params[i] < LiveType(n).params[i]
    BY <2>2, ColumnOfOneShape, NarrowingIsShrinking
  <2> QED
    BY <2>3, ColumnOfOneShape, ShrinkingLoses
<1> QED
  BY <1>1, VerdictInvariant, PTL

(* The invariant UnflaggedLossIsByScale of the specification: whatever the *)
(* tables, within one shape the one loss that is let through is that of a  *)
(* scale that grows.                                                       *)
THEOREM UnflaggedLossIsAlwaysByScale == Spec => []UnflaggedLossIsByScale
<1>1. VerdictInv => UnflaggedLossIsByScale
  <2> SUFFICES ASSUME VerdictInv, Compared, NEW n \in OneShape \ diff.narrowed,
                      LosesValues(LiveType(n), DesiredType(n))
               PROVE  /\ LiveType(n).family = "NUMBER"
                      /\ NormalizeDatatype(DesiredType(n)).params[2] > LiveType(n).params[2]
    BY DEF UnflaggedLossIsByScale
  <2>1. ~LossyNarrowing(LiveType(n), DesiredType(n))
    <3>1. DatatypeDiffers(LiveType(n), DesiredType(n))
      BY ColumnOfOneShape, StoredIsItself, SameNormalFormSameType, SameTypeKeepsValues
    <3>2. n \in Kept /\ DesiredType(n) # Undeclared /\ kind = "columns"
      BY ColumnOfOneShape
    <3>3. n \in Altered
      BY <3>1, <3>2 DEF Altered, ItemDiffers, LiveType, DesiredType
    <3>4. diff.narrowed = Found.narrowed
      BY <3>2 DEF VerdictInv, Compared
    <3> QED
      BY <3>3, <3>4 DEF Found, LiveType, DesiredType
  <2>2. \A i \in DOMAIN LiveType(n).params :
          ~(NormalizeDatatype(DesiredType(n)).params[i] < LiveType(n).params[i])
    BY <2>1, ColumnOfOneShape, NarrowingIsShrinking
  <2> QED
    BY <2>2, ColumnOfOneShape, OtherLossIsByScale
<1> QED
  BY <1>1, VerdictInvariant, PTL

-----------------------------------------------------------------------------
(* Sequences of sequences                                                  *)

(* The recursion behind FlattenSeq is well founded.                        *)
LEMMA FlattenIsRecursive ==
  ASSUME NEW S, NEW ss \in Seq(Seq(S)), ss # <<>>
  PROVE  \E f \in [1..Len(ss) -> Seq(S)] :
           /\ FlattenSeq(ss) = f[Len(ss)]
           /\ \A i \in 1..Len(ss) : f[i] = IF i = 1 THEN ss[i] ELSE f[i - 1] \o ss[i]
<1> DEFINE n == Len(ss)
           h == [i \in Nat |-> [v \in Seq(S) |-> IF i \in 1..n THEN v \o ss[i] ELSE v]]
           Fits(f) == f = [i \in 1..n |-> IF i = 1 THEN ss[i] ELSE f[i - 1] \o ss[i]]
<1>1. n \in Nat \ {0} /\ \A i \in 1..n : ss[i] \in Seq(S)
  OBVIOUS
<1>2. \A i \in 1..n : \A v \in Seq(S) : v \o ss[i] \in Seq(S)
  BY <1>1
<1> HIDE DEF n
<1>3. \E f : Fits(f)
  <2>1. h \in [Nat -> [Seq(S) -> Seq(S)]]
    BY <1>2
  <2>2. \A i \in 1..n : \A v \in Seq(S) : h[i][v] = v \o ss[i]
    BY <1>1
  <2>3. n \in Nat /\ ss[1] \in Seq(S)
    BY <1>1
  <2> HIDE DEF h
  <2>4. PICK g \in [1..n -> Seq(S)] :
          \A i \in 1..n : g[i] = IF i = 1 THEN ss[1] ELSE h[i][g[i - 1]]
    <3> DEFINE V == Seq(S)
               a == ss[1]
    <3>1. n \in Nat /\ a \in V /\ h \in [Nat -> [V -> V]]
      BY <2>1, <2>3
    <3> HIDE DEF V, a
    <3>2. \E g \in [1..n -> V] : Recursion(g, n, a, h)
      BY <3>1, RecursionExists
    <3> QED
      BY <3>2 DEF V, a, Recursion
  <2>5. ASSUME NEW i \in 1..n PROVE g[i] = IF i = 1 THEN ss[i] ELSE g[i - 1] \o ss[i]
    <3>1. i # 1 => g[i - 1] \in Seq(S)
      BY <1>1, <2>4
    <3> QED
      BY <2>2, <2>4, <3>1
  <2>6. Fits(g)
    BY <2>4, <2>5
  <2> QED
    BY <2>6
<1> DEFINE F == CHOOSE f : Fits(f)
<1>4. Fits(F)
  <2> HIDE DEF Fits
  <2> QED
    BY <1>3
<1>5. FlattenSeq(ss) = F[n]
  BY <1>1 DEF FlattenSeq, n
<1> HIDE DEF F
<1>6. \A i \in 1..n : F[i] = IF i = 1 THEN ss[i] ELSE F[i - 1] \o ss[i]
  BY <1>4
<1> DEFINE Untyped == {i \in 1..n : F[i] \notin Seq(S)}
<1>7. ASSUME Untyped # {} PROVE FALSE
  <2>1. PICK i \in Untyped : \A j \in Untyped : i <= j
    <3>1. Untyped \subseteq Nat
      OBVIOUS
    <3> QED
      BY <1>7, <3>1, FirstExists
  <2>2. CASE i = 1
    BY <1>1, <1>6, <2>1, <2>2
  <2>3. CASE i # 1
    <3>1. i - 1 \in 1..n /\ ~(i <= i - 1)
      BY <1>1, <2>3
    <3>2. F[i - 1] \in Seq(S)
      BY <2>1, <3>1
    <3> QED
      BY <1>2, <1>6, <2>3, <3>2
  <2> QED
    BY <2>2, <2>3
<1>8. F \in [1..n -> Seq(S)]
  BY <1>4, <1>7
<1> QED
  BY <1>5, <1>6, <1>8 DEF n

(* Where the pieces of a flattened sequence begin, and what stands there.  *)
Offsets(off, ss) ==
  /\ off \in [1..(Len(ss) + 1) -> Nat] /\ off[1] = 0
  /\ \A i \in 1..Len(ss) : off[i + 1] = off[i] + Len(ss[i])

(* Where a flattened sequence has the elements of its pieces.              *)
Places(off, ss, flat) ==
  /\ Offsets(off, ss)
  /\ Len(flat) = off[Len(ss) + 1]
  /\ \A i \in 1..Len(ss) : \A j \in 1..Len(ss[i]) : flat[off[i] + j] = ss[i][j]

HasPlace(k, off, ss) == \E i \in 1..Len(ss) : \E j \in 1..Len(ss[i]) : k = off[i] + j

(* Where two sequences stand, one behind the other.                        *)
StandBehind(s, t, u) ==
  /\ Len(u) = Len(s) + Len(t)
  /\ \A k \in 1..Len(s) : k \in 1..Len(u) /\ u[k] = s[k]
  /\ \A k \in 1..Len(t) : Len(s) + k \in 1..Len(u) /\ u[Len(s) + k] = t[k]

(* Two sequences, one behind the other.                                    *)
LEMMA Appended ==
  ASSUME NEW S, NEW s \in Seq(S), NEW t \in Seq(S)
  PROVE  s \o t \in Seq(S) /\ StandBehind(s, t, s \o t)
<1> DEFINE u == s \o t
<1>1. /\ u \in Seq(S) /\ Len(s) \in Nat /\ Len(t) \in Nat
      /\ Len(u) = Len(s) + Len(t)
      /\ \A k \in 1..Len(s) : u[k] = s[k]
      /\ \A k \in 1..Len(t) : u[Len(s) + k] = t[k]
  OBVIOUS
<1> HIDE DEF u
<1>2. /\ \A k \in 1..Len(s) : k \in 1..Len(u)
      /\ \A k \in 1..Len(t) : Len(s) + k \in 1..Len(u)
  BY <1>1
<1> QED
  BY <1>1, <1>2 DEF u, StandBehind

(* A flattened sequence has each piece where its offset says.              *)
LEMMA FlattenPlaces ==
  ASSUME NEW S, NEW ss \in Seq(Seq(S))
  PROVE  FlattenSeq(ss) \in Seq(S) /\ \E off : Places(off, ss, FlattenSeq(ss))
<1>1. CASE ss = <<>>
  <2> DEFINE off == [i \in 1..1 |-> 0]
  <2>1. Len(ss) = 0 /\ FlattenSeq(ss) = <<>>
    BY <1>1 DEF FlattenSeq
  <2>2. Offsets(off, ss)
    BY <2>1 DEF Offsets
  <2> HIDE DEF off
  <2>3. off[Len(ss) + 1] = 0
    BY <2>1, <2>2 DEF Offsets
  <2> QED
    BY <2>1, <2>2, <2>3 DEF Places
<1>2. CASE ss # <<>>
  <2> DEFINE n == Len(ss)
  <2>1. PICK f \in [1..n -> Seq(S)] :
          /\ FlattenSeq(ss) = f[n]
          /\ \A i \in 1..n : f[i] = IF i = 1 THEN ss[i] ELSE f[i - 1] \o ss[i]
    BY <1>2, FlattenIsRecursive
  <2>2. n \in Nat \ {0} /\ \A i \in 1..n : ss[i] \in Seq(S)
    BY <1>2
  <2> HIDE DEF n
  <2> DEFINE off == [i \in 1..(n + 1) |-> IF i = 1 THEN 0 ELSE Len(f[i - 1])]
  <2>3. \A i \in 1..n : Len(f[i]) \in Nat /\ Len(ss[i]) \in Nat
    BY <2>1, <2>2
  <2>4. off \in [1..(n + 1) -> Nat] /\ off[1] = 0
    BY <2>2, <2>3
  <2>5. \A i \in 1..n : off[i + 1] = Len(f[i])
    BY <2>2
  <2>6. \A i \in 1..n : i # 1 => i - 1 \in 1..n /\ off[i] = Len(f[i - 1])
    BY <2>2
  <2> HIDE DEF off
  <2>7. ASSUME NEW i \in 1..n PROVE off[i + 1] = off[i] + Len(ss[i])
    <3>1. CASE i = 1
      <4>1. f[i] = ss[i] /\ off[i] = 0 /\ off[i + 1] = Len(f[i])
        BY <2>1, <2>4, <2>5, <3>1
      <4> QED
        BY <2>3, <4>1
    <3>2. CASE i # 1
      <4>1. f[i - 1] \in Seq(S) /\ ss[i] \in Seq(S) /\ f[i] = f[i - 1] \o ss[i]
        BY <2>1, <2>2, <2>6, <3>2
      <4>2. Len(f[i]) = Len(f[i - 1]) + Len(ss[i])
        BY <4>1, Appended DEF StandBehind
      <4> QED
        BY <2>5, <2>6, <3>2, <4>2
    <3> QED
      BY <3>1, <3>2
  <2> DEFINE Right(m) == \A i \in 1..m : \A j \in 1..Len(ss[i]) :
               /\ off[i] + j \in 1..Len(f[m])
               /\ f[m][off[i] + j] = ss[i][j]
  <2>8. ASSUME NEW m \in 1..n, m # 1 => Right(m - 1) PROVE Right(m)
    <3> SUFFICES ASSUME NEW i \in 1..m, NEW j \in 1..Len(ss[i])
                 PROVE  off[i] + j \in 1..Len(f[m]) /\ f[m][off[i] + j] = ss[i][j]
      OBVIOUS
    <3>1. i \in 1..n /\ off[i] \in Nat /\ Len(ss[i]) \in Nat /\ j \in Nat \ {0}
      BY <2>2, <2>3, <2>4
    <3>2. CASE m = 1
      <4>1. i = 1
        BY <3>2
      <4>2. f[m] = ss[i] /\ off[i] = 0
        BY <2>1, <2>4, <3>2, <4>1
      <4> QED
        BY <3>1, <4>2
    <3>3. CASE m # 1
      <4>1. m - 1 \in 1..n /\ f[m - 1] \in Seq(S) /\ ss[m] \in Seq(S)
        BY <2>1, <2>2, <2>6, <3>3
      <4>2. f[m] = f[m - 1] \o ss[m] /\ off[m] = Len(f[m - 1])
        BY <2>1, <2>6, <3>3
      <4>3. /\ \A k \in 1..Len(f[m - 1]) : k \in 1..Len(f[m]) /\ f[m][k] = f[m - 1][k]
            /\ \A k \in 1..Len(ss[m]) : /\ Len(f[m - 1]) + k \in 1..Len(f[m])
                                      /\ f[m][Len(f[m - 1]) + k] = ss[m][k]
        <5>1. StandBehind(f[m - 1], ss[m], f[m])
          BY <4>1, <4>2, Appended
        <5> QED
          BY <5>1 DEF StandBehind
      <4>4. CASE i = m
        <5>1. off[i] = Len(f[m - 1]) /\ j \in 1..Len(ss[m])
          BY <4>2, <4>4
        <5> QED
          BY <4>3, <4>4, <5>1
      <4>5. CASE i # m
        <5>1. i \in 1..(m - 1)
          BY <2>2, <4>5
        <5>2. off[i] + j \in 1..Len(f[m - 1]) /\ f[m - 1][off[i] + j] = ss[i][j]
          BY <2>8, <3>3, <5>1
        <5> QED
          BY <4>3, <5>2
      <4> QED
        BY <4>4, <4>5
    <3> QED
      BY <3>2, <3>3
  <2>9. Right(n)
    <3> HIDE DEF Right
    <3> DEFINE Wrong == {m \in 1..n : ~Right(m)}
    <3>1. ASSUME Wrong # {} PROVE FALSE
      <4>1. PICK m \in Wrong : \A k \in Wrong : m <= k
        <5>1. Wrong \subseteq Nat
          OBVIOUS
        <5> QED
          BY <3>1, <5>1, FirstExists
      <4>2. m # 1 => m - 1 \in 1..n /\ ~(m <= m - 1)
        BY <2>2
      <4>3. m # 1 => Right(m - 1)
        BY <4>1, <4>2
      <4> QED
        BY <2>8, <4>3
    <3>2. n \in 1..n
      BY <2>2
    <3> QED
      BY <3>1, <3>2
  <2>10. Offsets(off, ss)
    BY <2>4, <2>7 DEF Offsets, n
  <2>11. Len(FlattenSeq(ss)) = off[n + 1] /\ FlattenSeq(ss) \in Seq(S)
    BY <2>1, <2>2, <2>5
  <2> QED
    BY <2>1, <2>9, <2>10, <2>11 DEF n, Places
<1> QED
  BY <1>1, <1>2

(* Every place of a flattened sequence is one in a piece.                  *)
LEMMA PlaceInPiece ==
  ASSUME NEW S, NEW ss \in Seq(Seq(S)), NEW off, Offsets(off, ss),
         NEW k \in 1..off[Len(ss) + 1]
  PROVE  HasPlace(k, off, ss)
<1> DEFINE n == Len(ss)
           T == {i \in 1..n : off[i] < k}
<1>1. /\ n \in Nat /\ off \in [1..(n + 1) -> Nat] /\ off[1] = 0
      /\ \A i \in 1..n : off[i + 1] = off[i] + Len(ss[i]) /\ Len(ss[i]) \in Nat
  BY DEF Offsets
<1>2. k \in Nat \ {0} /\ k <= off[n + 1]
  <2>1. off[n + 1] \in Nat
    BY <1>1
  <2> QED
    BY <2>1
<1> HIDE DEF n
<1>3. 1 \in T
  <2>1. n # 0
    BY <1>1, <1>2
  <2> QED
    BY <1>1, <1>2, <2>1
<1>4. PICK i \in T : \A j \in T : j <= i
  <2>1. T \subseteq 1..n /\ T # {}
    BY <1>3
  <2> HIDE DEF T
  <2> QED
    BY <1>1, <2>1, LastExists
<1>5. i \in 1..n /\ off[i] < k /\ off[i] \in Nat
  BY <1>1
<1>6. k <= off[i + 1]
  <2>1. CASE i = n
    BY <1>2, <2>1
  <2>2. CASE i # n
    <3>1. i + 1 \in 1..n /\ ~(i + 1 <= i)
      BY <1>1, <1>5, <2>2
    <3>2. i + 1 \notin T
      BY <1>4, <3>1
    <3>3. off[i + 1] \in Nat
      BY <1>1, <3>1
    <3> QED
      BY <1>2, <3>1, <3>2, <3>3
  <2> QED
    BY <2>1, <2>2
<1>7. off[i + 1] = off[i] + Len(ss[i]) /\ Len(ss[i]) \in Nat
  BY <1>1, <1>5
<1>8. k - off[i] \in 1..Len(ss[i]) /\ k = off[i] + (k - off[i])
  BY <1>2, <1>5, <1>6, <1>7
<1> QED
  BY <1>5, <1>8 DEF n, HasPlace

(* Every place in a piece is one of the flattened sequence.                *)
LEMMA OffsetsGrow ==
  ASSUME NEW S, NEW ss \in Seq(Seq(S)), NEW off, Offsets(off, ss),
         NEW i \in 1..Len(ss), NEW j \in 1..Len(ss[i])
  PROVE  off[i] + j \in 1..off[Len(ss) + 1]
<1> DEFINE n == Len(ss)
           T == {m \in (i + 1)..(n + 1) : off[m] < off[i] + j}
<1>1. /\ n \in Nat /\ off \in [1..(n + 1) -> Nat]
      /\ \A m \in 1..n : off[m + 1] = off[m] + Len(ss[m]) /\ Len(ss[m]) \in Nat
  BY DEF Offsets
<1>2. i \in 1..n /\ j \in 1..Len(ss[i]) /\ off[i] \in Nat
  BY <1>1
<1> HIDE DEF n
<1>3. ASSUME T # {} PROVE FALSE
  <2>1. PICK m \in T : \A k \in T : m <= k
    <3>1. T \subseteq Nat
      BY <1>1, <1>2
    <3> HIDE DEF T
    <3> QED
      BY <1>3, <3>1, FirstExists
  <2>2. m \in (i + 1)..(n + 1) /\ m - 1 \in 1..n /\ off[m] < off[i] + j
    BY <1>1, <1>2
  <2>3. off[m] = off[m - 1] + Len(ss[m - 1]) /\ Len(ss[m - 1]) \in Nat /\ off[m - 1] \in Nat
    BY <1>1, <2>2
  <2>4. CASE m = i + 1
    BY <1>2, <2>2, <2>3, <2>4
  <2>5. CASE m # i + 1
    <3>1. m - 1 \in (i + 1)..(n + 1) /\ ~(m <= m - 1)
      BY <1>1, <1>2, <2>2, <2>5
    <3>2. m - 1 \notin T
      BY <2>1, <3>1
    <3> QED
      BY <1>2, <2>2, <2>3, <3>1, <3>2
  <2> QED
    BY <2>4, <2>5
<1>4. n + 1 \in (i + 1)..(n + 1) /\ off[n + 1] \in Nat
  BY <1>1, <1>2
<1>5. ~(off[n + 1] < off[i] + j)
  BY <1>3, <1>4
<1> QED
  BY <1>2, <1>4, <1>5 DEF n

(* A flattened sequence has the elements of its pieces.                    *)
LEMMA FlattenElements ==
  ASSUME NEW S, NEW ss \in Seq(Seq(S))
  PROVE  /\ FlattenSeq(ss) \in Seq(S)
         /\ \A k \in DOMAIN FlattenSeq(ss) : \E i \in DOMAIN ss : \E j \in DOMAIN ss[i] :
              FlattenSeq(ss)[k] = ss[i][j]
         /\ \A i \in DOMAIN ss : \A j \in DOMAIN ss[i] : \E k \in DOMAIN FlattenSeq(ss) :
              FlattenSeq(ss)[k] = ss[i][j]
<1> DEFINE flat == FlattenSeq(ss)
<1>0. PICK off : Places(off, ss, flat)
  BY FlattenPlaces
<1>1. /\ flat \in Seq(S) /\ Offsets(off, ss)
      /\ Len(flat) = off[Len(ss) + 1]
      /\ \A i \in 1..Len(ss) : \A j \in 1..Len(ss[i]) : flat[off[i] + j] = ss[i][j]
  BY <1>0, FlattenPlaces DEF Places
<1> HIDE DEF flat
<1>2. \A i \in 1..Len(ss) : ss[i] \in Seq(S)
  OBVIOUS
<1>3. ASSUME NEW k \in DOMAIN flat
      PROVE  \E i \in DOMAIN ss : \E j \in DOMAIN ss[i] : flat[k] = ss[i][j]
  <2>1. k \in 1..off[Len(ss) + 1]
    BY <1>1
  <2>0. HasPlace(k, off, ss)
    BY <1>1, <2>1, PlaceInPiece
  <2>2. PICK i \in 1..Len(ss) : \E j \in 1..Len(ss[i]) : k = off[i] + j
    BY <2>0 DEF HasPlace
  <2>3. PICK j \in 1..Len(ss[i]) : k = off[i] + j
    BY <2>2
  <2>4. flat[k] = ss[i][j]
    BY <1>1, <2>3
  <2>5. i \in DOMAIN ss /\ j \in DOMAIN ss[i]
    BY <1>2
  <2> QED
    BY <2>4, <2>5
<1>4. ASSUME NEW i \in DOMAIN ss, NEW j \in DOMAIN ss[i]
      PROVE  \E k \in DOMAIN flat : flat[k] = ss[i][j]
  <2>1. i \in 1..Len(ss) /\ j \in 1..Len(ss[i])
    BY <1>2
  <2>2. off[i] + j \in 1..off[Len(ss) + 1]
    BY <1>1, <2>1, OffsetsGrow
  <2> QED
    BY <1>1, <2>1, <2>2
<1> QED
  BY <1>1, <1>3, <1>4 DEF flat

-----------------------------------------------------------------------------
(* The rows                                                                *)

(* A row, two tables of columns, and the pair behind the last of each.     *)
LineRow == [status : {"removed", "added", "context"}, item : Item]

Tables == live \in Seq(Item) /\ desired \in Seq(Item)

Ends == <<Len(live) + 1, Len(desired) + 1>>

(* What difflib promises of the pairs it finds.                            *)
LEMMA AlignmentPairs ==
  ASSUME NEW a \in Alignments
  PROVE  /\ \A p \in a : /\ p = <<p[1], p[2]>> /\ p[1] \in DOMAIN live /\ p[2] \in DOMAIN desired
                         /\ live[p[1]].name = desired[p[2]].name
         /\ \A p, q \in a : p[1] <= q[1] => p = q \/ (p[1] < q[1] /\ p[2] < q[2])
<1>1. a \subseteq {p \in (DOMAIN live) \X (DOMAIN desired) : live[p[1]].name = desired[p[2]].name}
  BY DEF Alignments
<1>2. Increasing(a)
  BY DEF Alignments
<1> QED
  BY <1>1, <1>2 DEF Increasing

(* Equal names are only left without a pair for one that stands between.   *)
LEMMA AlignmentIsFull ==
  ASSUME Tables, NEW a \in Alignments, NEW i \in DOMAIN live, NEW j \in DOMAIN desired,
         live[i].name = desired[j].name
  PROVE  \E q \in a : \/ q[1] = i
                      \/ q[2] = j
                      \/ q[1] < i /\ q[2] > j
                      \/ q[1] > i /\ q[2] < j
<1>1. CASE <<i, j>> \in a
  BY <1>1
<1>2. CASE <<i, j>> \notin a
  <2> DEFINE equal == {p \in (DOMAIN live) \X (DOMAIN desired) :
                         live[p[1]].name = desired[p[2]].name}
             more == a \cup {<<i, j>>}
  <2>1. <<i, j>> \in equal \ a /\ more \in SUBSET equal
    BY <1>2 DEF Alignments
  <2>2. ~Increasing(more)
    BY <2>1 DEF Alignments
  <2>3. PICK p \in more, q \in more : p[1] <= q[1] /\ p # q /\ ~(p[1] < q[1] /\ p[2] < q[2])
    BY <2>2 DEF Increasing
  <2>4. /\ \A r \in more : r[1] \in Nat /\ r[2] \in Nat
        /\ i \in Nat /\ j \in Nat /\ <<i, j>>[1] = i /\ <<i, j>>[2] = j
    BY <2>1 DEF Tables
  <2>5. p \in a => q = <<i, j>>
    <3>1. p \in a /\ q \in a => p = q \/ (p[1] < q[1] /\ p[2] < q[2])
      BY <2>3, AlignmentPairs
    <3> QED
      BY <2>3, <3>1
  <2>6. CASE p \in a
    BY <2>3, <2>4, <2>5, <2>6
  <2>7. CASE p \notin a
    <3>1. p = <<i, j>> /\ q \in a
      BY <2>3, <2>7
    <3> QED
      BY <2>3, <2>4, <3>1
  <2> QED
    BY <2>6, <2>7
<1> QED
  BY <1>1, <1>2

(* What lies behind a pair: the last of the new lines that have one.       *)
LEMMA BehindIsBefore ==
  ASSUME Tables, NEW a \in Alignments, NEW p \in a \cup {Ends}
  PROVE  /\ p[1] \in 1..(Len(live) + 1) /\ p[2] \in 1..(Len(desired) + 1)
         /\ Behind(p, a) \in 0..(p[2] - 1)
         /\ \A q \in a : q[1] < p[1] => q[2] <= Behind(p, a)
         /\ Behind(p, a) # 0 => \E q \in a : q[1] < p[1] /\ q[2] = Behind(p, a)
<1> DEFINE before == {q \in a : q[1] < p[1]}
           T == {q[2] : q \in before}
           D == Len(desired)
<1>1. D \in Nat /\ Len(live) \in Nat /\ DOMAIN live = 1..Len(live) /\ DOMAIN desired = 1..D
  BY DEF Tables
<1>2. p[1] \in 1..(Len(live) + 1) /\ p[2] \in 1..(D + 1)
  BY <1>1, AlignmentPairs DEF Ends
<1>3. \A q \in before : q[2] \in 1..(p[2] - 1)
  <2> SUFFICES ASSUME NEW q \in before PROVE q[2] \in 1..(p[2] - 1)
    OBVIOUS
  <2>1. q \in a /\ q[1] < p[1] /\ q[1] \in 1..Len(live) /\ q[2] \in 1..D
    BY <1>1, AlignmentPairs
  <2>2. q[2] < p[2]
    <3>1. CASE p \in a
      <4>1. q[1] <= p[1] /\ q # p
        BY <1>2, <2>1
      <4> QED
        BY <2>1, <3>1, <4>1, AlignmentPairs
    <3>2. CASE p = Ends
      BY <1>1, <2>1, <3>2 DEF Ends
    <3> QED
      BY <3>1, <3>2
  <2> QED
    BY <1>2, <2>1, <2>2
<1>4. T \subseteq 1..D
  <2>1. \A q \in before : q[2] \in 1..D
    BY <1>1, AlignmentPairs
  <2> QED
    BY <2>1
<1>5. Behind(p, a) = Max({0} \cup T)
  BY DEF Behind
<1>6. \E x \in {0} \cup T : \A y \in {0} \cup T : x >= y
  <2>1. CASE T = {}
    <3> HIDE DEF T
    <3> QED
      BY <2>1
  <2>2. CASE T # {}
    <3> HIDE DEF T
    <3>1. PICK x \in T : \A y \in T : y <= x
      BY <1>1, <1>4, <2>2, LastExists
    <3> QED
      BY <1>1, <1>4, <3>1
  <2> QED
    BY <2>1, <2>2
<1>7. Behind(p, a) \in {0} \cup T /\ \A y \in {0} \cup T : Behind(p, a) >= y
  <2> HIDE DEF T
  <2> QED
    BY <1>5, <1>6 DEF Max
<1>8. \A q \in a : q[1] < p[1] => q[2] <= Behind(p, a)
  BY <1>7
<1>9. Behind(p, a) # 0 => \E q \in a : q[1] < p[1] /\ q[2] = Behind(p, a)
  BY <1>7
<1>10. Behind(p, a) \in 0..(p[2] - 1)
  BY <1>2, <1>3, <1>7
<1> QED
  BY <1>2, <1>8, <1>9, <1>10

(* A name of the items of a table, and the item found under it.            *)
LEMMA NamedItem ==
  ASSUME NEW items \in Seq(Item), NEW i \in DOMAIN items
  PROVE  ByName(items, items[i].name) \in Item /\ ByName(items, items[i].name).name = items[i].name
<1>1. items[i].name \in ColumnNames(items)
  BY DEF ColumnNames
<1> QED
  BY <1>1, ByNameFinds

(* The new lines without a pair are those between the pairs.               *)
Alone(j, a) == \A p \in a : p[2] # j

(* The new lines before a pair are those without one behind the last.      *)
LEMMA NewBeforeIs ==
  ASSUME Tables, NEW a \in Alignments, NEW p \in a \cup {Ends}
  PROVE  /\ NewBefore(p, a) \in Seq(LineRow)
         /\ \A k \in DOMAIN NewBefore(p, a) : \E j \in DOMAIN desired :
              /\ Alone(j, a)
              /\ NewBefore(p, a)[k] = Row("added", ByName(desired, desired[j].name))
         /\ \A j \in DOMAIN desired : Behind(p, a) < j /\ j < p[2] =>
              \E k \in DOMAIN NewBefore(p, a) :
                NewBefore(p, a)[k] = Row("added", ByName(desired, desired[j].name))
<1> DEFINE b == Behind(p, a)
           n == p[2] - b - 1
           new == NewBefore(p, a)
<1>1. /\ b \in 0..(p[2] - 1) /\ p[2] \in 1..(Len(desired) + 1) /\ Len(desired) \in Nat
      /\ DOMAIN desired = 1..Len(desired)
  BY BehindIsBefore DEF Tables
<1>2. new = [k \in 1..n |-> Row("added", ByName(desired, desired[b + k].name))] /\ n \in Nat
  BY <1>1 DEF NewBefore
<1> HIDE DEF new
<1>3. ASSUME NEW k \in 1..n
      PROVE  /\ b + k \in DOMAIN desired /\ Alone(b + k, a)
             /\ new[k] = Row("added", ByName(desired, desired[b + k].name))
             /\ new[k] \in LineRow
  <2>1. b + k \in DOMAIN desired /\ b < b + k /\ b + k < p[2]
    BY <1>1
  <2>2. Alone(b + k, a)
    <3> SUFFICES ASSUME NEW q \in a PROVE q[2] # b + k
      BY DEF Alone
    <3>1. q[1] < p[1] => q[2] <= b
      BY BehindIsBefore
    <3>2. p[1] <= q[1] => p[2] <= q[2]
      <4>1. CASE p \in a
        <5>1. p[1] <= q[1] => p = q \/ p[2] < q[2]
          BY <4>1, AlignmentPairs
        <5> QED
          BY <1>1, <2>1, <5>1, AlignmentPairs
      <4>2. CASE p = Ends
        BY <1>1, <4>2, AlignmentPairs DEF Ends, Tables
      <4> QED
        BY <4>1, <4>2
    <3>3. p[1] \in Nat /\ q[1] \in Nat /\ q[2] \in Nat
      <4>1. p[1] \in 1..(Len(live) + 1)
        BY BehindIsBefore
      <4>2. q[1] \in DOMAIN live /\ q[2] \in DOMAIN desired
        BY AlignmentPairs
      <4> QED
        BY <4>1, <4>2 DEF Tables
    <3> QED
      BY <1>1, <2>1, <3>1, <3>2, <3>3
  <2>3. new[k] = Row("added", ByName(desired, desired[b + k].name))
    BY <1>2
  <2>4. new[k] \in LineRow
    BY <2>1, <2>3, NamedItem DEF Row, LineRow, Tables
  <2> QED
    BY <2>1, <2>2, <2>3, <2>4
<1>4. DOMAIN new = 1..n
  BY <1>2
<1>5. new \in Seq(LineRow)
  <2>1. new \in [1..n -> LineRow]
    BY <1>2, <1>3, <1>4
  <2> QED
    BY <1>2, <2>1
<1>6. ASSUME NEW j \in DOMAIN desired, b < j, j < p[2]
      PROVE  \E k \in 1..n : new[k] = Row("added", ByName(desired, desired[j].name))
  <2>1. j - b \in 1..n /\ b + (j - b) = j
    BY <1>1, <1>6
  <2> QED
    BY <1>3, <2>1
<1> QED
  BY <1>3, <1>4, <1>5, <1>6 DEF new

(* What becomes of a pair.                                                 *)
LEMMA MatchedIs ==
  ASSUME Tables, NEW a \in Alignments, NEW p \in a
  PROVE  LET n == live[p[1]].name
             old == Row("removed", ByName(live, n))
             new == Row("added", ByName(desired, n))
             m == Matched(ByName(live, n), ByName(desired, n))
         IN /\ n \in Kept
            /\ old \in LineRow /\ old.status = "removed" /\ old.item.name = n
            /\ new \in LineRow /\ new.status = "added" /\ new.item.name = n
            /\ n \in Altered => m = <<old, new>>
            /\ n \notin Altered => m = <<Row("context", ByName(live, n))>>
            /\ m \in Seq(LineRow)
<1> DEFINE n == live[p[1]].name
           l == ByName(live, n)
           d == ByName(desired, n)
<1>1. p[1] \in DOMAIN live /\ p[2] \in DOMAIN desired /\ desired[p[2]].name = n
  BY AlignmentPairs
<1>2. n \in Kept
  BY <1>1 DEF Kept, ColumnNames
<1>3. l \in Item /\ l.name = n
  BY <1>1, NamedItem DEF Tables
<1>4. d \in Item /\ d.name = n
  <2>1. ByName(desired, desired[p[2]].name) \in Item
        /\ ByName(desired, desired[p[2]].name).name = desired[p[2]].name
    BY <1>1, NamedItem DEF Tables
  <2> QED
    BY <1>1, <2>1
<1>5. n \in Altered <=> ItemDiffers(l, d)
  BY <1>2 DEF Altered
<1>6. /\ Row("removed", l) \in LineRow /\ Row("removed", l).status = "removed"
      /\ Row("removed", l).item.name = n
      /\ Row("added", d) \in LineRow /\ Row("added", d).status = "added"
      /\ Row("added", d).item.name = n
      /\ Row("context", l) \in LineRow
  BY <1>3, <1>4 DEF Row, LineRow
<1> HIDE DEF l, d, n
<1>7. /\ n \in Altered => Matched(l, d) = <<Row("removed", l), Row("added", d)>>
      /\ n \notin Altered => Matched(l, d) = <<Row("context", l)>>
  BY <1>5 DEF Matched
<1>8. Matched(l, d) \in Seq(LineRow)
  <2>1. \A r, s \in LineRow : <<r, s>> \in Seq(LineRow) /\ <<r>> \in Seq(LineRow)
    OBVIOUS
  <2> QED
    BY <1>6, <1>7, <2>1
<1> QED
  BY <1>2, <1>6, <1>7, <1>8 DEF l, d, n

(* What the renderer makes of an old line.                                 *)
LEMMA RowsOfIs ==
  ASSUME Tables, NEW a \in Alignments, NEW i \in 1..(Len(live) + 1)
  PROVE  /\ i # Len(live) + 1 /\ (\A p \in a : p[1] # i) =>
              RowsOf(i, a) = <<Row("removed", ByName(live, live[i].name))>>
         /\ \A p \in a : p[1] = i =>
              RowsOf(i, a) = NewBefore(p, a) \o Matched(ByName(live, live[i].name),
                                                        ByName(desired, live[i].name))
         /\ i = Len(live) + 1 => RowsOf(i, a) = NewBefore(Ends, a) \o <<>>
<1> DEFINE pairs == {p \in a \cup {Ends} : p[1] = i}
           n == live[i].name
<1>1. Ends[1] = Len(live) + 1 /\ \A p \in a : p[1] # Len(live) + 1
  BY AlignmentPairs DEF Ends, Tables
<1>2. RowsOf(i, a) = IF pairs = {} THEN <<Row("removed", ByName(live, n))>>
                     ELSE NewBefore(CHOOSE p \in pairs : TRUE, a)
                          \o (IF Ends \in pairs THEN <<>>
                              ELSE Matched(ByName(live, n), ByName(desired, n)))
  BY DEF RowsOf, Ends
<1>3. ASSUME i # Len(live) + 1, \A p \in a : p[1] # i PROVE pairs = {}
  BY <1>1, <1>3
<1>4. ASSUME NEW p \in a, p[1] = i PROVE pairs = {p} /\ Ends \notin pairs
  <2>1. Ends \notin pairs
    BY <1>1, <1>4
  <2>2. ASSUME NEW q \in a, q[1] = i PROVE q = p
    <3>1. q[1] <= p[1] /\ ~(q[1] < p[1])
      BY <1>4, <2>2
    <3> QED
      BY <3>1, AlignmentPairs
  <2> QED
    BY <1>4, <2>1, <2>2
<1>5. ASSUME i = Len(live) + 1 PROVE pairs = {Ends}
  BY <1>1, <1>5
<1> HIDE DEF pairs
<1>6. \A x : (CHOOSE p \in {x} : TRUE) = x
  OBVIOUS
<1>7. ASSUME NEW p \in a, p[1] = i
      PROVE  RowsOf(i, a) = NewBefore(p, a) \o Matched(ByName(live, n), ByName(desired, n))
  <2>1. pairs = {p} /\ Ends \notin pairs
    BY <1>4, <1>7
  <2> QED
    BY <1>2, <1>6, <2>1
<1>8. ASSUME i = Len(live) + 1 PROVE RowsOf(i, a) = NewBefore(Ends, a) \o <<>>
  BY <1>2, <1>5, <1>6, <1>8
<1> QED
  BY <1>2, <1>3, <1>7, <1>8

(* The names of the rows with one mark.                                    *)
Named(rs, status) == {rs[k].item.name : k \in {k \in DOMAIN rs : rs[k].status = status}}

(* What has no pair, on either side.                                       *)
OldAlone(a) == {live[i].name : i \in {i \in DOMAIN live : \A p \in a : p[1] # i}}

NewAlone(a) == {desired[j].name : j \in {j \in DOMAIN desired : Alone(j, a)}}

(* One old line, and the new ones before it, with or without a pair.       *)
LEMMA RowsOfTyped ==
  ASSUME Tables, NEW a \in Alignments, NEW i \in 1..(Len(live) + 1)
  PROVE  /\ RowsOf(i, a) \in Seq(LineRow)
         /\ Named(RowsOf(i, a), "removed") \subseteq OldAlone(a) \cup Altered
         /\ Named(RowsOf(i, a), "added") \subseteq NewAlone(a) \cup Altered
<1> DEFINE n == live[i].name
           m == Matched(ByName(live, n), ByName(desired, n))
<1>1. Len(live) \in Nat /\ DOMAIN live = 1..Len(live)
  BY DEF Tables
<1>2. CASE i # Len(live) + 1 /\ \A p \in a : p[1] # i
  <2>1. RowsOf(i, a) = <<Row("removed", ByName(live, n))>>
    BY <1>2, RowsOfIs
  <2>2. i \in DOMAIN live
    BY <1>1, <1>2
  <2>3. ByName(live, n) \in Item /\ ByName(live, n).name = n
    BY <2>2, NamedItem DEF Tables
  <2>4. /\ Row("removed", ByName(live, n)) \in LineRow
        /\ Row("removed", ByName(live, n)).status = "removed"
        /\ Row("removed", ByName(live, n)).item.name = n
    BY <2>3 DEF Row, LineRow
  <2>5. n \in OldAlone(a)
    BY <1>2, <2>2 DEF OldAlone
  <2> HIDE DEF n
  <2> QED
    BY <2>1, <2>4, <2>5 DEF Named
<1>3. ASSUME NEW p \in a \cup {Ends}, NEW tail \in Seq(LineRow),
             RowsOf(i, a) = NewBefore(p, a) \o tail,
             \A k \in DOMAIN tail :
               /\ tail[k].status = "removed" => tail[k].item.name \in OldAlone(a) \cup Altered
               /\ tail[k].status = "added" => tail[k].item.name \in NewAlone(a) \cup Altered
      PROVE  /\ RowsOf(i, a) \in Seq(LineRow)
             /\ \A k \in DOMAIN RowsOf(i, a) :
               /\ RowsOf(i, a)[k].status = "removed" =>
                    RowsOf(i, a)[k].item.name \in OldAlone(a) \cup Altered
               /\ RowsOf(i, a)[k].status = "added" =>
                    RowsOf(i, a)[k].item.name \in NewAlone(a) \cup Altered
  <2> DEFINE new == NewBefore(p, a)
  <2>1. new \in Seq(LineRow)
    BY NewBeforeIs
  <2>2. \A k \in DOMAIN new : new[k].status = "added" /\ new[k].item.name \in NewAlone(a)
    <3> SUFFICES ASSUME NEW k \in DOMAIN new
                 PROVE  new[k].status = "added" /\ new[k].item.name \in NewAlone(a)
      OBVIOUS
    <3>1. PICK j \in DOMAIN desired :
            Alone(j, a) /\ new[k] = Row("added", ByName(desired, desired[j].name))
      BY NewBeforeIs
    <3>2. ByName(desired, desired[j].name).name = desired[j].name
      BY NamedItem DEF Tables
    <3>3. desired[j].name \in NewAlone(a)
      BY <3>1 DEF NewAlone
    <3> QED
      BY <3>1, <3>2, <3>3 DEF Row
  <2> HIDE DEF new
  <2>3. RowsOf(i, a) = new \o tail
    BY <1>3 DEF new
  <2>4. \A k \in DOMAIN (new \o tail) :
          \/ k \in DOMAIN new /\ (new \o tail)[k] = new[k]
          \/ \E c \in DOMAIN tail : (new \o tail)[k] = tail[c]
    BY <2>1
  <2>5. new \o tail \in Seq(LineRow)
    BY <2>1
  <2> QED
    BY <1>3, <2>2, <2>3, <2>4, <2>5
<1>4. CASE \E p \in a : p[1] = i
  <2>1. PICK p \in a : p[1] = i
    BY <1>4
  <2>2. RowsOf(i, a) = NewBefore(p, a) \o m
    BY <2>1, RowsOfIs
  <2>3. m \in Seq(LineRow)
    BY <2>1, MatchedIs
  <2>4. \A k \in DOMAIN m :
               /\ m[k].status = "removed" => m[k].item.name \in Altered
               /\ m[k].status = "added" => m[k].item.name \in Altered
    <3> DEFINE old == Row("removed", ByName(live, n))
               new == Row("added", ByName(desired, n))
               same == Row("context", ByName(live, n))
    <3>1. /\ old.status = "removed" /\ old.item.name = n
          /\ new.status = "added" /\ new.item.name = n
          /\ n \in Altered => m = <<old, new>>
          /\ n \notin Altered => m = <<same>>
      BY <2>1, MatchedIs
    <3>2. same.status = "context"
      BY DEF Row
    <3> HIDE DEF old, new, same, m, n
    <3> QED
      BY <3>1, <3>2
  <2> HIDE DEF m
  <2> QED
    BY <1>3, <2>2, <2>3, <2>4 DEF Named
<1>5. CASE i = Len(live) + 1
  <2>1. RowsOf(i, a) = NewBefore(Ends, a) \o <<>>
    BY <1>5, RowsOfIs
  <2>2. <<>> \in Seq(LineRow) /\ DOMAIN <<>> = {}
    OBVIOUS
  <2> QED
    BY <1>3, <2>1, <2>2 DEF Named
<1> QED
  BY <1>2, <1>4, <1>5

(* What is among the rows of a pair, or of the end.                        *)
LEMMA RowsOfPair ==
  ASSUME Tables, NEW a \in Alignments, NEW p \in a \cup {Ends}
  PROVE  /\ p[1] \in 1..(Len(live) + 1)
         /\ \A j \in DOMAIN desired : Behind(p, a) < j /\ j < p[2] =>
              desired[j].name \in Named(RowsOf(p[1], a), "added")
         /\ p \in a /\ live[p[1]].name \in Altered =>
              /\ live[p[1]].name \in Named(RowsOf(p[1], a), "removed")
              /\ live[p[1]].name \in Named(RowsOf(p[1], a), "added")
<1> DEFINE n == live[p[1]].name
           new == NewBefore(p, a)
           tail == IF p \in a THEN Matched(ByName(live, n), ByName(desired, n)) ELSE <<>>
<1>1. p[1] \in 1..(Len(live) + 1)
  BY BehindIsBefore
<1>2. RowsOf(p[1], a) = new \o tail
  <2>1. CASE p \in a
    BY <1>1, <2>1, RowsOfIs
  <2>2. CASE p \notin a
    <3>1. p = Ends /\ p[1] = Len(live) + 1
      BY <2>2 DEF Ends
    <3> QED
      BY <1>1, <2>2, <3>1, RowsOfIs
  <2> QED
    BY <2>1, <2>2
<1>3. new \in Seq(LineRow) /\ tail \in Seq(LineRow)
  <2>1. new \in Seq(LineRow)
    BY NewBeforeIs
  <2>2. p \in a => tail \in Seq(LineRow)
    BY MatchedIs
  <2> QED
    BY <2>1, <2>2
<1>4. ASSUME NEW k \in DOMAIN new
      PROVE  new[k].item.name \in Named(new \o tail, new[k].status)
  <2> HIDE DEF new, tail
  <2>1. k \in DOMAIN (new \o tail) /\ (new \o tail)[k] = new[k]
    BY <1>3
  <2> QED
    BY <2>1 DEF Named
<1>5. ASSUME NEW k \in DOMAIN tail
      PROVE  tail[k].item.name \in Named(new \o tail, tail[k].status)
  <2> HIDE DEF new, tail
  <2>1. Len(new) + k \in DOMAIN (new \o tail) /\ (new \o tail)[Len(new) + k] = tail[k]
    BY <1>3
  <2> QED
    BY <2>1 DEF Named
<1>6. ASSUME NEW j \in DOMAIN desired, Behind(p, a) < j, j < p[2]
      PROVE  desired[j].name \in Named(new \o tail, "added")
  <2>1. PICK k \in DOMAIN new : new[k] = Row("added", ByName(desired, desired[j].name))
    BY <1>6, NewBeforeIs
  <2>2. new[k].status = "added" /\ new[k].item.name = desired[j].name
    <3>1. ByName(desired, desired[j].name).name = desired[j].name
      BY NamedItem DEF Tables
    <3> QED
      BY <2>1, <3>1 DEF Row
  <2> HIDE DEF new, tail
  <2> QED
    BY <1>4, <2>2
<1>7. ASSUME p \in a, n \in Altered
      PROVE  n \in Named(new \o tail, "removed") /\ n \in Named(new \o tail, "added")
  <2> DEFINE removed == Row("removed", ByName(live, n))
             added == Row("added", ByName(desired, n))
  <2>1. /\ tail = <<removed, added>>
        /\ removed.status = "removed" /\ removed.item.name = n
        /\ added.status = "added" /\ added.item.name = n
    BY <1>7, MatchedIs
  <2> HIDE DEF new, tail, removed, added, n
  <2>2. 1 \in DOMAIN tail /\ 2 \in DOMAIN tail /\ tail[1] = removed /\ tail[2] = added
    BY <2>1
  <2> QED
    BY <1>5, <2>1, <2>2
<1> QED
  BY <1>1, <1>2, <1>6, <1>7

(* The rows of every old line, and of the end.                             *)
LEMMA RowsElements ==
  ASSUME Tables, NEW a \in Alignments
  PROVE  /\ Rows(a) \in Seq(LineRow)
         /\ \A s : Named(Rows(a), s)
                     = UNION {Named(RowsOf(i, a), s) : i \in 1..(Len(live) + 1)}
<1> DEFINE L == Len(live) + 1
           ss == [i \in 1..L |-> RowsOf(i, a)]
<1>1. L \in Nat /\ \A i \in 1..L : RowsOf(i, a) \in Seq(LineRow)
  <2>1. L \in Nat
    BY DEF Tables
  <2> QED
    BY <2>1, RowsOfTyped
<1>2. Rows(a) = FlattenSeq(ss)
  BY DEF Rows
<1> HIDE DEF L
<1>3. ss \in Seq(Seq(LineRow)) /\ DOMAIN ss = 1..L /\ \A i \in 1..L : ss[i] = RowsOf(i, a)
  BY <1>1
<1> HIDE DEF ss
<1> DEFINE flat == FlattenSeq(ss)
<1>4. /\ flat \in Seq(LineRow)
      /\ \A k \in DOMAIN flat : \E i \in DOMAIN ss : \E j \in DOMAIN ss[i] :
           flat[k] = ss[i][j]
      /\ \A i \in DOMAIN ss : \A j \in DOMAIN ss[i] : \E k \in DOMAIN flat :
           flat[k] = ss[i][j]
  BY <1>3, FlattenElements
<1> HIDE DEF flat
<1>5. ASSUME NEW s, NEW x \in Named(flat, s)
      PROVE  \E i \in 1..L : x \in Named(RowsOf(i, a), s)
  <2>1. PICK k \in DOMAIN flat : flat[k].status = s /\ x = flat[k].item.name
    BY <1>5 DEF Named
  <2>2. PICK i \in DOMAIN ss : \E j \in DOMAIN ss[i] : flat[k] = ss[i][j]
    BY <1>4
  <2>3. PICK j \in DOMAIN ss[i] : flat[k] = ss[i][j]
    BY <2>2
  <2>4. x \in Named(ss[i], s)
    BY <2>1, <2>3 DEF Named
  <2> QED
    BY <1>3, <2>4
<1>6. ASSUME NEW s, NEW i \in 1..L, NEW x \in Named(RowsOf(i, a), s)
      PROVE  x \in Named(flat, s)
  <2>1. i \in DOMAIN ss /\ x \in Named(ss[i], s)
    BY <1>3
  <2>2. PICK j \in DOMAIN ss[i] : ss[i][j].status = s /\ x = ss[i][j].item.name
    BY <2>1 DEF Named
  <2>3. PICK k \in DOMAIN flat : flat[k] = ss[i][j]
    BY <1>4, <2>1
  <2> QED
    BY <2>2, <2>3 DEF Named
<1>7. \A s : Named(flat, s) = UNION {Named(RowsOf(i, a), s) : i \in 1..L}
  BY <1>5, <1>6
<1> QED
  BY <1>2, <1>4, <1>7 DEF L, flat

(* What is marked among the rows: what has no pair, and what differs.      *)
LEMMA RowsAre ==
  ASSUME Tables, NEW a \in Alignments
  PROVE  /\ Rows(a) \in Seq(LineRow)
         /\ Named(Rows(a), "removed") = OldAlone(a) \cup Altered
         /\ Named(Rows(a), "added") = NewAlone(a) \cup Altered
<1> DEFINE L == Len(live) + 1
<1>1. \A s : Named(Rows(a), s) = UNION {Named(RowsOf(i, a), s) : i \in 1..L}
  BY RowsElements
<1>2. /\ Named(Rows(a), "removed") \subseteq OldAlone(a) \cup Altered
      /\ Named(Rows(a), "added") \subseteq NewAlone(a) \cup Altered
  BY <1>1, RowsOfTyped
<1>3. OldAlone(a) \subseteq Named(Rows(a), "removed")
  <2> SUFFICES ASSUME NEW i \in DOMAIN live, \A p \in a : p[1] # i
               PROVE  live[i].name \in Named(Rows(a), "removed")
    BY DEF OldAlone
  <2>1. i \in 1..L /\ i # L
    BY DEF Tables
  <2>2. RowsOf(i, a) = <<Row("removed", ByName(live, live[i].name))>>
    BY <2>1, RowsOfIs
  <2>3. ByName(live, live[i].name).name = live[i].name
    BY NamedItem DEF Tables
  <2>4. live[i].name \in Named(RowsOf(i, a), "removed")
    BY <2>2, <2>3 DEF Named, Row
  <2> QED
    BY <1>1, <2>1, <2>4
<1>4. NewAlone(a) \subseteq Named(Rows(a), "added")
  <2> SUFFICES ASSUME NEW j \in DOMAIN desired, Alone(j, a)
               PROVE  desired[j].name \in Named(Rows(a), "added")
    BY DEF NewAlone
  <2> DEFINE after == {p \in a \cup {Ends} : p[2] > j}
             T == {p[1] : p \in after}
  <2>1. Ends \in after
    BY DEF Ends, Tables
  <2>2. PICK i \in T : \A k \in T : i <= k
    <3>1. T \subseteq Nat
      <4>1. \A p \in a \cup {Ends} : p[1] \in Nat
        <5>1. \A p \in a \cup {Ends} : p[1] \in 1..(Len(live) + 1)
          BY BehindIsBefore
        <5> QED
          BY <5>1 DEF Tables
      <4> QED
        BY <4>1
    <3>2. T # {}
      BY <2>1
    <3> HIDE DEF T
    <3> QED
      BY <3>1, <3>2, FirstExists
  <2>3. PICK p \in after : i = p[1]
    OBVIOUS
  <2>4. p \in a \cup {Ends} /\ j < p[2]
    <3>1. p[2] > j /\ j \in Nat /\ p[2] \in Nat
      <4>1. p[2] \in 1..(Len(desired) + 1)
        BY BehindIsBefore
      <4> QED
        BY <4>1 DEF Tables
    <3> QED
      BY <3>1
  <2>5. Behind(p, a) < j
    <3>1. Behind(p, a) \in 0..(p[2] - 1) /\ p[2] \in 1..(Len(desired) + 1)
      BY <2>4, BehindIsBefore
    <3>2. CASE Behind(p, a) = 0
      BY <3>2 DEF Tables
    <3>3. CASE Behind(p, a) # 0
      <4>1. PICK q \in a : q[1] < p[1] /\ q[2] = Behind(p, a)
        BY <2>4, <3>3, BehindIsBefore
      <4>2. q[1] \in Nat /\ p[1] \in Nat
        <5>1. q[1] \in 1..(Len(live) + 1) /\ p[1] \in 1..(Len(live) + 1)
          BY <2>4, BehindIsBefore
        <5> QED
          BY <5>1 DEF Tables
      <4>3. q[1] \notin T
        BY <2>2, <2>3, <4>1, <4>2
      <4>4. ~(q[2] > j)
        BY <4>3
      <4>5. q[2] # j
        BY DEF Alone
      <4> QED
        BY <3>1, <4>1, <4>4, <4>5 DEF Tables
    <3> QED
      BY <3>2, <3>3
  <2>6. p[1] \in 1..L /\ desired[j].name \in Named(RowsOf(p[1], a), "added")
    BY <2>4, <2>5, RowsOfPair
  <2> QED
    BY <1>1, <2>6
<1>5. \A p \in a : live[p[1]].name \in Altered =>
        /\ live[p[1]].name \in Named(Rows(a), "removed")
        /\ live[p[1]].name \in Named(Rows(a), "added")
  BY <1>1, RowsOfPair
<1>6. ASSUME NEW n \in Altered
      PROVE  n \in Named(Rows(a), "removed") /\ n \in Named(Rows(a), "added")
  <2>1. PICK i \in DOMAIN live : live[i].name = n
    BY DEF Altered, Kept, ColumnNames
  <2>2. PICK j \in DOMAIN desired : desired[j].name = n
    BY DEF Altered, Kept, ColumnNames
  <2>3. CASE \E p \in a : live[p[1]].name = n
    BY <1>5, <2>3
  <2>4. CASE \A p \in a : live[p[1]].name # n
    <3>1. n \in OldAlone(a)
      BY <2>1, <2>4 DEF OldAlone
    <3>2. n \in NewAlone(a)
      BY <2>2, <2>4, AlignmentPairs DEF NewAlone, Alone
    <3> QED
      BY <1>3, <1>4, <3>1, <3>2
  <2> QED
    BY <2>3, <2>4
<1> QED
  BY <1>2, <1>3, <1>4, <1>6, RowsElements

(* Names without a pair are on one side only, or another stands between.   *)
LEMMA AloneForAReason ==
  ASSUME Tables, NEW a \in Alignments
  PROVE  /\ ColumnNames(live) \ ColumnNames(desired) \subseteq OldAlone(a)
         /\ ColumnNames(desired) \ ColumnNames(live) \subseteq NewAlone(a)
         /\ \A n \in OldAlone(a) \cup NewAlone(a) : n \in Kept => Moved(n) \/ Repeated(n)
<1>1. ColumnNames(live) \ ColumnNames(desired) \subseteq OldAlone(a)
  BY AlignmentPairs DEF ColumnNames, OldAlone
<1>2. ColumnNames(desired) \ ColumnNames(live) \subseteq NewAlone(a)
  BY AlignmentPairs DEF ColumnNames, NewAlone, Alone
<1>3. ASSUME NEW i \in DOMAIN live, NEW j \in DOMAIN desired, live[i].name = desired[j].name,
             (\A p \in a : p[1] # i) \/ Alone(j, a)
      PROVE  Moved(live[i].name) \/ Repeated(live[i].name)
  <2> DEFINE n == live[i].name
  <2>1. PICK q \in a : \/ q[1] = i
                       \/ q[2] = j
                       \/ q[1] < i /\ q[2] > j
                       \/ q[1] > i /\ q[2] < j
    BY <1>3, AlignmentIsFull
  <2>2. /\ q[1] \in DOMAIN live /\ q[2] \in DOMAIN desired /\ live[q[1]].name = desired[q[2]].name
        /\ q[1] \in Nat /\ q[2] \in Nat /\ i \in Nat /\ j \in Nat
    <3>1. q[1] \in DOMAIN live /\ q[2] \in DOMAIN desired /\ live[q[1]].name = desired[q[2]].name
      BY AlignmentPairs
    <3> QED
      BY <3>1 DEF Tables
  <2>3. ASSUME q[1] = i PROVE Repeated(n)
    <3>1. q[2] # j
      BY <1>3, <2>3 DEF Alone
    <3>2. desired[q[2]].name = n
      BY <2>2, <2>3
    <3>3. q[2] < j \/ j < q[2]
      BY <2>2, <3>1
    <3> QED
      BY <1>3, <2>2, <3>2, <3>3 DEF Repeated, Before
  <2>4. ASSUME q[2] = j PROVE Repeated(n)
    <3>1. q[1] # i
      BY <1>3, <2>4 DEF Alone
    <3>2. live[q[1]].name = n
      BY <1>3, <2>2, <2>4
    <3>3. q[1] < i \/ i < q[1]
      BY <2>2, <3>1
    <3> QED
      BY <2>2, <3>2, <3>3 DEF Repeated, Before
  <2>5. live[q[1]].name \in Kept
    BY <2>2 DEF Kept, ColumnNames
  <2>6. ASSUME q[1] < i, q[2] > j PROVE Moved(n)
    <3>1. Before(live, live[q[1]].name, n)
      BY <2>2, <2>6 DEF Before
    <3>2. Before(desired, n, live[q[1]].name)
      BY <1>3, <2>2, <2>6 DEF Before
    <3> QED
      BY <2>5, <3>1, <3>2 DEF Moved
  <2>7. ASSUME q[1] > i, q[2] < j PROVE Moved(n)
    <3>1. Before(live, n, live[q[1]].name)
      BY <2>2, <2>7 DEF Before
    <3>2. Before(desired, live[q[1]].name, n)
      BY <1>3, <2>2, <2>7 DEF Before
    <3> QED
      BY <2>5, <3>1, <3>2 DEF Moved
  <2> QED
    BY <2>1, <2>3, <2>4, <2>6, <2>7
<1>4. ASSUME NEW n \in OldAlone(a), n \in Kept PROVE Moved(n) \/ Repeated(n)
  <2>1. PICK i \in DOMAIN live : (\A p \in a : p[1] # i) /\ n = live[i].name
    BY <1>4 DEF OldAlone
  <2>2. PICK j \in DOMAIN desired : desired[j].name = n
    BY <1>4 DEF Kept, ColumnNames
  <2> QED
    BY <1>3, <2>1, <2>2
<1>5. ASSUME NEW n \in NewAlone(a), n \in Kept PROVE Moved(n) \/ Repeated(n)
  <2>1. PICK j \in DOMAIN desired : Alone(j, a) /\ n = desired[j].name
    BY <1>5 DEF NewAlone
  <2>2. PICK i \in DOMAIN live : live[i].name = n
    BY <1>5 DEF Kept, ColumnNames
  <2> QED
    BY <1>3, <2>1, <2>2
<1> QED
  BY <1>1, <1>2, <1>4, <1>5

-----------------------------------------------------------------------------
(* The lines                                                               *)

(* The rows are those of an alignment, and the lines what the window       *)
(* leaves of them.                                                         *)
RenderInv ==
  /\ pc \in {"window", "shown"} => \E a \in Alignments : rows = Rows(a)
  /\ pc = "shown" => context \in Nat /\ lines = Lines(context)

(* Both invariants of the whole way from the tables to the lines.          *)
THEOREM RenderInvariant == Spec => [](VerdictInv /\ RenderInv)
<1>1. Init => RenderInv
  BY DEF Init, RenderInv
<1>2. RenderInv /\ [Next]_vars => RenderInv'
  <2> SUFFICES ASSUME RenderInv, [Next]_vars PROVE RenderInv'
    OBVIOUS
  <2>1. live' = live /\ desired' = desired
    BY DEF Next, CompareColumns, CompareTexts, Render, Window, vars, field
  <2>2. Alignments' = Alignments
    BY <2>1 DEF Alignments
  <2>3. \A a : Rows(a)' = Rows(a)
    BY <2>1 DEF Rows, RowsOf, NewBefore, Behind, ByName
  <2>4. CASE CompareColumns \/ CompareTexts
    <3>1. pc' \notin {"window", "shown"}
      BY <2>4 DEF CompareColumns, CompareTexts
    <3> QED
      BY <3>1 DEF RenderInv
  <2>5. CASE Render
    BY <2>2, <2>3, <2>5 DEF Render, RenderInv
  <2>6. CASE Window
    <3>1. PICK c \in Contexts : context' = c /\ lines' = Lines(c)
      BY <2>6 DEF Window
    <3>2. rows' = rows /\ pc = "window" /\ pc' = "shown" /\ c \in Nat
      BY <2>6, ContextsAssumption DEF Window
    <3>3. Lines(c)' = Lines(c)
      BY <3>2 DEF Lines, Windowed, Shown, IsChange
    <3> QED
      BY <2>2, <2>3, <3>1, <3>2, <3>3 DEF RenderInv
  <2>7. CASE UNCHANGED vars
    <3>1. UNCHANGED <<rows, lines, context, pc>>
      BY <2>7 DEF vars
    <3>2. Lines(context)' = Lines(context)
      BY <3>1 DEF Lines, Windowed, Shown, IsChange
    <3> QED
      BY <2>2, <2>3, <3>1, <3>2 DEF RenderInv
  <2> QED
    BY <2>4, <2>5, <2>6, <2>7 DEF Next
<1> QED
  BY <1>1, <1>2, VerdictInvariant, PTL DEF Spec

(* What differs is what Found says, of columns and of lines.               *)
LEMMA DifferencesAreFound ==
  ASSUME VerdictInv, pc # "compare"
  PROVE  Differences = Found
BY DEF VerdictInv, Differences

(* The rows as they are before the window.                                 *)
LEMMA RowsAtWindow ==
  ASSUME VerdictInv, RenderInv, pc \in {"window", "shown"}
  PROVE  /\ rows \in Seq(LineRow)
         /\ Differences.removed \cup (Differences.changed \cap ColumnNames(live))
              \subseteq Named(rows, "removed")
         /\ Differences.changed \subseteq Named(rows, "added")
         /\ \A n \in Named(rows, "removed") \cup Named(rows, "added") :
              n \in Differences.removed \cup Differences.changed \/ Moved(n) \/ Repeated(n)
<1>1. PICK a \in Alignments : rows = Rows(a)
  BY DEF RenderInv
<1>2. Tables
  BY DEF VerdictInv, Tables
<1>3. /\ rows \in Seq(LineRow)
      /\ Named(rows, "removed") = OldAlone(a) \cup Altered
      /\ Named(rows, "added") = NewAlone(a) \cup Altered
  BY <1>1, <1>2, RowsAre
<1> DEFINE removed == Differences.removed
           changed == Differences.changed
<1>4. /\ removed = ColumnNames(live) \ ColumnNames(desired)
      /\ changed = Altered \cup (ColumnNames(desired) \ ColumnNames(live))
  BY DifferencesAreFound DEF Found
<1> HIDE DEF removed, changed
<1>5. Altered \subseteq Kept /\ Kept = ColumnNames(live) \cap ColumnNames(desired)
  BY DEF Altered, Kept
<1>6. OldAlone(a) \subseteq ColumnNames(live) /\ NewAlone(a) \subseteq ColumnNames(desired)
  BY DEF OldAlone, NewAlone, ColumnNames
<1>7. removed \cup (changed \cap ColumnNames(live)) \subseteq Named(rows, "removed")
  BY <1>2, <1>3, <1>4, <1>5, AloneForAReason
<1>8. changed \subseteq Named(rows, "added")
  BY <1>2, <1>3, <1>4, <1>5, AloneForAReason
<1>9. ASSUME NEW n \in Named(rows, "removed") \cup Named(rows, "added")
      PROVE  n \in removed \cup changed \/ Moved(n) \/ Repeated(n)
  <2>1. n \in Altered \/ n \in OldAlone(a) \cup NewAlone(a)
    BY <1>3
  <2>2. n \in Kept => n \in Altered \/ Moved(n) \/ Repeated(n)
    BY <1>2, <2>1, AloneForAReason
  <2> QED
    BY <1>4, <1>5, <1>6, <2>1, <2>2
<1> QED
  BY <1>3, <1>7, <1>8, <1>9 DEF removed, changed

(* A line is a row, or counts a run of hidden ones.                        *)
OutputLine == LineRow \cup {Omitted(count) : count \in Nat}

Hidden == {i \in DOMAIN rows : ~Shown(i, context)}

Run(i) == {j \in Hidden : j >= i /\ i..j \subseteq Hidden}

(* What the window makes of one row.                                       *)
Piece(i) == IF i \notin Hidden THEN <<rows[i]>>
            ELSE IF i - 1 \in Hidden THEN <<>> ELSE <<Omitted(Cardinality(Run(i)))>>

Pieces == [i \in DOMAIN rows |-> Piece(i)]

(* The lines are the pieces, one behind the other.                         *)
LEMMA WindowPieces ==
  ASSUME rows \in Seq(LineRow)
  PROVE  /\ Windowed(context) = FlattenSeq(Pieces)
         /\ Pieces \in Seq(Seq(OutputLine)) /\ Len(Pieces) = Len(rows)
         /\ \A i \in DOMAIN rows :
              /\ rows[i] \in LineRow /\ rows[i].status # "..."
              /\ i \notin Hidden => Pieces[i] = <<rows[i]>>
              /\ i \in Hidden /\ i - 1 \in Hidden => Pieces[i] = <<>>
              /\ i \in Hidden /\ i - 1 \notin Hidden =>
                   Pieces[i] = <<Omitted(Cardinality(Run(i)))>>
         /\ IsFiniteSet(Hidden)
<1> DEFINE N == Len(rows)
<1>1. N \in Nat /\ DOMAIN rows = 1..N
  OBVIOUS
<1>2. \A i \in DOMAIN rows : rows[i] \in LineRow /\ rows[i].status # "..."
  <2>1. \A r \in LineRow : r.status # "..."
    BY DEF LineRow
  <2>2. \A i \in DOMAIN rows : rows[i] \in LineRow
    OBVIOUS
  <2> QED
    BY <2>1, <2>2
<1> HIDE DEF N
<1>3. IsFiniteSet(Hidden)
  <2>1. IsFiniteSet(1..N)
    BY <1>1, FS_Interval
  <2>2. Hidden \subseteq 1..N
    BY <1>1 DEF Hidden
  <2> QED
    BY <2>1, <2>2, FS_Subset
<1>4. \A i : Cardinality(Run(i)) \in Nat
  <2> SUFFICES ASSUME NEW i PROVE Cardinality(Run(i)) \in Nat
    OBVIOUS
  <2>1. Run(i) \subseteq Hidden
    BY DEF Run
  <2> QED
    BY <1>3, <2>1, FS_Subset, FS_CardinalityType
<1>5. \A i \in DOMAIN rows : Piece(i) \in Seq(OutputLine)
  <2>1. \A x \in OutputLine : <<x>> \in Seq(OutputLine)
    OBVIOUS
  <2>2. <<>> \in Seq(OutputLine)
    OBVIOUS
  <2>3. \A i \in DOMAIN rows : rows[i] \in OutputLine /\ Omitted(Cardinality(Run(i))) \in OutputLine
    BY <1>2, <1>4 DEF OutputLine
  <2> QED
    BY <2>1, <2>2, <2>3 DEF Piece
<1>6. Pieces \in Seq(Seq(OutputLine)) /\ Len(Pieces) = N
  <2>1. Pieces \in [1..N -> Seq(OutputLine)]
    BY <1>1, <1>5 DEF Pieces
  <2> QED
    BY <1>1, <2>1
<1>7. Windowed(context) = FlattenSeq(Pieces)
  BY DEF Windowed, Pieces, Piece, Hidden, Run
<1>8. \A i \in DOMAIN rows : Pieces[i] = Piece(i)
  BY DEF Pieces
<1> QED
  BY <1>2, <1>3, <1>6, <1>7, <1>8 DEF Piece, N

(* A row that differs is never left out: the window begins with it.        *)
LEMMA ChangesAreShown ==
  ASSUME rows \in Seq(LineRow), context \in Nat
  PROVE  \A i \in DOMAIN rows : IsChange(i) => i \notin Hidden
<1> SUFFICES ASSUME NEW i \in DOMAIN rows, IsChange(i) PROVE Shown(i, context)
  BY DEF Hidden
<1>1. i \in Nat
  OBVIOUS
<1>2. i - context <= i /\ i <= i + context
  BY <1>1
<1> QED
  BY <1>2 DEF Shown

(* The lines are marked as the rows are.                                   *)
LEMMA LinesAreMarked ==
  ASSUME VerdictInv, RenderInv, pc = "shown"
  PROVE  \A s \in {"removed", "added"} : Marked({s}) = Named(rows, s)
<1>0. CASE ~\E i \in DOMAIN rows : IsChange(i)
  <2>1. lines = rows
    BY <1>0 DEF RenderInv, Lines
  <2> QED
    BY <2>1 DEF Marked, Named
<1> SUFFICES ASSUME \E i \in DOMAIN rows : IsChange(i)
             PROVE  \A s \in {"removed", "added"} : Marked({s}) = Named(rows, s)
  BY <1>0
<1>1. rows \in Seq(LineRow) /\ context \in Nat /\ lines = FlattenSeq(Pieces)
  BY RowsAtWindow, WindowPieces DEF RenderInv, Lines
<1>2. /\ Pieces \in Seq(Seq(OutputLine)) /\ DOMAIN Pieces = DOMAIN rows
      /\ \A i \in DOMAIN rows :
           /\ i \notin Hidden => Pieces[i] = <<rows[i]>>
           /\ i \in Hidden /\ i - 1 \in Hidden => Pieces[i] = <<>>
           /\ i \in Hidden /\ i - 1 \notin Hidden =>
                Pieces[i] = <<Omitted(Cardinality(Run(i)))>>
  <2>1. Pieces \in Seq(Seq(OutputLine)) /\ DOMAIN Pieces = DOMAIN rows
    BY <1>1, WindowPieces DEF Pieces
  <2> QED
    BY <1>1, <2>1, WindowPieces
<1>3. /\ \A k \in DOMAIN lines : \E i \in DOMAIN Pieces : \E j \in DOMAIN Pieces[i] :
           lines[k] = Pieces[i][j]
      /\ \A i \in DOMAIN Pieces : \A j \in DOMAIN Pieces[i] : \E k \in DOMAIN lines :
           lines[k] = Pieces[i][j]
  BY <1>1, <1>2, FlattenElements
<1>4. \A i \in DOMAIN rows : rows[i].status \in {"removed", "added"} => i \notin Hidden
  BY <1>1, ChangesAreShown DEF IsChange
<1> SUFFICES ASSUME NEW s \in {"removed", "added"} PROVE Marked({s}) = Named(rows, s)
  OBVIOUS
<1>5. Marked({s}) = Named(lines, s)
  BY DEF Marked, Named
<1>6. ASSUME NEW x \in Named(lines, s) PROVE x \in Named(rows, s)
  <2>1. PICK k \in DOMAIN lines : lines[k].status = s /\ x = lines[k].item.name
    BY <1>6 DEF Named
  <2>2. PICK i \in DOMAIN rows : \E j \in DOMAIN Pieces[i] : lines[k] = Pieces[i][j]
    BY <1>2, <1>3
  <2>3. PICK j \in DOMAIN Pieces[i] : lines[k] = Pieces[i][j]
    BY <2>2
  <2>4. i \notin Hidden
    <3>1. ASSUME i \in Hidden, i - 1 \notin Hidden PROVE FALSE
      <4>1. Pieces[i][j] = Omitted(Cardinality(Run(i)))
        BY <1>2, <3>1
      <4>2. Omitted(Cardinality(Run(i))).status = "..."
        BY DEF Omitted
      <4> QED
        BY <2>1, <2>3, <4>1, <4>2
    <3>2. ASSUME i \in Hidden, i - 1 \in Hidden PROVE FALSE
      BY <1>2, <2>3, <3>2
    <3> QED
      BY <3>1, <3>2
  <2>5. lines[k] = rows[i]
    BY <1>2, <2>3, <2>4
  <2> QED
    BY <2>1, <2>5 DEF Named
<1>7. ASSUME NEW x \in Named(rows, s) PROVE x \in Named(lines, s)
  <2>1. PICK i \in DOMAIN rows : rows[i].status = s /\ x = rows[i].item.name
    BY <1>7 DEF Named
  <2>2. Pieces[i] = <<rows[i]>>
    BY <1>2, <1>4, <2>1
  <2>3. 1 \in DOMAIN Pieces[i] /\ Pieces[i][1] = rows[i]
    BY <2>2
  <2>4. PICK k \in DOMAIN lines : lines[k] = rows[i]
    BY <1>2, <1>3, <2>3
  <2> QED
    BY <2>1, <2>4 DEF Named
<1> QED
  BY <1>5, <1>6, <1>7

(* Whoever approves a plan sees every column that it would drop or change, *)
(* whatever difflib pairs and however small the window.                    *)
THEOREM DifferencesAlwaysShown == Spec => []DifferencesAreShown
<1>1. VerdictInv /\ RenderInv => DifferencesAreShown
  <2> SUFFICES ASSUME VerdictInv, RenderInv, pc = "shown"
               PROVE  /\ Differences.removed \cup (Differences.changed \cap ColumnNames(live))
                           \subseteq Marked({"removed"})
                      /\ Differences.changed \subseteq Marked({"added"})
    BY DEF DifferencesAreShown
  <2> QED
    BY LinesAreMarked, RowsAtWindow
<1> QED
  BY <1>1, RenderInvariant, PTL

(* A marked line is a difference, or what it shows moved or is repeated.   *)
THEOREM OnlyDifferencesOrMovesAlways == Spec => []OnlyDifferencesOrMoves
<1>1. VerdictInv /\ RenderInv => OnlyDifferencesOrMoves
  <2> SUFFICES ASSUME VerdictInv, RenderInv, pc = "shown",
                      NEW n \in Marked({"removed", "added"})
               PROVE  n \in Differences.removed \cup Differences.changed \/ Moved(n) \/ Repeated(n)
    BY DEF OnlyDifferencesOrMoves
  <2>1. n \in Marked({"removed"}) \cup Marked({"added"})
    BY DEF Marked
  <2>2. n \in Named(rows, "removed") \cup Named(rows, "added")
    BY <2>1, LinesAreMarked
  <2> QED
    BY <2>2, RowsAtWindow
<1> QED
  BY <1>1, RenderInvariant, PTL

-----------------------------------------------------------------------------
(* The window                                                              *)

(* The recursion behind the positions is well founded.                     *)
LEMMA PositionIs ==
  ASSUME lines \in Seq(OutputLine)
  PROVE  /\ \A k \in 1..(Len(lines) + 1) : Position(k) \in Nat
         /\ Position(1) = 1
         /\ \A k \in 1..Len(lines) : Position(k + 1) = Position(k) + Width(lines[k])
<1> DEFINE n == Len(lines) + 1
           w == [k \in Nat |-> IF k - 1 \in 1..Len(lines) THEN Width(lines[k - 1]) ELSE 0]
           h == [k \in Nat |-> [v \in Nat |-> v + w[k]]]
           Fits(f) == f = [k \in 1..n |-> IF k = 1 THEN 1 ELSE f[k - 1] + Width(lines[k - 1])]
<1>1. Len(lines) \in Nat /\ n \in Nat \ {0} /\ \A k \in 1..Len(lines) : lines[k] \in OutputLine
  OBVIOUS
<1>2. \A line \in OutputLine : Width(line) \in Nat
  <2>1. \A r \in LineRow : r.status # "..."
    BY DEF LineRow
  <2> QED
    BY <2>1 DEF OutputLine, Omitted, Width
<1>3. w \in [Nat -> Nat] /\ \A k \in 1..Len(lines) : w[k + 1] = Width(lines[k])
  <2>1. \A k \in 1..Len(lines) : Width(lines[k]) \in Nat
    BY <1>1, <1>2
  <2> QED
    BY <2>1
<1> HIDE DEF w
<1>4. h \in [Nat -> [Nat -> Nat]] /\ \A k, v \in Nat : h[k][v] = v + w[k]
  BY <1>3
<1> HIDE DEF h
<1>5. PICK f \in [1..n -> Nat] : Recursion(f, n, 1, h)
  <2>1. n \in Nat /\ 1 \in Nat
    BY <1>1
  <2> HIDE DEF n
  <2> QED
    BY <1>4, <2>1, RecursionExists
<1>6. f[1] = 1 /\ \A k \in 1..n : k # 1 => f[k] = f[k - 1] + Width(lines[k - 1])
  <2>1. \A k \in 1..n : f[k] = IF k = 1 THEN 1 ELSE h[k][f[k - 1]]
    BY <1>5 DEF Recursion
  <2>2. ASSUME NEW k \in 1..n, k # 1 PROVE f[k] = f[k - 1] + Width(lines[k - 1])
    <3>1. k \in Nat /\ k - 1 \in 1..Len(lines) /\ k - 1 \in 1..n /\ k - 1 + 1 = k
      BY <1>1, <2>2
    <3>2. f[k - 1] \in Nat
      BY <3>1
    <3>3. w[k] = Width(lines[k - 1])
      BY <1>3, <3>1
    <3>4. f[k] = h[k][f[k - 1]]
      BY <2>1, <2>2
    <3> QED
      BY <1>4, <3>1, <3>2, <3>3, <3>4
  <2>3. f[1] = 1
    <3>1. 1 \in 1..n
      BY <1>1
    <3> QED
      BY <2>1, <3>1
  <2> QED
    BY <2>2, <2>3
<1>7. Fits(f)
  <2> HIDE DEF n
  <2> QED
    BY <1>6
<1> DEFINE F == CHOOSE g : Fits(g)
<1>8. Fits(F)
  <2> HIDE DEF Fits
  <2> QED
    BY <1>7
<1>9. \A k : Position(k) = F[k]
  BY DEF Position, Positions
<1> HIDE DEF F
<1>10. F[1] = 1 /\ \A k \in 1..n : k # 1 => F[k] = F[k - 1] + Width(lines[k - 1])
  BY <1>1, <1>8
<1> HIDE DEF Fits
<1> DEFINE Untyped == {k \in 1..n : F[k] \notin Nat}
<1>11. ASSUME Untyped # {} PROVE FALSE
  <2>1. PICK k \in Untyped : \A j \in Untyped : k <= j
    <3>1. Untyped \subseteq Nat
      BY <1>1
    <3> HIDE DEF Untyped
    <3> QED
      BY <1>11, <3>1, FirstExists
  <2>2. k # 1 /\ k \in 1..n
    BY <1>10
  <2>3. k - 1 \in 1..n /\ ~(k <= k - 1) /\ k - 1 \in 1..Len(lines)
    BY <1>1, <2>2
  <2>4. F[k - 1] \in Nat
    BY <2>1, <2>3
  <2>5. Width(lines[k - 1]) \in Nat
    BY <1>1, <1>2, <2>3
  <2>6. F[k] = F[k - 1] + Width(lines[k - 1])
    BY <1>10, <2>2
  <2> QED
    BY <2>2, <2>4, <2>5, <2>6
<1>12. \A k \in 1..Len(lines) : F[k + 1] = F[k] + Width(lines[k])
  <2> SUFFICES ASSUME NEW k \in 1..Len(lines) PROVE F[k + 1] = F[k] + Width(lines[k])
    OBVIOUS
  <2>1. k + 1 \in 1..n /\ k + 1 # 1 /\ k + 1 - 1 = k
    BY <1>1
  <2> QED
    BY <1>10, <2>1
<1> QED
  BY <1>9, <1>10, <1>11, <1>12

(* Where a run of hidden rows ends.                                        *)
RunEnd(i, e) == e \in i..Len(rows) /\ i..e \subseteq Hidden /\ e + 1 \notin Hidden

(* Every hidden row is in a run that has one end, and the run is counted.  *)
LEMMA RunIs ==
  ASSUME rows \in Seq(LineRow), NEW i \in Hidden
  PROVE  \E e : RunEnd(i, e) /\ Cardinality(Run(i)) = e - i + 1
<1> DEFINE N == Len(rows)
<1>1. N \in Nat /\ Hidden \subseteq 1..N
  BY DEF Hidden
<1> HIDE DEF N
<1>2. Run(i) \subseteq 1..N /\ i \in Run(i)
  <2>1. i..i = {i} /\ i >= i
    BY <1>1
  <2> QED
    BY <1>1, <2>1 DEF Run
<1>3. PICK e \in Run(i) : \A j \in Run(i) : j <= e
  BY <1>1, <1>2, LastExists
<1>4. e \in i..N /\ i..e \subseteq Hidden /\ i \in Nat /\ e \in Nat
  BY <1>1 DEF Run
<1>5. e + 1 \notin Hidden
  <2> SUFFICES ASSUME e + 1 \in Hidden PROVE FALSE
    OBVIOUS
  <2>1. i..(e + 1) \subseteq Hidden
    <3>1. \A j \in i..(e + 1) : j \in i..e \/ j = e + 1
      BY <1>4
    <3> QED
      BY <1>4, <3>1
  <2>2. e + 1 \in Run(i)
    BY <1>4, <2>1 DEF Run
  <2> QED
    BY <1>3, <1>4, <2>2
<1>6. Run(i) = i..e
  <2>1. ASSUME NEW j \in Run(i) PROVE j \in i..e
    BY <1>1, <1>3, <1>4 DEF Run
  <2>2. ASSUME NEW j \in i..e PROVE j \in Run(i)
    <3>1. i..j \subseteq i..e
      BY <1>4
    <3> QED
      BY <1>4, <3>1 DEF Run
  <2> QED
    BY <2>1, <2>2
<1>7. Cardinality(i..e) = e - i + 1
  <2>1. ~(i > e)
    BY <1>4
  <2> QED
    BY <1>4, <2>1, FS_Interval
<1> QED
  BY <1>4, <1>5, <1>6, <1>7 DEF RunEnd, N

(* A run seen from its next row has the same end.                          *)
LEMMA RunEndsOnce ==
  ASSUME rows \in Seq(LineRow), NEW i \in 1..Len(rows), NEW m \in {i, i + 1},
         NEW d, RunEnd(i, d), NEW e, RunEnd(m, e)
  PROVE  d = e
<1>1. d \in i..Len(rows) /\ e \in m..Len(rows) /\ Len(rows) \in Nat
  BY DEF RunEnd
<1>2. ~(d < e)
  <2> SUFFICES ASSUME d < e PROVE FALSE
    OBVIOUS
  <2>1. d + 1 \in m..e
    BY <1>1
  <2> QED
    BY <2>1 DEF RunEnd
<1>3. ~(e < d)
  <2> SUFFICES ASSUME e < d PROVE FALSE
    OBVIOUS
  <2>1. e + 1 \in i..d
    BY <1>1
  <2> QED
    BY <2>1 DEF RunEnd
<1> QED
  BY <1>1, <1>2, <1>3

(* What stands behind the first rows: the next row, or, within a run, the  *)
(* row behind the run.                                                     *)
Resumes(i, position) ==
  IF i \in Hidden /\ i - 1 \in Hidden
  THEN \A e : RunEnd(i, e) => position = e + 1
  ELSE position = i

(* The rows before a row are counted by the lines before its line.         *)
LEMMA RowsAreCounted ==
  ASSUME rows \in Seq(LineRow), lines = FlattenSeq(Pieces),
         NEW off, Offsets(off, Pieces), Len(lines) = off[Len(Pieces) + 1],
         \A i \in 1..Len(Pieces) : \A j \in 1..Len(Pieces[i]) : lines[off[i] + j] = Pieces[i][j]
  PROVE  \A i \in 1..(Len(rows) + 1) : Resumes(i, Position(off[i] + 1))
<1> DEFINE N == Len(rows)
           Right(i) == Resumes(i, Position(off[i] + 1))
<1>1. /\ N \in Nat /\ DOMAIN rows = 1..N /\ Hidden \subseteq 1..N
      /\ Pieces \in Seq(Seq(OutputLine)) /\ Len(Pieces) = N
  BY WindowPieces DEF Hidden
<1>2. /\ off \in [1..(N + 1) -> Nat] /\ off[1] = 0
      /\ \A i \in 1..N : off[i + 1] = off[i] + Len(Pieces[i])
  BY <1>1 DEF Offsets
<1>3. lines \in Seq(OutputLine)
  BY <1>1, FlattenPlaces
<1> HIDE DEF N
<1>4. Right(1)
  <2>1. Position(off[1] + 1) = 1
    BY <1>2, <1>3, PositionIs
  <2>2. 1 - 1 \notin Hidden
    BY <1>1
  <2> QED
    BY <2>1, <2>2 DEF Resumes
<1>5. ASSUME NEW i \in 1..N, Len(Pieces[i]) = 1
      PROVE  /\ off[i + 1] = off[i] + 1 /\ off[i] + 1 \in 1..Len(lines)
             /\ lines[off[i] + 1] = Pieces[i][1]
             /\ Position(off[i + 1] + 1) = Position(off[i] + 1) + Width(Pieces[i][1])
  <2>1. off[i + 1] = off[i] + 1
    BY <1>2, <1>5
  <2>2. off[i] + 1 \in 1..Len(lines)
    <3>1. i \in 1..Len(Pieces) /\ 1 \in 1..Len(Pieces[i])
      BY <1>1, <1>5
    <3>2. off[i] + 1 \in 1..off[Len(Pieces) + 1]
      BY <1>1, <3>1, OffsetsGrow
    <3> QED
      BY <3>2
  <2>3. lines[off[i] + 1] = Pieces[i][1]
    <3>1. i \in 1..Len(Pieces) /\ 1 \in 1..Len(Pieces[i])
      BY <1>1, <1>5
    <3> QED
      BY <3>1
  <2> QED
    BY <1>3, <2>1, <2>2, <2>3, PositionIs
<1>6. ASSUME NEW i \in 1..N, Right(i) PROVE Right(i + 1)
  <2> DEFINE here == Position(off[i] + 1)
             next == Position(off[i + 1] + 1)
  <2>1. i \in Nat /\ i \in DOMAIN rows /\ i + 1 - 1 = i
    BY <1>1
  <2>2. CASE i \notin Hidden
    <3>1. Pieces[i] = <<rows[i]>> /\ rows[i].status # "..."
      BY <2>1, <2>2, WindowPieces
    <3>2. Len(Pieces[i]) = 1 /\ Pieces[i][1] = rows[i]
      BY <3>1
    <3>3. next = here + 1
      BY <1>5, <3>1, <3>2 DEF Width
    <3>4. here = i
      BY <1>6, <2>2 DEF Resumes
    <3> QED
      BY <2>1, <2>2, <3>3, <3>4 DEF Resumes
  <2>3. ASSUME NEW e, i \in Hidden, RunEnd(i, e), next = e + 1 PROVE Right(i + 1)
    <3>1. CASE i + 1 \in Hidden
      <4>1. ASSUME NEW d, RunEnd(i + 1, d) PROVE e = d
        BY <1>1, <2>3, <4>1, RunEndsOnce DEF N
      <4> QED
        BY <2>1, <2>3, <3>1, <4>1 DEF Resumes
    <3>2. CASE i + 1 \notin Hidden
      <4>1. RunEnd(i, i)
        <5>1. i..i = {i}
          BY <2>1
        <5> QED
          BY <1>1, <2>3, <3>2, <5>1 DEF RunEnd, N
      <4>2. e = i
        BY <2>3, <4>1, RunEndsOnce DEF N
      <4> QED
        BY <2>3, <3>2, <4>2 DEF Resumes
    <3> QED
      BY <3>1, <3>2
  <2>4. CASE i \in Hidden /\ i - 1 \notin Hidden
    <3>1. PICK e : RunEnd(i, e) /\ Cardinality(Run(i)) = e - i + 1
      BY <2>4, RunIs
    <3>2. Pieces[i] = <<Omitted(Cardinality(Run(i)))>>
      BY <2>1, <2>4, WindowPieces
    <3>3. Len(Pieces[i]) = 1 /\ Width(Pieces[i][1]) = e - i + 1
      BY <3>1, <3>2 DEF Omitted, Width
    <3>4. here = i
      BY <1>6, <2>4 DEF Resumes
    <3>5. next = i + (e - i + 1)
      BY <1>5, <3>3, <3>4
    <3>6. e \in Nat
      BY <1>1, <2>1, <3>1 DEF RunEnd, N
    <3>7. next = e + 1
      BY <2>1, <3>5, <3>6
    <3> QED
      BY <2>3, <2>4, <3>1, <3>7
  <2>5. CASE i \in Hidden /\ i - 1 \in Hidden
    <3>1. PICK e : RunEnd(i, e)
      BY <2>5, RunIs
    <3>2. Pieces[i] = <<>>
      BY <2>1, <2>5, WindowPieces
    <3>3. off[i + 1] = off[i]
      <4>1. Len(Pieces[i]) = 0 /\ off[i] \in Nat
        BY <1>1, <1>2, <3>2
      <4> QED
        BY <1>2, <4>1
    <3>4. next = e + 1
      BY <1>6, <2>5, <3>1, <3>3 DEF Resumes
    <3> QED
      BY <2>3, <2>5, <3>1, <3>4
  <2> QED
    BY <2>2, <2>4, <2>5
<1> HIDE DEF Right
<1> DEFINE Wrong == {i \in 1..(N + 1) : ~Right(i)}
<1>7. ASSUME Wrong # {} PROVE FALSE
  <2>1. PICK i \in Wrong : \A j \in Wrong : i <= j
    <3>1. Wrong \subseteq Nat
      BY <1>1
    <3> HIDE DEF Wrong
    <3> QED
      BY <1>7, <3>1, FirstExists
  <2>2. i \in 1..(N + 1) /\ ~Right(i) /\ i # 1
    BY <1>4
  <2>3. i - 1 \in 1..N /\ i - 1 \in 1..(N + 1) /\ ~(i <= i - 1) /\ i - 1 + 1 = i
    BY <1>1, <2>2
  <2>4. Right(i - 1)
    BY <2>1, <2>3
  <2> QED
    BY <1>6, <2>2, <2>3, <2>4
<1> QED
  BY <1>7 DEF Right, N

(* The rows that are left out are those far from every change.             *)
LEMMA HiddenIsFar ==
  ASSUME rows \in Seq(LineRow), context \in Nat, NEW i \in DOMAIN rows
  PROVE  i \in Hidden <=> ~Near(i)
<1>1. i \in Int /\ \A j \in DOMAIN rows : j \in Int
  OBVIOUS
<1>2. ASSUME NEW j \in DOMAIN rows
      PROVE  (j - context <= i /\ i <= j + context) <=> i - j \in (-context)..context
  BY <1>1
<1> QED
  BY <1>2 DEF Hidden, Shown, IsChange, Near

(* The window leaves out exactly the unchanged rows that are further than  *)
(* the context from every change, and counts each run of them in one line; *)
(* of rows without a change it leaves out none.                            *)
THEOREM WindowIsAlwaysExact == Spec => []WindowIsExact
<1>1. VerdictInv /\ RenderInv => WindowIsExact
  <2> SUFFICES ASSUME VerdictInv, RenderInv, pc = "shown",
                      \E i \in DOMAIN rows : IsChange(i)
               PROVE  WindowOfChanges
    BY DEF WindowIsExact, RenderInv, Lines, IsChange
  <2>1. /\ rows \in Seq(LineRow) /\ context \in Nat /\ lines = FlattenSeq(Pieces)
        /\ Pieces \in Seq(Seq(OutputLine)) /\ Len(Pieces) = Len(rows)
        /\ Len(rows) \in Nat /\ DOMAIN rows = 1..Len(rows)
    <3>1. rows \in Seq(LineRow) /\ context \in Nat /\ lines = Windowed(context)
      BY RowsAtWindow DEF RenderInv, Lines
    <3> QED
      BY <3>1, WindowPieces
  <2>0. PICK off : Places(off, Pieces, lines)
    BY <2>1, FlattenPlaces
  <2>2. /\ lines \in Seq(OutputLine) /\ Offsets(off, Pieces)
        /\ Len(lines) = off[Len(Pieces) + 1]
        /\ \A i \in 1..Len(Pieces) : \A j \in 1..Len(Pieces[i]) :
             lines[off[i] + j] = Pieces[i][j]
    BY <2>0, <2>1, FlattenPlaces DEF Places
  <2>3. \A i \in 1..(Len(rows) + 1) : Resumes(i, Position(off[i] + 1))
    BY <2>1, <2>2, RowsAreCounted
  <2>4. /\ off \in [1..(Len(rows) + 1) -> Nat] /\ off[1] = 0
        /\ \A i \in 1..Len(rows) : off[i + 1] = off[i] + Len(Pieces[i])
    BY <2>1, <2>2 DEF Offsets
  <2>5. Position(Len(lines) + 1) = Len(rows) + 1
    <3>1. Len(rows) + 1 \notin Hidden /\ Len(rows) + 1 \in 1..(Len(rows) + 1)
      BY <2>1 DEF Hidden
    <3>2. Resumes(Len(rows) + 1, Position(off[Len(rows) + 1] + 1))
      BY <2>3, <3>1
    <3> QED
      BY <2>1, <2>2, <3>1, <3>2 DEF Resumes
  <2>6. \A i \in 1..Len(rows) :
          /\ rows[i] \in LineRow /\ rows[i].status # "..."
          /\ i \notin Hidden => Pieces[i] = <<rows[i]>>
          /\ i \in Hidden /\ i - 1 \in Hidden => Pieces[i] = <<>>
          /\ i \in Hidden /\ i - 1 \notin Hidden =>
               Pieces[i] = <<Omitted(Cardinality(Run(i)))>>
    BY <2>1, WindowPieces
  <2>7. ASSUME NEW k \in DOMAIN lines
        PROVE  \E i \in 1..Len(rows) :
                 /\ k = off[i] + 1 /\ lines[k] = Pieces[i][1]
                 /\ i \notin Hidden \/ i - 1 \notin Hidden
                 /\ Position(k) = i
    <3>1. k \in 1..off[Len(Pieces) + 1]
      BY <2>2
    <3>0. HasPlace(k, off, Pieces)
      BY <2>1, <2>2, <3>1, PlaceInPiece
    <3>2. PICK i \in 1..Len(Pieces) : \E j \in 1..Len(Pieces[i]) : k = off[i] + j
      BY <3>0 DEF HasPlace
    <3>3. PICK j \in 1..Len(Pieces[i]) : k = off[i] + j
      BY <3>2
    <3>4. i \in 1..Len(rows)
      BY <2>1
    <3>5. i \notin Hidden \/ i - 1 \notin Hidden
      <4> SUFFICES ASSUME i \in Hidden /\ i - 1 \in Hidden PROVE FALSE
        OBVIOUS
      <4>1. Len(Pieces[i]) = 0
        BY <2>6, <3>4
      <4> QED
        BY <3>3, <4>1
    <3>6. Len(Pieces[i]) = 1
      <4>1. \A x : Len(<<x>>) = 1
        OBVIOUS
      <4> QED
        BY <2>6, <3>4, <3>5, <4>1
    <3>7. j = 1
      BY <3>3, <3>6
    <3>8. lines[k] = Pieces[i][1]
      BY <2>2, <3>3, <3>7
    <3>9. Position(k) = i
      <4>1. Resumes(i, Position(off[i] + 1))
        BY <2>1, <2>3, <3>4
      <4> QED
        BY <3>3, <3>5, <3>7, <4>1 DEF Resumes
    <3> QED
      BY <3>3, <3>4, <3>5, <3>7, <3>8, <3>9
  <2>8. ASSUME NEW k \in DOMAIN lines
        PROVE  IF lines[k].status = "..."
               THEN /\ lines[k].count > 0
                    /\ \A i \in Position(k)..(Position(k + 1) - 1) : ~Near(i)
                    /\ k > 1 => lines[k - 1].status # "..."
               ELSE lines[k] = rows[Position(k)] /\ Near(Position(k))
    <3>1. PICK i \in 1..Len(rows) :
                 /\ k = off[i] + 1 /\ lines[k] = Pieces[i][1]
                 /\ i \notin Hidden \/ i - 1 \notin Hidden
                 /\ Position(k) = i
      BY <2>7
    <3>2. CASE i \notin Hidden
      <4>1. lines[k] = rows[i] /\ rows[i].status # "..."
        BY <2>6, <3>1, <3>2
      <4>2. Near(i)
        BY <2>1, <3>2, HiddenIsFar
      <4> QED
        BY <3>1, <4>1, <4>2
    <3>3. CASE i \in Hidden
      <4>1. PICK e : RunEnd(i, e) /\ Cardinality(Run(i)) = e - i + 1
        BY <2>1, <3>3, RunIs
      <4>2. lines[k] = Omitted(Cardinality(Run(i)))
        BY <2>6, <3>1, <3>3
      <4>3. lines[k].status = "..." /\ lines[k].count = e - i + 1 /\ Width(lines[k]) = e - i + 1
        BY <4>1, <4>2 DEF Omitted, Width
      <4>4. e \in i..Len(rows) /\ i \in Nat /\ e \in Nat
        BY <2>1, <4>1 DEF RunEnd
      <4>5. Position(k + 1) = i + (e - i + 1)
        <5>1. k \in 1..Len(lines)
          BY <2>2
        <5> QED
          BY <2>2, <3>1, <4>3, <5>1, PositionIs
      <4>6. Position(k + 1) - 1 = e
        BY <4>4, <4>5
      <4>7. ASSUME NEW r \in i..e PROVE ~Near(r)
        <5>1. r \in Hidden
          BY <4>1 DEF RunEnd
        <5>2. r \in DOMAIN rows
          BY <5>1 DEF Hidden
        <5> QED
          BY <2>1, <5>1, <5>2, HiddenIsFar
      <4>8. k > 1 => lines[k - 1].status # "..."
        <5> SUFFICES ASSUME k > 1 PROVE lines[k - 1].status # "..."
          OBVIOUS
        <5>1. i # 1
          BY <2>4, <3>1
        <5>2. i - 1 \in 1..Len(rows) /\ i - 1 + 1 = i
          BY <2>1, <5>1
        <5>3. Pieces[i - 1] = <<rows[i - 1]>> /\ rows[i - 1].status # "..."
          BY <2>6, <3>1, <3>3, <5>2
        <5>4. Len(Pieces[i - 1]) = 1 /\ Pieces[i - 1][1] = rows[i - 1]
          BY <5>3
        <5>5. off[i] = off[i - 1] + 1
          BY <2>4, <5>2, <5>4
        <5>6. off[i] \in Nat /\ k - 1 = off[i]
          BY <2>4, <3>1
        <5>7. lines[off[i - 1] + 1] = Pieces[i - 1][1]
          <6>1. i - 1 \in 1..Len(Pieces) /\ 1 \in 1..Len(Pieces[i - 1])
            BY <2>1, <5>2, <5>4
          <6> QED
            BY <2>2, <6>1
        <5> QED
          BY <5>3, <5>4, <5>5, <5>6, <5>7
      <4> QED
        BY <3>1, <4>3, <4>4, <4>6, <4>7, <4>8
    <3> QED
      BY <3>2, <3>3
  <2> QED
    BY <2>5, <2>8 DEF WindowOfChanges
<1> QED
  BY <1>1, RenderInvariant, PTL
=============================================================================
