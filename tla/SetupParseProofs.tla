-------------------------- MODULE SetupParseProofs --------------------------
(***************************************************************************)
(* The cursor of Parse never leaves its stream, and no record is made from *)
(* less than it takes, whatever the version, the streams and their counts. *)
(***************************************************************************)
EXTENDS SetupParse, DataInduction, SequenceTheorems

-----------------------------------------------------------------------------
(* Addresses.                                                              *)

\* The sections of a well typed file.
LEMMA SectionsType ==
  ASSUME WellTyped(file)
  PROVE  Sections \in Seq(Section)
<1> DEFINE dos == Object(file, 0)
           pe == Object(file, dos.pe)
<1>1. CASE dos.kind = "dos" /\ Is(file, dos.pe, "pe")
  <2>1. pe.kind = "pe"
    BY <1>1 DEF Is
  <2>2. dos.pe \in DOMAIN file.at /\ pe = file.at[dos.pe]
    BY <2>1 DEF Object
  <2>3. pe.sections \in Seq(Section)
    BY <2>1, <2>2 DEF WellTyped
  <2> QED BY <1>1, <2>3 DEF Sections
<1>2. CASE ~(dos.kind = "dos" /\ Is(file, dos.pe, "pe"))
  <2>1. Sections = <<>>
    BY <1>2 DEF Sections
  <2> QED BY <2>1
<1> QED BY <1>1, <1>2

\* At most one of several disjoint sections maps an address.
LEMMA OneSectionMaps ==
  ASSUME NEW s \in Section, NEW t \in Section, Disjoint(s, t),
         NEW rva, rva \in Int, Maps(s, rva), Maps(t, rva)
  PROVE  FALSE
<1>1. /\ s.va \in Nat /\ t.va \in Nat /\ span(s) \in Nat /\ span(t) \in Nat
  BY DEF Section, span
<1> QED BY <1>1 DEF Disjoint, Maps

LEMMA LeastMaps ==
  ASSUME NEW sections \in Seq(Section), NEW rva \in Int,
         \A i, j \in DOMAIN sections : i # j => Disjoint(sections[i], sections[j]),
         NEW i \in DOMAIN sections, Maps(sections[i], rva)
  PROVE  rvaToFile(sections, rva) = fileOffset(sections[i], rva)
<1> DEFINE Mapping == {j \in DOMAIN sections : Maps(sections[j], rva)}
<1>1. \A j \in DOMAIN sections : sections[j] \in Section
  OBVIOUS
<1>2. \A j \in Mapping : j = i
  BY <1>1, OneSectionMaps
<1>3. i \in Mapping /\ i \in Nat
  OBVIOUS
<1>4. (CHOOSE k \in Mapping : \A j \in Mapping : k <= j) = i
  <2> HIDE DEF Mapping
  <2>1. \E k \in Mapping : \A j \in Mapping : k <= j
    BY <1>2, <1>3
  <2> QED BY <1>2, <2>1
<1>5. Mapping # {}
  BY <1>3
<1> QED BY <1>4, <1>5 DEF rvaToFile

-----------------------------------------------------------------------------
(* The operators of the layout.                                            *)

\* The recursion of Number exists, and gives natural numbers.
IsNumber(f, x, n, m) ==
  f = [k \in 0..m |-> IF k = 0 THEN 0 ELSE x[n - k + 1] + 256 * f[k - 1]]

LEMMA NumberExists ==
  ASSUME NEW x, NEW n, NEW m \in Nat
  PROVE  \E f : IsNumber(f, x, n, m)
<1> DEFINE S == {k \in Nat : \E f : IsNumber(f, x, n, k)}
<1>1. 0 \in S
  <2> DEFINE f == [k \in 0..0 |-> 0]
  <2>1. IsNumber(f, x, n, 0)
    BY DEF IsNumber
  <2> QED BY <2>1
<1>2. ASSUME NEW k \in Nat, k \in S PROVE k + 1 \in S
  <2>1. PICK f : IsNumber(f, x, n, k)
    BY <1>2
  <2> DEFINE g == [j \in 0..(k + 1) |-> IF j = k + 1 THEN x[n - (k + 1) + 1] + 256 * f[k] ELSE f[j]]
  <2>2. \A j \in 0..(k + 1) : g[j] = IF j = 0 THEN 0 ELSE x[n - j + 1] + 256 * g[j - 1]
    BY <2>1 DEF IsNumber
  <2>3. g = [j \in 0..(k + 1) |-> g[j]]
    OBVIOUS
  <2>4. IsNumber(g, x, n, k + 1)
    <3> HIDE DEF g
    <3> QED BY <2>2, <2>3 DEF IsNumber
  <2> HIDE DEF g
  <2> QED BY <2>4
<1>3. \A k \in Nat : k \in S
  <2> HIDE DEF S
  <2> QED BY <1>1, <1>2, SetInduction
<1> QED BY <1>3

LEMMA NumberType ==
  ASSUME NEW x \in Seq(Nat)
  PROVE  Number(x) \in Nat
<1> DEFINE n == Len(x)
           f == CHOOSE g : IsNumber(g, x, n, n)
           S == {k \in Nat : k <= n => f[k] \in Nat}
<1>1. n \in Nat /\ \A k \in 1..n : x[k] \in Nat
  OBVIOUS
<1>2. IsNumber(f, x, n, n)
  <2>1. \E g : IsNumber(g, x, n, n)
    BY <1>1, NumberExists
  <2> QED BY <2>1
<1>3. Number(x) = f[n]
  BY DEF Number, IsNumber
<1> HIDE DEF n, f
<1>4. f[0] = 0 /\ \A k \in 1..n : f[k] = x[n - k + 1] + 256 * f[k - 1]
  BY <1>1, <1>2 DEF IsNumber
<1>5. 0 \in S
  BY <1>4
<1>6. ASSUME NEW k \in Nat, k \in S PROVE k + 1 \in S
  <2> SUFFICES ASSUME k + 1 <= n PROVE f[k + 1] \in Nat
    OBVIOUS
  <2>1. k + 1 \in 1..n /\ (k + 1) - 1 = k /\ n - (k + 1) + 1 \in 1..n
    BY <1>1
  <2>2. f[k] \in Nat /\ x[n - (k + 1) + 1] \in Nat
    BY <1>1, <1>6, <2>1
  <2>3. f[k + 1] = x[n - (k + 1) + 1] + 256 * f[k]
    BY <1>4, <2>1
  <2> QED BY <2>2, <2>3
<1>7. \A k \in Nat : k \in S
  <2> HIDE DEF S
  <2> QED BY <1>5, <1>6, SetInduction
<1> QED BY <1>1, <1>3, <1>7

\* A sequence of sequences makes one.
IsFlat(f, x, m) == f = [i \in 1..m |-> IF i = 1 THEN x[i] ELSE f[i - 1] \o x[i]]

LEMMA FlatExists ==
  ASSUME NEW x, NEW m \in Nat
  PROVE  \E f : IsFlat(f, x, m)
<1> DEFINE S == {k \in Nat : \E f : IsFlat(f, x, k)}
<1>1. 0 \in S
  <2> DEFINE f == [k \in 1..0 |-> 0]
  <2>1. IsFlat(f, x, 0)
    BY DEF IsFlat
  <2> QED BY <2>1
<1>2. ASSUME NEW k \in Nat, k \in S PROVE k + 1 \in S
  <2>1. PICK f : IsFlat(f, x, k)
    BY <1>2
  <2> DEFINE g == [j \in 1..(k + 1) |-> IF j = k + 1 THEN IF j = 1 THEN x[j] ELSE f[k] \o x[k + 1] ELSE f[j]]
  <2>2. ASSUME NEW j \in 1..(k + 1) PROVE g[j] = IF j = 1 THEN x[j] ELSE g[j - 1] \o x[j]
    <3>1. CASE j = k + 1
      <4>1. g[j] = IF j = 1 THEN x[j] ELSE f[k] \o x[k + 1]
        BY <3>1
      <4>2. j # 1 => j - 1 = k /\ k \in 1..(k + 1) /\ k # k + 1
        BY <3>1
      <4>3. j # 1 => g[j - 1] = f[k]
        BY <4>2
      <4> HIDE DEF g
      <4> QED BY <3>1, <4>1, <4>3
    <3>2. CASE j # k + 1
      <4>1. j \in 1..k /\ (j # 1 => j - 1 \in 1..k /\ j - 1 \in 1..(k + 1) /\ j - 1 # k + 1)
        BY <3>2
      <4>2. f[j] = IF j = 1 THEN x[j] ELSE f[j - 1] \o x[j]
        BY <2>1, <4>1 DEF IsFlat
      <4>3. g[j] = f[j] /\ (j # 1 => g[j - 1] = f[j - 1])
        BY <3>2, <4>1
      <4> HIDE DEF g
      <4> QED BY <4>2, <4>3
    <3> QED BY <3>1, <3>2
  <2>3. g = [j \in 1..(k + 1) |-> g[j]]
    OBVIOUS
  <2>4. IsFlat(g, x, k + 1)
    <3> HIDE DEF g
    <3> QED BY <2>2, <2>3 DEF IsFlat
  <2> HIDE DEF g
  <2> QED BY <2>4
<1>3. \A k \in Nat : k \in S
  <2> HIDE DEF S
  <2> QED BY <1>1, <1>2, SetInduction
<1> QED BY <1>3

LEMMA FlattenType ==
  ASSUME NEW T, NEW x \in Seq(Seq(T))
  PROVE  FlattenSeq(x) \in Seq(T)
<1> DEFINE n == Len(x)
           f == CHOOSE g : IsFlat(g, x, n)
           S == {k \in Nat : k + 1 <= n => f[k + 1] \in Seq(T)}
<1>1. n \in Nat /\ \A k \in 1..n : x[k] \in Seq(T)
  OBVIOUS
<1>2. IsFlat(f, x, n)
  <2>1. \E g : IsFlat(g, x, n)
    BY <1>1, FlatExists
  <2> QED BY <2>1
<1>3. FlattenSeq(x) = IF n = 0 THEN x ELSE f[n]
  BY DEF FlattenSeq, IsFlat
<1>a. n = 0 => x = <<>>
  OBVIOUS
<1> HIDE DEF n, f
<1>4. \A k \in 1..n : f[k] = IF k = 1 THEN x[k] ELSE f[k - 1] \o x[k]
  BY <1>1, <1>2 DEF IsFlat
<1>5. 0 \in S
  BY <1>1, <1>4
<1>6. ASSUME NEW k \in Nat, k \in S PROVE k + 1 \in S
  <2> SUFFICES ASSUME (k + 1) + 1 <= n PROVE f[(k + 1) + 1] \in Seq(T)
    OBVIOUS
  <2>1. (k + 1) + 1 \in 1..n /\ ((k + 1) + 1) - 1 = k + 1 /\ (k + 1) + 1 # 1 /\ k + 1 <= n
    BY <1>1
  <2>2. f[k + 1] \in Seq(T) /\ x[(k + 1) + 1] \in Seq(T)
    BY <1>1, <1>6, <2>1
  <2>3. f[(k + 1) + 1] = f[k + 1] \o x[(k + 1) + 1]
    BY <1>4, <2>1
  <2> QED BY <2>2, <2>3
<1>7. \A k \in Nat : k \in S
  <2> HIDE DEF S
  <2> QED BY <1>5, <1>6, SetInduction
<1>8. CASE n = 0
  <2>1. <<>> \in Seq(T)
    OBVIOUS
  <2> QED BY <1>3, <1>8, <1>a, <2>1
<1>9. CASE n # 0
  <2>1. n - 1 \in Nat /\ (n - 1) + 1 = n
    BY <1>1, <1>9
  <2> QED BY <1>3, <1>7, <1>9, <2>1
<1> QED BY <1>8, <1>9

-----------------------------------------------------------------------------
(* The layout of a record is a sequence of fields.                         *)

Field == [kind: {"fixed", "must", "utf16", "raw", "strings", "group"}, size: Nat, name: Names]
Layouts == Seq(Field)

LEMMA PieceTypes ==
  /\ <<>> \in Layouts
  /\ \A s, t \in Layouts : s \o t \in Layouts
  /\ \A n \in Nat, name \in Names : Fixed(n, name) \in Layouts /\ Must(n, name) \in Layouts
  /\ \A name \in Names : Text(name) \in Layouts /\ Raw(name) \in Layouts
  /\ \A n \in Nat : Skip(n) \in Layouts /\ Strings(n) \in Layouts
  /\ Group \in Layouts
  /\ \A s \in Layouts : \A c \in BOOLEAN : When(c, s) \in Layouts
<1>0. "" \in Names
  BY DEF Names
<1>1. \A f \in Field : <<f>> \in Seq(Field)
  OBVIOUS
<1>2. /\ <<>> \in Layouts
      /\ \A s, t \in Layouts : s \o t \in Layouts
  BY DEF Layouts
<1>3. \A n \in Nat, name \in Names : Fixed(n, name) \in Layouts /\ Must(n, name) \in Layouts
  BY <1>1 DEF Fixed, Must, Layouts, Field
<1>4. \A name \in Names : Text(name) \in Layouts /\ Raw(name) \in Layouts
  BY <1>1 DEF Text, Raw, Layouts, Field
<1>5. \A n \in Nat : Skip(n) \in Layouts /\ Strings(n) \in Layouts
  BY <1>0, <1>1, <1>3 DEF Skip, Strings, Layouts, Field
<1>6. Group \in Layouts
  BY <1>0, <1>1 DEF Group, Layouts, Field
<1>7. \A s \in Layouts : \A c \in BOOLEAN : When(c, s) \in Layouts
  BY <1>2 DEF When
<1> QED BY <1>2, <1>3, <1>4, <1>5, <1>6, <1>7

LEMMA NamesHas ==
  /\ \A i \in DOMAIN CountNames : CountNames[i] \in Names
  /\ {"", "AppName", "AppID", "Publisher", "AppVersion", "BaseFilename", "sevenZip",
      "Password", "PasswordSalt", "SlicesPerDisk", "Compression", "Flags",
      "Name", "DisplayName", "ID", "Source", "Destination", "Components", "Tasks",
      "Languages", "Check", "AfterInstall", "BeforeInstall", "Digest", "verification",
      "Location", "Size", "Key", "Value", "FirstSlice", "LastSlice", "ChunkOffset",
      "FileOffset", "FileSize", "ChunkSize"} \subseteq Names
BY DEF Names

LEMMA CountNamesAre ==
  {"languages", "messages", "permissions", "types", "components", "tasks", "directories",
   "issigKeys", "files", "dataEntries", "icons", "inis", "registries",
   "deletes", "uninstallDeletes", "runs", "uninstallRuns"} \subseteq Names
<1>1. DOMAIN CountNames = 1..17
  BY DEF CountNames
<1>2. \A i \in 1..17 : CountNames[i] \in Names
  BY <1>1 DEF Names
<1>3. /\ CountNames[1] = "languages" /\ CountNames[2] = "messages" /\ CountNames[3] = "permissions"
      /\ CountNames[4] = "types" /\ CountNames[5] = "components" /\ CountNames[6] = "tasks"
      /\ CountNames[7] = "directories" /\ CountNames[8] = "issigKeys" /\ CountNames[9] = "files"
      /\ CountNames[10] = "dataEntries" /\ CountNames[11] = "icons" /\ CountNames[12] = "inis"
      /\ CountNames[13] = "registries" /\ CountNames[14] = "deletes"
      /\ CountNames[15] = "uninstallDeletes" /\ CountNames[16] = "runs"
      /\ CountNames[17] = "uninstallRuns"
  BY DEF CountNames
<1>4. /\ 1 \in 1..17 /\ 2 \in 1..17 /\ 3 \in 1..17 /\ 4 \in 1..17 /\ 5 \in 1..17 /\ 6 \in 1..17
      /\ 7 \in 1..17 /\ 8 \in 1..17 /\ 9 \in 1..17 /\ 10 \in 1..17 /\ 11 \in 1..17 /\ 12 \in 1..17
      /\ 13 \in 1..17 /\ 14 \in 1..17 /\ 15 \in 1..17 /\ 16 \in 1..17 /\ 17 \in 1..17
  OBVIOUS
<1> QED BY <1>2, <1>3, <1>4

\* The sizes that depend on the version.
LEMMA SizeTypes ==
  /\ \A v, n, p : AtLeast(v, n, p) \in BOOLEAN
  /\ \A v : Signed(v) \in BOOLEAN /\ Colours(v) \in BOOLEAN
  /\ \A c, n : n \in Nat => If(c, n) \in Nat /\ If(c, n) <= n
  /\ \A v : FlagBytes(v) \in Nat /\ OneByte(v) \in Nat /\ WizardGroups(v) \in Nat
<1>1. \A v, n, p : AtLeast(v, n, p) \in BOOLEAN
  BY DEF AtLeast
<1>2. \A v : Signed(v) \in BOOLEAN /\ Colours(v) \in BOOLEAN
  BY DEF Signed, Colours, Before
<1>3. \A c, n : n \in Nat => If(c, n) \in Nat /\ If(c, n) <= n
  BY DEF If
<1>4. ASSUME NEW v PROVE FlagBytes(v) \in Nat
  <2>1. FlagCount(v) \in Nat
    BY DEF FlagCount, If
  <2> QED BY <2>1 DEF FlagBytes
<1>5. \A v : OneByte(v) \in Nat /\ WizardGroups(v) \in Nat
  BY DEF OneByte, WizardGroups, If
<1> QED BY <1>1, <1>2, <1>3, <1>4, <1>5

LEMMA SmallLayouts ==
  /\ WindowsRange \in Layouts /\ Condition \in Layouts
  /\ MessageFields \in Layouts /\ PermissionFields \in Layouts /\ TypeFields \in Layouts
  /\ DirectoryFields \in Layouts /\ ISSigKeyFields \in Layouts /\ INIFields \in Layouts
  /\ RegistryFields \in Layouts /\ DeleteFields \in Layouts /\ RunFields \in Layouts
<1>0. WindowsRange \in Layouts /\ Condition \in Layouts
  BY PieceTypes DEF WindowsRange, Condition
<1>1. MessageFields \in Layouts /\ PermissionFields \in Layouts /\ TypeFields \in Layouts
  BY <1>0, PieceTypes DEF MessageFields, PermissionFields, TypeFields
<1>2. DirectoryFields \in Layouts /\ ISSigKeyFields \in Layouts /\ INIFields \in Layouts
  BY <1>0, PieceTypes DEF DirectoryFields, ISSigKeyFields, INIFields
<1>3. RegistryFields \in Layouts
  BY <1>0, PieceTypes, NamesHas DEF RegistryFields
<1>4. DeleteFields \in Layouts /\ RunFields \in Layouts
  BY <1>0, PieceTypes DEF DeleteFields, RunFields
<1> QED BY <1>0, <1>1, <1>2, <1>3, <1>4

LEMMA IsSeq ==
  ASSUME NEW T, NEW n \in Nat, NEW x \in [1..n -> T]
  PROVE  x \in Seq(T)
OBVIOUS

LEMMA CountsType ==
  ASSUME NEW v
  PROVE  Counts(v) \in Layouts
<1> DEFINE x == [i \in DOMAIN CountNames |->
                   When(CountNames[i] # "issigKeys" \/ AtLeast(v, 5, 0), Fixed(4, CountNames[i]))]
<1>1. DOMAIN CountNames = 1..17
  BY DEF CountNames
<1>2. ASSUME NEW i \in 1..17
      PROVE  When(CountNames[i] # "issigKeys" \/ AtLeast(v, 5, 0), Fixed(4, CountNames[i])) \in Layouts
  <2>1. CountNames[i] \in Names
    BY <1>1, NamesHas
  <2>2. Fixed(4, CountNames[i]) \in Layouts
    BY <2>1, PieceTypes
  <2> QED BY <2>2, PieceTypes DEF When
<1>3. x \in [1..17 -> Layouts]
  BY <1>1, <1>2
<1>4. x \in Seq(Layouts)
  <2> HIDE DEF x
  <2> QED BY <1>3, IsSeq
<1> HIDE DEF x
<1>5. FlattenSeq(x) \in Layouts
  BY <1>4, FlattenType DEF Layouts
<1> QED BY <1>5 DEF Counts, x

LEMMA HeaderType ==
  ASSUME NEW v
  PROVE  HeaderFields(v) \in Layouts
<1>1. HeaderTexts(v) \in Layouts
  <2>1. /\ 17 + If(AtLeast(v, 3, 0), 2) + If(AtLeast(v, 4, 2), 1) \in Nat
        /\ 4 + If(AtLeast(v, 7, 0), 5) \in Nat
    BY SizeTypes
  <2>2. /\ Strings(17 + If(AtLeast(v, 3, 0), 2) + If(AtLeast(v, 4, 2), 1)) \in Layouts
        /\ Strings(4 + If(AtLeast(v, 7, 0), 5)) \in Layouts
        /\ When(AtLeast(v, 5, 0), Raw("sevenZip")) \in Layouts
    BY <2>1, PieceTypes, NamesHas, SizeTypes
  <2>3. /\ Text("AppName") \in Layouts /\ Text("") \in Layouts /\ Text("AppID") \in Layouts
        /\ Text("Publisher") \in Layouts /\ Text("AppVersion") \in Layouts
        /\ Text("BaseFilename") \in Layouts /\ Strings(4) \in Layouts /\ Strings(2) \in Layouts
    BY PieceTypes, NamesHas
  <2>4. \A s, t \in Layouts : s \o t \in Layouts
    BY PieceTypes
  <2> QED BY <2>2, <2>3, <2>4 DEF HeaderTexts
<1>2. HeaderNumbers(v) \in Layouts
  <2> DEFINE n == 10 + If(Colours(v), 8) + If(AtLeast(v, 5, 2), 8) + If(AtLeast(v, 6, 0), 8)
                     + If(AtLeast(v, 6, 1), 1) + If(AtLeast(v, 7, 0), 10)
  <2>1. n \in Nat
    BY DEF If
  <2>2. Skip(n) \in Layouts
    <3> HIDE DEF n
    <3> QED BY <2>1, PieceTypes
  <2>3. /\ Must(20, "Password") \o Fixed(8, "PasswordSalt") \in Layouts
        /\ Must(4, "Password") \o Fixed(44, "PasswordSalt") \in Layouts
        /\ Fixed(4, "SlicesPerDisk") \in Layouts /\ Fixed(1, "Compression") \in Layouts
        /\ Skip(8) \in Layouts /\ Skip(6) \in Layouts /\ Skip(10) \in Layouts
    BY PieceTypes, NamesHas
  <2>4. Fixed(FlagBytes(v), "Flags") \in Layouts
    BY PieceTypes, NamesHas, SizeTypes
  <2>5. /\ When(~AtLeast(v, 4, 0), Must(20, "Password") \o Fixed(8, "PasswordSalt")) \in Layouts
        /\ When(AtLeast(v, 4, 0) /\ ~AtLeast(v, 5, 0), Must(4, "Password") \o Fixed(44, "PasswordSalt"))
             \in Layouts
    BY <2>3, PieceTypes DEF When
  <2>6. \A s, t \in Layouts : s \o t \in Layouts
    BY PieceTypes
  <2>7. WindowsRange \in Layouts
    BY SmallLayouts
  <2> DEFINE passwords ==
               WindowsRange \o Skip(n)
                 \o When(~AtLeast(v, 4, 0), Must(20, "Password") \o Fixed(8, "PasswordSalt"))
                 \o When(AtLeast(v, 4, 0) /\ ~AtLeast(v, 5, 0),
                         Must(4, "Password") \o Fixed(44, "PasswordSalt"))
             slices == passwords \o Skip(8) \o Fixed(4, "SlicesPerDisk") \o Skip(6)
  <2>8. HeaderNumbers(v) = slices \o Fixed(1, "Compression") \o Skip(10) \o Fixed(FlagBytes(v), "Flags")
    BY DEF HeaderNumbers
  <2>9. passwords \in Layouts
    <3> HIDE DEF n
    <3> QED BY <2>2, <2>5, <2>6, <2>7
  <2> HIDE DEF passwords
  <2>10. slices \in Layouts
    BY <2>3, <2>6, <2>9
  <2> HIDE DEF slices
  <2> QED BY <2>3, <2>4, <2>6, <2>8, <2>10
<1> QED BY <1>1, <1>2, CountsType, PieceTypes DEF HeaderFields

\* The layouts of what is kept.
LEMMA KeptLayouts ==
  ASSUME NEW v
  PROVE  LanguageFields(v) \in Layouts /\ FileFields(v) \in Layouts /\ DataFields(v) \in Layouts
<1>0. \A s, t \in Layouts : s \o t \in Layouts
  BY PieceTypes
<1>1. LanguageFields(v) \in Layouts
  <2>1. 6 + If(~AtLeast(v, 6, 0), 2) \in Nat /\ 4 - If(AtLeast(v, 6, 0), 2) \in Nat
    BY DEF If
  <2>2. /\ Strings(6 + If(~AtLeast(v, 6, 0), 2)) \in Layouts
        /\ Fixed(4 - If(AtLeast(v, 6, 0), 2), "ID") \in Layouts
        /\ Text("Name") \in Layouts /\ Text("DisplayName") \in Layouts /\ Skip(17) \in Layouts
    BY <2>1, PieceTypes, NamesHas
  <2> QED BY <1>0, <2>2 DEF LanguageFields
<1>2. FileFields(v) \in Layouts
  <2>1. /\ Strings(6) \in Layouts /\ Must(32, "Digest") \in Layouts
        /\ Fixed(1, "verification") \in Layouts /\ Strings(2) \in Layouts
        /\ Fixed(4, "Location") \in Layouts /\ Skip(4) \in Layouts /\ Fixed(8, "Size") \in Layouts
        /\ Skip(2) \in Layouts /\ Skip(1) \in Layouts
        /\ Fixed(IF AtLeast(v, 7, 0) THEN 8 ELSE 5, "Flags") \in Layouts
    BY PieceTypes, NamesHas
  <2>2. /\ Text("Source") \in Layouts /\ Text("Destination") \in Layouts
        /\ Text("Components") \in Layouts /\ Text("Tasks") \in Layouts /\ Text("Languages") \in Layouts
        /\ Text("Check") \in Layouts /\ Text("AfterInstall") \in Layouts
        /\ Text("BeforeInstall") \in Layouts
    BY PieceTypes, NamesHas
  <2>3. When(AtLeast(v, 5, 0), Strings(6) \o Must(32, "Digest") \o Fixed(1, "verification")) \in Layouts
    <3>1. Strings(6) \o Must(32, "Digest") \o Fixed(1, "verification") \in Layouts
      BY <1>0, <2>1
    <3> QED BY <3>1, PieceTypes, SizeTypes
  <2>4. WindowsRange \in Layouts
    BY SmallLayouts
  <2> QED BY <1>0, <2>1, <2>2, <2>3, <2>4 DEF FileFields
<1>3. DataFields(v) \in Layouts
  <2>1. 1 + If(Signed(v), 1) \in Nat
    BY DEF If
  <2>2. /\ Fixed(4, "FirstSlice") \in Layouts /\ Fixed(4, "LastSlice") \in Layouts
        /\ Fixed(IF AtLeast(v, 5, 2) THEN 8 ELSE 4, "ChunkOffset") \in Layouts
        /\ Fixed(8, "FileOffset") \in Layouts /\ Fixed(8, "FileSize") \in Layouts
        /\ Fixed(8, "ChunkSize") \in Layouts
        /\ Must(IF AtLeast(v, 4, 0) THEN 32 ELSE 20, "Digest") \in Layouts
        /\ Skip(16) \in Layouts /\ Skip(1) \in Layouts
        /\ Fixed(1 + If(Signed(v), 1), "Flags") \in Layouts
    BY <2>1, PieceTypes, NamesHas
  <2>3. When(Signed(v), Skip(1)) \in Layouts
    BY <2>2, PieceTypes, SizeTypes
  <2> QED BY <1>0, <2>2, <2>3 DEF DataFields
<1> QED BY <1>1, <1>2, <1>3

LEMMA OtherLayouts ==
  ASSUME NEW v, NEW h
  PROVE  /\ ComponentFields(v) \in Layouts /\ TaskFields(v) \in Layouts /\ IconFields(v) \in Layouts
         /\ WizardFields(v, h) \in Layouts
<1>0. \A s, t \in Layouts : s \o t \in Layouts
  BY PieceTypes
<1>1. OneByte(v) \in Nat /\ WizardGroups(v) \in Nat
  BY SizeTypes
<1>2. ComponentFields(v) \in Layouts
  <2>1. Strings(5) \in Layouts /\ Skip(8 + OneByte(v) + 1) \in Layouts /\ Skip(9) \in Layouts
    BY <1>1, PieceTypes
  <2> QED BY <1>0, <2>1, SmallLayouts DEF ComponentFields
<1>3. TaskFields(v) \in Layouts
  <2>1. Strings(6) \in Layouts /\ Skip(OneByte(v) + 1) \in Layouts /\ Skip(1) \in Layouts
    BY <1>1, PieceTypes
  <2> QED BY <1>0, <2>1, SmallLayouts DEF TaskFields
<1>4. IconFields(v) \in Layouts
  <2>1. Strings(6) \in Layouts /\ Strings(1) \in Layouts /\ Skip(12) \in Layouts
    BY PieceTypes
  <2>2. When(AtLeast(v, 1, 0), Skip(16)) \in Layouts
    BY PieceTypes, SizeTypes
  <2> QED BY <1>0, <2>1, <2>2, SmallLayouts DEF IconFields
<1>5. WizardFields(v, h) \in Layouts
  <2> DEFINE x == [i \in 1..WizardGroups(v) |-> Group]
  <2>1. x \in Seq(Layouts)
    BY <1>1, PieceTypes
  <2> HIDE DEF x
  <2>2. FlattenSeq(x) \in Layouts
    BY <2>1, FlattenType DEF Layouts
  <2>3. /\ When(CompressionOf(h) \in {"bzip2", "zlib"}, Strings(1)) \in Layouts
        /\ When(h["sevenZip"] # <<>>, Strings(1)) \in Layouts
    BY PieceTypes DEF When
  <2> QED BY <1>0, <2>2, <2>3 DEF WizardFields, x
<1> QED BY <1>2, <1>3, <1>4, <1>5

Kinds == {"header", "languages", "messages", "permissions", "types", "components", "tasks",
          "directories", "issigKeys", "files", "icons", "inis", "registries", "deletes",
          "runs", "wizard", "dataEntries"}

LEMMA PhaseKinds ==
  ASSUME NEW k \in DOMAIN Phases
  PROVE  Phases[k] \in Kinds
BY DEF Phases, Kinds

LEMMA LayoutType ==
  ASSUME NEW v, NEW h, NEW k \in DOMAIN Phases
  PROVE  Layout(v, h, Phases[k]) \in Layouts
<1>1. Phases[k] \in Kinds
  BY PhaseKinds
<1> QED
  BY <1>1, SmallLayouts, HeaderType, KeptLayouts, OtherLayouts DEF Layout, Kinds

-----------------------------------------------------------------------------
(* The weight of a layout.                                                 *)

LEMMA FieldSizeType ==
  ASSUME NEW f \in Field
  PROVE  FieldSize(f) \in Nat
BY DEF Field, FieldSize

LEMMA SizesType ==
  ASSUME NEW s \in Layouts
  PROVE  /\ [i \in 1..Len(s) |-> FieldSize(s[i])] \in Seq(Nat)
         /\ Len([i \in 1..Len(s) |-> FieldSize(s[i])]) = Len(s)
         /\ Weight(s) \in Nat
<1> DEFINE x == [i \in 1..Len(s) |-> FieldSize(s[i])]
<1>1. Len(s) \in Nat /\ \A i \in 1..Len(s) : s[i] \in Field
  BY DEF Layouts
<1>2. \A i \in 1..Len(s) : FieldSize(s[i]) \in Nat
  BY <1>1, FieldSizeType
<1>3. x \in [1..Len(s) -> Nat]
  BY <1>2
<1>4. x \in Seq(Nat) /\ Len(x) = Len(s)
  <2> HIDE DEF x
  <2> QED BY <1>1, <1>3
<1>5. Total(x) \in Nat
  <2> HIDE DEF x
  <2> QED BY <1>4, TotalType
<1> QED BY <1>4, <1>5 DEF Weight

LEMMA WeightOfNone == Weight(<<>>) = 0
<1>1. <<>> \in Layouts /\ Len(<<>>) = 0
  BY DEF Layouts
<1> DEFINE x == [i \in 1..Len(<<>>) |-> FieldSize((<<>>)[i])]
<1>2. x \in Seq(Nat) /\ Len(x) = 0
  BY <1>1, SizesType
<1> HIDE DEF x
<1>3. \A k \in 1..Len(x) : x[k] = 0
  BY <1>2
<1>4. Total(x) = 0
  BY <1>2, <1>3, TotalOfZeros
<1> QED BY <1>4 DEF Weight, x

\* The first field comes first.
LEMMA WeightFirst ==
  ASSUME NEW s \in Layouts, s # <<>>
  PROVE  /\ Head(s) \in Field /\ Tail(s) \in Layouts
         /\ FieldSize(Head(s)) \in Nat /\ Weight(Tail(s)) \in Nat
         /\ Weight(s) = FieldSize(Head(s)) + Weight(Tail(s))
<1> DEFINE x == [i \in 1..Len(s) |-> FieldSize(s[i])]
           y == [i \in 1..Len(Tail(s)) |-> FieldSize(Tail(s)[i])]
<1>1. /\ Head(s) \in Field /\ Tail(s) \in Layouts /\ Head(s) = s[1]
      /\ Len(s) \in Nat /\ Len(s) >= 1 /\ Len(Tail(s)) = Len(s) - 1
      /\ \A i \in 1..Len(Tail(s)) : Tail(s)[i] = s[i + 1]
  BY DEF Layouts
<1>2. /\ x \in Seq(Nat) /\ Len(x) = Len(s) /\ y \in Seq(Nat) /\ Len(y) = Len(Tail(s))
      /\ Weight(Tail(s)) \in Nat
  BY <1>1, SizesType
<1>3. \A k \in 1..Len(y) : k \in 1..Len(Tail(s)) /\ k + 1 \in 1..Len(s)
  <2> HIDE DEF x, y
  <2> QED BY <1>1, <1>2
<1>4. \A k \in 1..Len(y) : y[k] = x[k + 1]
  BY <1>1, <1>3
<1>5. x[1] = FieldSize(Head(s))
  BY <1>1
<1> HIDE DEF x, y
<1>6. Len(x) = Len(y) + 1
  BY <1>1, <1>2
<1>7. Total(x) = x[1] + Total(y)
  BY <1>2, <1>4, <1>6, SumsFirst
<1>8. FieldSize(Head(s)) \in Nat
  BY <1>1, FieldSizeType
<1> QED BY <1>1, <1>2, <1>5, <1>7, <1>8 DEF Weight, x, y

\* Strings in front of other fields.
LEMMA WeightOfStrings ==
  ASSUME NEW n \in Nat, NEW s \in Layouts
  PROVE  /\ Strings(n) \o s \in Layouts
         /\ Weight(Strings(n) \o s) = 4 * n + Weight(s)
<1> DEFINE f == [kind |-> "strings", size |-> n, name |-> ""]
           t == <<f>> \o s
<1>1. f \in Field
  BY NamesHas DEF Field
<1>2. Strings(n) = <<f>>
  BY DEF Strings
<1>3. FieldSize(f) = 4 * n
  BY DEF FieldSize
<1>4. t \in Layouts /\ t # <<>> /\ Head(t) = f /\ Tail(t) = s
  <2> HIDE DEF f
  <2>1. <<f>> \in Seq(Field) /\ s \in Seq(Field) /\ Len(<<f>>) = 1
    BY <1>1 DEF Layouts
  <2>2. t \in Seq(Field) /\ Len(t) = 1 + Len(s) /\ Len(s) \in Nat
    BY <2>1
  <2>3. t[1] = f /\ \A i \in 1..Len(s) : t[i + 1] = s[i]
    BY <2>1
  <2> HIDE DEF t
  <2>4. t # <<>> /\ Head(t) = f
    BY <2>2, <2>3
  <2>5. Tail(t) \in Seq(Field) /\ Len(Tail(t)) = Len(s) /\ \A i \in 1..Len(s) : Tail(t)[i] = t[i + 1]
    BY <2>2, <2>4
  <2>6. Tail(t) = s
    BY <2>1, <2>3, <2>5, SeqEqual
  <2> QED BY <2>2, <2>4, <2>6 DEF Layouts
<1> HIDE DEF f, t
<1>5. Weight(t) = 4 * n + Weight(s)
  BY <1>3, <1>4, WeightFirst
<1> QED BY <1>2, <1>4, <1>5 DEF t

-----------------------------------------------------------------------------
(* What the steps compute.                                                 *)

Errs == {"none", "Corrupt", "ChecksumMismatch", "InvalidFormat", "UnsupportedVersion",
         "LimitExceeded", "panic"}

LEMMA TableType ==
  ASSUME NEW f, WellTyped(f), NEW place
  PROVE  LET o == loadOffsetTable(f, place) IN
         o.err \in Errs /\ (o.err = "none" => o.offsets.header \in Nat)
<1> DEFINE t == Object(f, place)
           o == loadOffsetTable(f, place)
<1>1. \A e \in Errs : Failed(e).err = e
  BY DEF Failed
<1>2. t.kind = "table" => /\ t.version \in Nat /\ t.header \in Int
                          /\ t.revision # 2 => t.words \in [1..7 -> 0..MaxU32]
  BY DEF WellTyped, Object
<1>3. ASSUME t.kind = "table", t.revision = 2
      PROVE  RevisionTwo(t).err \in Errs
             /\ (RevisionTwo(t).err = "none" => RevisionTwo(t).offsets.header \in Nat)
  BY <1>2, <1>3 DEF RevisionTwo, Failed, Found, Errs
<1>4. ASSUME t.kind = "table", t.revision # 2
      PROVE  RevisionOne(t).err \in Errs
             /\ (RevisionOne(t).err = "none" => RevisionOne(t).offsets.header \in Nat)
  <2>1. HeaderWord(t.version) \in 5..7
    BY DEF HeaderWord, Optional
  <2>2. CASE HeaderWord(t.version) + 1 > 7
    <3>1. RevisionOne(t).err = "panic"
      BY <2>2 DEF RevisionOne, Failed
    <3> QED BY <3>1 DEF Errs
  <2>3. CASE ~(HeaderWord(t.version) + 1 > 7)
    <3>1. HeaderWord(t.version) \in 1..7
      BY <2>1
    <3>2. t.words[HeaderWord(t.version)] \in 0..MaxU32
      BY <1>2, <1>4, <3>1
    <3>3. t.words[HeaderWord(t.version)] \in Nat
      BY <3>2, LoaderAssumption
    <3>4. RevisionOne(t).err = "none" /\ RevisionOne(t).offsets.header = t.words[HeaderWord(t.version)]
      BY <2>3 DEF RevisionOne, Found
    <3> QED BY <3>3, <3>4 DEF Errs
  <2> QED BY <2>2, <2>3
<1>5. \/ o \in {Failed("Corrupt"), Failed("InvalidFormat")}
      \/ t.kind = "table" /\ t.revision = 2 /\ o = RevisionTwo(t)
      \/ t.kind = "table" /\ t.revision # 2 /\ o = RevisionOne(t)
  BY DEF loadOffsetTable
<1>6. CASE o \in {Failed("Corrupt"), Failed("InvalidFormat")}
  BY <1>6 DEF Failed, Errs
<1> QED BY <1>3, <1>4, <1>5, <1>6

LEMMA LocateType ==
  ASSUME NEW f, WellTyped(f)
  PROVE  Locate(f).err \in Errs /\ (Locate(f).err = "none" => Locate(f).offsets.header \in Nat)
<1> DEFINE good(o) == o.err \in Errs /\ (o.err = "none" => o.offsets.header \in Nat)
<1>1. good(NotFound) /\ good(Failed("Corrupt")) /\ good(Failed("InvalidFormat"))
  BY DEF NotFound, Failed, NoOffsets, Errs
<1>2. \A place : good(loadOffsetTable(f, place))
  BY TableType
<1>3. \A place : good(TableAt(f, place))
  <2> HIDE DEF good
  <2> QED BY <1>1, <1>2 DEF TableAt
<1>4. good(fixedOffsetTable(f))
  <2> HIDE DEF good
  <2> QED BY <1>1, <1>2 DEF fixedOffsetTable
<1>5. good(resourceOffsetTable(f))
  <2> DEFINE r == resourceOffsetTable(f)
             pe == Object(f, Object(f, 0).pe)
             place == findResource(f, pe.sections, rvaToFile(pe.sections, pe.resource))
  <2>1. \/ r = NotFound \/ r = Failed("Corrupt") \/ r = Failed("InvalidFormat")
        \/ r = TableAt(f, place)
    <3> DEFINE dos == Object(f, 0)
               opt == dos.pe + 24
               root == rvaToFile(pe.sections, pe.resource)
               c1 == ~(Readable(f, 0, 64) /\ dos.kind = "dos")
               c2 == ~(Readable(f, dos.pe, 24) /\ pe.kind = "pe")
               c3 == \/ Len(pe.sections) \notin 1..96 \/ pe.optionalSize \notin 96..4096
                     \/ ~Readable(f, opt, pe.optionalSize)
               c4 == pe.magic \notin {"pe32", "pe32+"}
               c5 == dirOff(pe) + 24 > pe.optionalSize \/ pe.exports < 3
               c6 == pe.resource = 0
               c7 == ~Readable(f, opt + pe.optionalSize, 40 * Len(pe.sections)) \/ root = Nowhere
    <3>1. r = IF c1 THEN NotFound ELSE IF c2 THEN NotFound
              ELSE IF c3 THEN Failed("Corrupt") ELSE IF c4 THEN Failed("InvalidFormat")
              ELSE IF c5 THEN Failed("Corrupt") ELSE IF c6 THEN Failed("InvalidFormat")
              ELSE IF c7 THEN Failed("Corrupt") ELSE TableAt(f, place)
      BY Zenon DEF resourceOffsetTable
    <3> HIDE DEF r, c1, c2, c3, c4, c5, c6, c7, place
    <3> QED BY <3>1
  <2> HIDE DEF good, r, place
  <2>2. good(r)
    BY <1>1, <1>3, <2>1
  <2> QED BY <2>2 DEF r
<1>6. good(Locate(f))
  <2> HIDE DEF good
  <2> QED BY <1>4, <1>5 DEF Locate
<1> QED BY <1>6

\* The limit.
LEMMA LimitType ==
  ASSUME headerLimit \in HeaderLimits
  PROVE  limit \in Nat
<1>1. headerLimit \in Int /\ DefaultHeaderLimit \in Nat
  BY SetupAssumption
<1> QED BY <1>1 DEF limit

\* A header of byte strings counts records.
LEMMA TimesType ==
  ASSUME NEW h \in [Names -> Seq(Nat)], NEW k \in DOMAIN Phases
  PROVE  Times(h, Phases[k]) \in Nat
<1>1. \A n \in Names : Number(h[n]) \in Nat
  BY NumberType
<1>2. /\ "deletes" \in Names /\ "uninstallDeletes" \in Names /\ "runs" \in Names
      /\ "uninstallRuns" \in Names
  BY CountNamesAre
<1>3. Phases[k] \notin {"header", "wizard"} => Phases[k] \in Names
  BY CountNamesAre, PhaseKinds DEF Kinds
<1> QED BY <1>1, <1>2, <1>3 DEF Times, Count

LEMMA UnitsType ==
  ASSUME NEW s \in Seq(Nat)
  PROVE  Units(s) \in Seq(Nat)
<1> DEFINE n == (Len(s) + 1) \div 2
<1>1. Len(s) \in Nat /\ \A i \in 1..Len(s) : s[i] \in Nat
  OBVIOUS
<1>2. n \in Nat /\ 2 * n <= Len(s) + 1
  BY <1>1
<1>3. ASSUME NEW i \in 1..n
      PROVE  s[2 * i - 1] + (IF 2 * i <= Len(s) THEN 256 * s[2 * i] ELSE 0) \in Nat
  <2> HIDE DEF n
  <2>1. 2 * i - 1 \in 1..Len(s) /\ (2 * i <= Len(s) => 2 * i \in 1..Len(s))
    BY <1>1, <1>2
  <2>2. s[2 * i - 1] \in Nat /\ (2 * i <= Len(s) => s[2 * i] \in Nat)
    BY <1>1, <2>1
  <2> QED BY <2>2
<1>4. Units(s) \in [1..n -> Nat]
  BY <1>3 DEF Units
<1> HIDE DEF n
<1> QED BY <1>2, <1>4, IsSeq

\* Bytes of a stream.
LEMMA BytesType ==
  ASSUME NEW from \in Nat, NEW n \in Nat, b \in Seq(Byte), from + n <= Len(b)
  PROVE  Bytes(from, n) \in Seq(Nat) /\ Len(Bytes(from, n)) = n
<1>1. Len(b) \in Nat /\ \A i \in 1..Len(b) : b[i] \in Byte
  OBVIOUS
<1>2. Byte \subseteq Nat
  BY DEF Byte
<1>3. PICK m \in Nat : m = Len(b)
  BY <1>1
<1>4. ASSUME NEW i \in (from + 1)..(from + n) PROVE b[i] \in Nat
  <2>1. i \in 1..m
    BY <1>3
  <2> QED BY <1>1, <1>2, <1>3, <2>1
<1>5. from + 1 \in Int /\ from + n \in Int
  OBVIOUS
<1>6. /\ SubSeq(b, from + 1, from + n) \in Seq(Nat)
      /\ Len(SubSeq(b, from + 1, from + n))
           = IF from + 1 <= from + n THEN from + n - (from + 1) + 1 ELSE 0
  BY <1>4, <1>5, SubSeqProperties
<1>7. (IF from + 1 <= from + n THEN from + n - (from + 1) + 1 ELSE 0) = n
  OBVIOUS
<1> QED BY <1>6, <1>7 DEF Bytes

-----------------------------------------------------------------------------
(* The inductive invariant.                                                *)

Kept == {"languages", "files", "registries", "dataEntries"}
Reading == pc \in {"record", "field"}
current == Phases[phase]

Typed ==
  /\ TypeOK
  /\ installer \in Installers /\ headerLimit \in HeaderLimits
  /\ b \in Seq(Byte) /\ todo \in Layouts
  /\ got \in [Names -> Seq(Nat)] /\ header \in [Names -> Seq(Nat)]
  /\ DOMAIN records = Kept /\ \A p \in Kept : \E T : records[p] \in Seq(T)
  /\ pc = "field" => left > 0

\* Nothing is kept of a kind before its turn comes.
InTurn ==
  /\ pc \in {"locate", "version", "encryption"} => phase = 1
  /\ pc = "block" => phase \in {1, 17}
  /\ pc # "done" =>
       \A k \in DOMAIN Phases :
         Phases[k] \in Kept /\ (k > phase \/ (k = phase /\ ~Reading)) => records[Phases[k]] = <<>>

\* The records that are built, and what is read of the next one, lie before
\* the cursor in a stream the limit bounds.
Paid ==
  /\ Reading => Len(b) <= limit
  /\ pc = "record" /\ current \in Kept =>
       Len(records[current]) * SmallestRecord(current) <= pos
  /\ pc = "field" /\ current \in Kept =>
       (Len(records[current]) + 1) * SmallestRecord(current) <= pos + Weight(todo)

PInv == Typed /\ InTurn /\ Paid /\ RecordsAreBacked

LEMMA PhaseFacts ==
  /\ DOMAIN Phases = 1..17
  /\ Phases[1] = "header" /\ Phases[16] = "wizard" /\ Phases[17] = "dataEntries"
  /\ \A k \in 1..17 : (Phases[k] = "wizard" => k = 16) /\ (Phases[k] = "dataEntries" => k = 17)
  /\ "header" \notin Kept /\ "wizard" \notin Kept
<1>1. DOMAIN Phases = 1..17
  BY DEF Phases
<1>2. Phases[1] = "header" /\ Phases[16] = "wizard" /\ Phases[17] = "dataEntries"
  BY DEF Phases
<1>3. \A k \in 1..17 : (Phases[k] = "wizard" => k = 16) /\ (Phases[k] = "dataEntries" => k = 17)
  BY DEF Phases
<1> QED BY <1>1, <1>2, <1>3 DEF Kept

\* The size of the smallest record of a kind that is kept depends on the
\* version alone.
LEMMA SmallestType ==
  ASSUME NEW p \in Kept
  PROVE  /\ SmallestRecord(p) \in Nat
         /\ \A v, g, h : Layout(v, g, p) = Layout(v, h, p)
<1>1. ASSUME NEW v, NEW h
      PROVE  Layout(v, h, p) = CASE p = "languages"   -> LanguageFields(v)
                                 [] p = "files"       -> FileFields(v)
                                 [] p = "registries"  -> RegistryFields
                                 [] p = "dataEntries" -> DataFields(v)
  BY DEF Layout, Kept
<1>2. \A v, h : Layout(v, h, p) \in Layouts
  BY <1>1, KeptLayouts, SmallLayouts DEF Kept
<1>3. \A s \in Layouts : Weight(s) \in Nat
  BY SizesType
<1>4. SmallestRecord(p) \in Nat
  BY <1>2, <1>3 DEF SmallestRecord
<1>5. \A v, g, h : Layout(v, g, p) = Layout(v, h, p)
  BY <1>1
<1> QED BY <1>4, <1>5

LEMMA SmallestSame ==
  ASSUME version' = version
  PROVE  \A p \in Kept : SmallestRecord(p)' = SmallestRecord(p)
<1> TAKE p \in Kept
<1>1. \A v, g, h : Layout(v, g, p) = Layout(v, h, p)
  BY SmallestType
<1>2. Layout(version', header', p) = Layout(version, header, p)
  BY <1>1
<1> QED BY <1>2 DEF SmallestRecord

\* A step that keeps no record.
LEMMA BackedStays ==
  ASSUME Typed, RecordsAreBacked, UNCHANGED <<args, version, records>>
  PROVE  RecordsAreBacked'
<1>1. DOMAIN records = Kept
  BY DEF Typed
<1>2. \A p \in Kept : SmallestRecord(p)' = SmallestRecord(p)
  BY SmallestSame
<1>3. limit' = limit
  BY DEF limit, args
<1>4. records' = records
  OBVIOUS
<1>5. \A p \in Kept : Len(records[p]) > 0 => Len(records[p]) * SmallestRecord(p) <= limit
  BY <1>1 DEF RecordsAreBacked
<1>6. \A p \in Kept : Len(records'[p]) > 0 => Len(records'[p]) * SmallestRecord(p)' <= limit'
  BY <1>2, <1>3, <1>4, <1>5
<1> QED BY <1>1, <1>4, <1>6 DEF RecordsAreBacked

LEMMA FailKeeps ==
  ASSUME PInv, NEW e \in Errs, Fail(e)
  PROVE  PInv'
<1>1. RecordsAreBacked'
  BY BackedStays DEF PInv, Fail, args, places, kept
<1>2. Typed'
  BY DEF PInv, Typed, TypeOK, Fail, args, places, cursor, loop, kept, Errs
<1>3. InTurn' /\ Paid'
  BY DEF PInv, InTurn, Paid, Fail, Reading
<1> QED BY <1>1, <1>2, <1>3 DEF PInv

LEMMA ByteSeq ==
  ASSUME NEW s \in Seq(Byte)
  PROVE  Len(s) \in Nat /\ DOMAIN s = 1..Len(s) /\ \A i \in DOMAIN s : s[i] \in Byte
OBVIOUS

LEMMA InitKeeps == Init => PInv
<1> SUFFICES ASSUME Init PROVE PInv
  OBVIOUS
<1>1. /\ pc = "locate" /\ err = "none" /\ phase = 1 /\ left = 0 /\ pos = 0 /\ b = <<>>
      /\ position = 0 /\ outerEncrypted = FALSE /\ todo = <<>> /\ got = NoFields /\ header = NoFields
      /\ installer \in Installers /\ headerLimit \in HeaderLimits
  BY DEF Init
<1>2. DOMAIN records = Kept /\ \A p \in Kept : records[p] = <<>>
  BY DEF Init, Kept
<1>3. NoFields \in [Names -> Seq(Nat)]
  BY DEF NoFields
<1>4. b \in Seq(Byte) /\ Len(b) = 0 /\ todo \in Layouts
  BY <1>1 DEF Layouts
<1>5. TypeOK
  <2>1. pos \in 0..Len(b) /\ \A i \in DOMAIN b : b[i] \in Byte
    BY <1>1, <1>4, ByteSeq
  <2>2. 1 \in DOMAIN Phases
    BY PhaseFacts
  <2> QED BY <1>1, <1>3, <2>1, <2>2 DEF TypeOK
<1>6. \A p \in Kept : records[p] \in Seq({}) /\ Len(records[p]) = 0
  <2>1. <<>> \in Seq({}) /\ Len(<<>>) = 0
    OBVIOUS
  <2> QED BY <1>2, <2>1
<1>7. Typed
  BY <1>1, <1>2, <1>3, <1>4, <1>5, <1>6 DEF Typed
<1>8. InTurn /\ Paid
  BY <1>1, <1>2 DEF InTurn, Paid, Reading
<1>9. RecordsAreBacked
  BY <1>2, <1>6 DEF RecordsAreBacked
<1> QED BY <1>7, <1>8, <1>9 DEF PInv

-----------------------------------------------------------------------------
(* The steps before the streams.                                           *)

LEMMA FindSetupKeeps == PInv /\ FindSetup => PInv'
<1> SUFFICES ASSUME PInv, FindSetup PROVE PInv'
  OBVIOUS
<1> DEFINE found == Locate(file)
<1>1. installer \in Installers
  BY DEF PInv, Typed
<1>2. WellTyped(file)
  BY <1>1, SetupAssumption DEF file
<1>3. found.err \in Errs /\ (found.err = "none" => found.offsets.header \in Nat)
  BY <1>2, LocateType
<1> HIDE DEF found
<1>4. CASE Fail(found.err)
  BY <1>3, <1>4, FailKeeps
<1>5. CASE found.err = "none" /\ pc' = "version" /\ position' = found.offsets.header
           /\ UNCHANGED <<args, err, version, outerEncrypted, cursor, loop, kept>>
  <2>1. RecordsAreBacked'
    BY <1>5, BackedStays DEF PInv, kept
  <2>2. pc = "locate"
    BY DEF FindSetup
  <2>3. Typed'
    BY <1>3, <1>5, <2>2 DEF PInv, Typed, TypeOK, args, cursor, loop, kept
  <2>4. InTurn' /\ Paid'
    BY <1>5, <2>2 DEF PInv, InTurn, Paid, Reading, loop, kept
  <2> QED BY <2>1, <2>3, <2>4 DEF PInv
<1> QED BY <1>4, <1>5 DEF FindSetup, found

LEMMA ReadVersionKeeps == PInv /\ ReadVersion => PInv'
<1> SUFFICES ASSUME PInv, ReadVersion PROVE PInv'
  OBVIOUS
<1>1. VersionError \in Errs
  BY DEF VersionError, Errs
<1>2. CASE Fail(VersionError)
  BY <1>1, <1>2, FailKeeps
<1>3. CASE VersionError = "none" /\ position' = position + 64 /\ pc' \in {"encryption", "block"}
           /\ UNCHANGED <<args, err, offsets, outerEncrypted, cursor, loop, kept>>
  <2>1. pc = "version"
    BY DEF ReadVersion
  <2>2. Typed'
    BY <1>3, <2>1 DEF PInv, Typed, TypeOK, args, cursor, loop, kept
  <2>3. phase = 1
    BY <2>1 DEF PInv, InTurn
  <2>4. InTurn' /\ Paid'
    BY <1>3, <2>1, <2>3 DEF PInv, InTurn, Paid, Reading, loop, kept
  <2>5. \A p \in Kept : records[p] = <<>>
    <3>1. \A p \in Kept : \E k \in 2..17 : p = Phases[k]
      <4>1. Phases[2] = "languages" /\ Phases[10] = "files" /\ Phases[13] = "registries"
            /\ Phases[17] = "dataEntries"
        BY DEF Phases
      <4> QED BY <4>1 DEF Kept
    <3>2. \A k \in 2..17 : Phases[k] \in Kept => records[Phases[k]] = <<>>
      <4>1. \A k \in 2..17 : k \in DOMAIN Phases /\ k > phase
        BY <2>3, PhaseFacts
      <4> QED BY <2>1, <4>1 DEF PInv, InTurn
    <3> QED BY <3>1, <3>2
  <2>6. DOMAIN records' = Kept /\ \A p \in Kept : Len(records'[p]) = 0
    <3>1. records' = records /\ DOMAIN records = Kept
      BY <1>3 DEF PInv, Typed, kept
    <3>2. Len(<<>>) = 0
      OBVIOUS
    <3> QED BY <2>5, <3>1, <3>2
  <2>7. RecordsAreBacked'
    BY <2>6 DEF RecordsAreBacked
  <2> QED BY <2>2, <2>4, <2>7 DEF PInv
<1> QED BY <1>2, <1>3 DEF ReadVersion

LEMMA ReadEncryptionKeeps == PInv /\ ReadEncryptionHeader => PInv'
<1> SUFFICES ASSUME PInv, ReadEncryptionHeader PROVE PInv'
  OBVIOUS
<1>1. EncryptionError \in Errs
  BY DEF EncryptionError, Errs
<1>2. CASE Fail(EncryptionError)
  BY <1>1, <1>2, FailKeeps
<1>3. CASE EncryptionError = "none" /\ position' = position + 53 /\ pc' = "block"
           /\ outerEncrypted' = Object(file, position).encrypted
           /\ UNCHANGED <<args, err, offsets, version, cursor, loop, kept>>
  <2>1. pc = "encryption"
    BY DEF ReadEncryptionHeader
  <2>2. WellTyped(file)
    BY SetupAssumption DEF file, PInv, Typed
  <2>3. outerEncrypted' \in BOOLEAN
    <3>1. Object(file, position).kind = "encryption"
      BY <1>3 DEF EncryptionError, Is
    <3> QED BY <1>3, <2>2, <3>1 DEF WellTyped, Object
  <2>4. Typed'
    BY <1>3, <2>1, <2>3 DEF PInv, Typed, TypeOK, args, cursor, loop, kept
  <2>5. InTurn' /\ Paid'
    BY <1>3, <2>1 DEF PInv, InTurn, Paid, Reading, loop, kept
  <2>6. RecordsAreBacked'
    BY <1>3, BackedStays DEF PInv, kept
  <2> QED BY <2>4, <2>5, <2>6 DEF PInv
<1> QED BY <1>2, <1>3 DEF ReadEncryptionHeader

-----------------------------------------------------------------------------
(* The steps in a stream.                                                  *)

LEMMA ReadBlockKeeps == PInv /\ ReadBlock => PInv'
<1> SUFFICES ASSUME PInv, ReadBlock PROVE PInv'
  OBVIOUS
<1> DEFINE block == Object(file, position)
<1>1. BlockError \in Errs
  BY DEF BlockError, UnwrapError, DecodeError, Errs
<1>2. CASE Fail(BlockError)
  BY <1>1, <1>2, FailKeeps
<1>3. CASE BlockError = "none" /\ b' = block.content /\ pos' = 0 /\ position' = Following(block)
           /\ left' = Times(header, Phases[phase]) /\ pc' = "record"
           /\ UNCHANGED <<args, err, offsets, version, outerEncrypted, phase, todo, got, kept>>
  <2>1. pc = "block" /\ phase \in DOMAIN Phases /\ position \in Nat
    BY DEF ReadBlock, PInv, Typed, TypeOK
  <2>2. WellTyped(file)
    BY SetupAssumption DEF file, PInv, Typed
  <2>3. block.kind = "block" /\ DecodeError(block) = "none"
    BY <1>3 DEF BlockError
  <2>4. block.stored \in Nat /\ block.content \in Seq(Byte)
    BY <2>2, <2>3 DEF WellTyped, Object
  <2>5. Len(block.content) <= limit
    <3>1. ~(Len(block.content) > limit)
      BY <2>3 DEF DecodeError
    <3>2. limit \in Nat /\ Len(block.content) \in Nat
      BY <2>4, ByteSeq, LimitType DEF PInv, Typed
    <3> QED BY <3>1, <3>2
  <2>6. left' \in Nat
    BY <1>3, <2>1, TimesType DEF PInv, Typed
  <2>7. position' \in Nat
    BY <1>3, <2>1, <2>4 DEF Following, BlockHeader
  <2>8. b' \in Seq(Byte) /\ Len(b') \in Nat /\ \A i \in DOMAIN b' : b'[i] \in Byte
    BY <1>3, <2>4, ByteSeq
  <2> HIDE DEF block
  <2>9. Typed'
    <3>1. TypeOK'
      BY <1>3, <2>1, <2>6, <2>7, <2>8 DEF PInv, Typed, TypeOK, args, kept
    <3> QED BY <1>3, <2>1, <2>8, <3>1 DEF PInv, Typed, args, kept
  <2>10. InTurn'
    BY <1>3, <2>1 DEF PInv, InTurn, Reading, kept
  <2>11. Paid'
    <3>1. Len(b') <= limit'
      BY <1>3, <2>5 DEF limit, args
    <3>2. ASSUME current \in Kept PROVE Len(records[current]) * SmallestRecord(current)' <= 0
      <4>1. records[current] = <<>>
        BY <2>1, <3>2 DEF PInv, InTurn, Reading, current
      <4>2. SmallestRecord(current)' \in Nat
        <5>1. version' = version
          BY <1>3
        <5>2. \A p \in Kept : SmallestRecord(p) \in Nat /\ SmallestRecord(p)' = SmallestRecord(p)
          BY <5>1, SmallestSame, SmallestType
        <5>3. current' = current
          BY <1>3 DEF current
        <5> QED BY <3>2, <5>2, <5>3
      <4>3. Len(<<>>) = 0
        OBVIOUS
      <4> QED BY <4>1, <4>2, <4>3
    <3>3. records' = records /\ current' = current
      BY <1>3 DEF kept, current
    <3> QED BY <1>3, <3>1, <3>2, <3>3 DEF Paid, Reading
  <2>12. RecordsAreBacked'
    BY <1>3, BackedStays DEF PInv, kept
  <2> QED BY <2>9, <2>10, <2>11, <2>12 DEF PInv
<1> QED BY <1>2, <1>3 DEF ReadBlock

LEMMA StartRecordKeeps == PInv /\ StartRecord => PInv'
<1> SUFFICES ASSUME PInv, StartRecord PROVE PInv'
  OBVIOUS
<1>1. /\ pc = "record" /\ left > 0 /\ pc' = "field" /\ got' = NoFields
      /\ todo' = Layout(version, header, current)
      /\ UNCHANGED <<args, err, places, cursor, phase, left, kept>>
  BY DEF StartRecord, current
<1>2. phase \in DOMAIN Phases
  BY DEF PInv, Typed, TypeOK
<1>3. todo' \in Layouts
  BY <1>1, <1>2, LayoutType DEF current
<1>4. got' \in [Names -> Seq(Nat)] /\ DOMAIN got' = Names
  BY <1>1 DEF NoFields
<1>5. Typed'
  BY <1>1, <1>3, <1>4 DEF PInv, Typed, TypeOK, args, places, cursor, kept
<1>6. InTurn'
  BY <1>1 DEF PInv, InTurn, Reading, kept
<1>7. Paid'
  <2>1. Len(b') <= limit'
    BY <1>1 DEF PInv, Paid, Reading, limit, args, cursor
  <2>2. ASSUME current \in Kept
        PROVE  (Len(records[current]) + 1) * SmallestRecord(current) <= pos + Weight(todo')
    <3>1. Weight(todo') = SmallestRecord(current)
      BY <1>1 DEF SmallestRecord
    <3>2. Len(records[current]) * SmallestRecord(current) <= pos
      BY <1>1, <2>2 DEF PInv, Paid
    <3>3. \E T : records[current] \in Seq(T)
      BY <2>2 DEF PInv, Typed
    <3>4. PICK n \in Nat : n = Len(records[current])
      BY <3>3
    <3>5. PICK s \in Nat : s = SmallestRecord(current)
      BY <2>2, SmallestType
    <3>6. PICK q \in Nat : q = pos
      BY DEF PInv, Typed, TypeOK
    <3>7. n * s <= q
      BY <3>2, <3>4, <3>5, <3>6
    <3>8. (n + 1) * s = n * s + s
      OBVIOUS
    <3>9. n * s \in Nat
      OBVIOUS
    <3>10. (n + 1) * s <= q + s
      BY <3>7, <3>8, <3>9
    <3> QED BY <3>1, <3>4, <3>5, <3>6, <3>10
  <2>3. /\ records' = records /\ current' = current /\ pos' = pos
        /\ \A p \in Kept : SmallestRecord(p)' = SmallestRecord(p)
    <3>1. version' = version
      BY <1>1 DEF places
    <3> QED BY <1>1, <3>1, SmallestSame DEF kept, current, cursor
  <2>4. current \in Kept => SmallestRecord(current)' = SmallestRecord(current)
    <3>1. SmallestRecord(current)' = Weight(Layout(version', header', current'))
      BY DEF SmallestRecord
    <3>2. version' = version /\ header' = header
      BY <1>1 DEF places, kept
    <3> QED BY <2>3, <3>1, <3>2 DEF SmallestRecord
  <2> QED BY <1>1, <2>1, <2>2, <2>3, <2>4 DEF Paid, Reading
<1>8. RecordsAreBacked'
  BY <1>1, BackedStays DEF PInv, kept, places
<1> QED BY <1>5, <1>6, <1>7, <1>8 DEF PInv

LEMMA CursorFacts ==
  ASSUME PInv
  PROVE  pos \in Nat /\ Len(b) \in Nat /\ pos <= Len(b)
<1>1. b \in Seq(Byte) /\ pos \in 0..Len(b)
  BY DEF PInv, Typed, TypeOK
<1>2. Len(b) \in Nat
  BY <1>1, ByteSeq
<1> QED BY <1>1, <1>2

\* Reading a field of a record: the cursor goes on inside the stream, by as
\* much as the fields that are left lose at least.
LEMMA FieldKeeps ==
  ASSUME PInv, pc = "field", NEW n \in Nat, pos + n <= Len(b), pos' = pos + n,
         b' \in Seq(Byte), Len(b') = Len(b), got' \in [Names -> Seq(Nat)], todo' \in Layouts,
         Weight(todo) <= Weight(todo') + n,
         UNCHANGED <<args, pc, err, places, phase, left, kept>>
  PROVE  PInv'
<1>1. pos' \in 0..Len(b') /\ \A i \in DOMAIN b' : b'[i] \in Byte
  <2>1. PICK q, m \in Nat : q = pos /\ m = Len(b)
    BY CursorFacts
  <2>2. q + n \in 0..m
    BY <2>1
  <2> QED BY <2>1, <2>2, ByteSeq
<1>2. Typed'
  BY <1>1 DEF PInv, Typed, TypeOK, args, places, kept
<1>3. InTurn'
  BY DEF PInv, InTurn, Reading, kept
<1>4. Paid'
  <2>1. Len(b') <= limit'
    BY DEF PInv, Paid, Reading, limit, args
  <2>2. ASSUME current \in Kept
        PROVE  (Len(records[current]) + 1) * SmallestRecord(current) <= pos' + Weight(todo')
    <3>1. (Len(records[current]) + 1) * SmallestRecord(current) <= pos + Weight(todo)
      BY <2>2 DEF PInv, Paid
    <3>2. \E T : records[current] \in Seq(T)
      BY <2>2 DEF PInv, Typed
    <3>3. Len(records[current]) \in Nat
      BY <3>2
    <3>4. PICK r \in Nat : r = (Len(records[current]) + 1) * SmallestRecord(current)
      BY <2>2, <3>3, SmallestType
    <3>5. PICK q, w, z \in Nat : q = pos /\ w = Weight(todo) /\ z = Weight(todo')
      <4>1. Weight(todo) \in Nat
        BY SizesType DEF PInv, Typed
      <4>2. Weight(todo') \in Nat
        BY SizesType
      <4> QED BY <4>1, <4>2, CursorFacts
    <3>6. r <= q + w /\ w <= z + n
      BY <3>1, <3>4, <3>5
    <3>7. r <= (q + n) + z
      BY <3>6
    <3> QED BY <3>4, <3>5, <3>7
  <2>3. records' = records /\ current' = current
    BY DEF kept, current
  <2>4. current \in Kept => SmallestRecord(current)' = SmallestRecord(current)
    <3>1. SmallestRecord(current)' = Weight(Layout(version', header', current'))
      BY DEF SmallestRecord
    <3>2. version' = version /\ header' = header
      BY DEF places, kept
    <3> QED BY <2>3, <3>1, <3>2 DEF SmallestRecord
  <2> QED BY <2>1, <2>2, <2>3, <2>4 DEF Paid, Reading
<1>5. RecordsAreBacked'
  BY BackedStays DEF PInv, kept, places
<1> QED BY <1>2, <1>3, <1>4, <1>5 DEF PInv

\* The field in front of the cursor.
LEMMA FrontFacts ==
  ASSUME PInv, pc = "field", todo # <<>>
  PROVE  /\ field \in Field /\ Tail(todo) \in Layouts
         /\ FieldSize(field) \in Nat /\ Weight(Tail(todo)) \in Nat
         /\ Weight(todo) = FieldSize(field) + Weight(Tail(todo))
         /\ pos \in Nat /\ Len(b) \in Nat /\ pos <= Len(b)
<1>1. todo \in Layouts
  BY DEF PInv, Typed
<1> QED BY <1>1, WeightFirst, CursorFacts DEF field

LEMMA RejectFieldKeeps == PInv /\ RejectField => PInv'
<1> SUFFICES ASSUME PInv, RejectField PROVE PInv'
  OBVIOUS
<1>1. FieldError \in Errs
  BY DEF FieldError, Errs
<1> QED BY <1>1, FailKeeps DEF RejectField

LEMMA ReadFieldKeeps == PInv /\ ReadField => PInv'
<1> SUFFICES ASSUME PInv, ReadField PROVE PInv'
  OBVIOUS
<1> DEFINE n == Len(MustValue)
<1>1. /\ pc = "field" /\ todo # <<>> /\ FieldError = "none" /\ field.kind \in {"fixed", "must"}
      /\ Take(n, MustValue) /\ todo' = Tail(todo) /\ b' = b
  BY DEF ReadField
<1>2. /\ field.size \in Nat /\ field.name \in Names
      /\ FieldSize(field) = IF field.kind = "fixed" THEN field.size ELSE 0
  BY <1>1, FrontFacts DEF Field, FieldSize
<1>3. PICK q, m \in Nat : q = pos /\ m = Len(b) /\ q <= m
  BY <1>1, FrontFacts
<1>4. remaining = m - q
  BY <1>3 DEF remaining
<1>5. field.kind = "fixed" => ~(field.size > remaining)
  BY <1>1 DEF FieldError, IsString
<1>6. /\ n \in Nat /\ q + n <= m /\ MustValue \in Seq(Nat)
      /\ FieldSize(field) <= n
  <2>1. CASE remaining < field.size
    <3>1. MustValue = <<>> /\ <<>> \in Seq(Nat) /\ Len(<<>>) = 0
      BY <2>1 DEF MustValue
    <3>2. field.kind = "must"
      BY <1>1, <1>2, <1>4, <1>5, <2>1
    <3>3. n = 0 /\ FieldSize(field) = 0
      BY <1>2, <3>1, <3>2
    <3> QED BY <1>3, <3>1, <3>3
  <2>2. CASE ~(remaining < field.size)
    <3>1. q + field.size <= m
      BY <1>2, <1>4, <2>2
    <3>2. MustValue = Bytes(pos, field.size)
      BY <2>2 DEF MustValue
    <3>3. b \in Seq(Byte)
      BY DEF PInv, Typed
    <3>4. MustValue \in Seq(Nat) /\ n = field.size
      BY <1>2, <1>3, <3>1, <3>2, <3>3, BytesType
    <3> QED BY <1>2, <3>1, <3>4
  <2> QED BY <2>1, <2>2
<1> HIDE DEF n
<1>7. got' \in [Names -> Seq(Nat)]
  BY <1>1, <1>2, <1>6 DEF PInv, Typed, Take
<1>8. /\ pos' = pos + n /\ UNCHANGED <<args, pc, err, places, phase, left, kept>>
      /\ b' \in Seq(Byte) /\ Len(b') = Len(b) /\ todo' \in Layouts
  BY <1>1, FrontFacts DEF PInv, Typed, Take
<1>9. Weight(todo) <= Weight(todo') + n
  <2>1. PICK u, w \in Nat : u = FieldSize(field) /\ w = Weight(Tail(todo)) /\ Weight(todo) = u + w
    BY <1>1, FrontFacts
  <2>2. u + w <= w + n
    BY <1>6, <2>1
  <2> QED BY <1>1, <2>1, <2>2
<1>10. pos + n <= Len(b)
  BY <1>3, <1>6
<1> QED BY <1>1, <1>6, <1>7, <1>8, <1>9, <1>10, FieldKeeps

\* What a length in front of the cursor says.
LEMMA LengthFacts ==
  ASSUME PInv, pc = "field", todo # <<>>, FieldError = "none",
         IsString(field) \/ field.kind = "group"
  PROVE  /\ Length \in Nat /\ pos + 4 <= Len(b)
         /\ IsString(field) => pos + (4 + Length) <= Len(b)
<1>1. PICK q, m \in Nat : q = pos /\ m = Len(b) /\ q <= m
  BY FrontFacts
<1>2. remaining = m - q
  BY <1>1 DEF remaining
<1>3. ~(remaining < 4) /\ (IsString(field) => ~(Length > remaining - 4))
  BY DEF FieldError
<1>4. q + 4 <= m
  BY <1>2, <1>3
<1>5. b \in Seq(Byte)
  BY DEF PInv, Typed
<1>6. Length \in Nat
  <2>1. Bytes(pos, 4) \in Seq(Nat)
    BY <1>1, <1>4, <1>5, BytesType
  <2> QED BY <2>1, NumberType DEF Length
<1>7. IsString(field) => q + (4 + Length) <= m
  BY <1>2, <1>3, <1>6
<1> QED BY <1>1, <1>4, <1>6, <1>7

LEMMA ReadStringKeeps == PInv /\ ReadString => PInv'
<1> SUFFICES ASSUME PInv, ReadString PROVE PInv'
  OBVIOUS
<1> DEFINE n == 4 + Length
           text == Bytes(pos + 4, Length)
           next == pos + 4 + Length
           value == IF field.kind = "utf16" THEN Units(text) ELSE text
<1>1. /\ pc = "field" /\ todo # <<>> /\ FieldError = "none" /\ IsString(field)
      /\ Take(n, value)
      /\ b' = IF field.kind = "utf16" /\ Length % 2 = 1 /\ next < Len(b)
              THEN [b EXCEPT ![next + 1] = 0] ELSE b
      /\ todo' = IF field.kind = "strings" /\ field.size > 1
                 THEN Strings(field.size - 1) \o Tail(todo) ELSE Tail(todo)
  BY DEF ReadString
<1>2. Length \in Nat /\ pos + n <= Len(b) /\ pos \in Nat /\ Len(b) \in Nat /\ b \in Seq(Byte)
  BY <1>1, LengthFacts, CursorFacts DEF PInv, Typed
<1>3. n \in Nat /\ n >= 4 /\ next \in Nat
  BY <1>2
<1>4. value \in Seq(Nat)
  <2>1. pos + 4 \in Nat /\ (pos + 4) + Length <= Len(b)
    <3>1. PICK q, m, k \in Nat : q = pos /\ m = Len(b) /\ k = Length
      BY <1>2
    <3>2. q + (4 + k) <= m
      BY <1>2, <3>1
    <3>3. q + 4 \in Nat /\ (q + 4) + k <= m
      BY <3>2
    <3> QED BY <3>1, <3>3
  <2>2. text \in Seq(Nat)
    BY <1>2, <2>1, BytesType
  <2> HIDE DEF text
  <2> QED BY <2>2, UnitsType
<1>5. b' \in Seq(Byte) /\ Len(b') = Len(b)
  <2>1. CASE b' = b
    BY <1>2, <2>1
  <2>2. CASE b' = [b EXCEPT ![next + 1] = 0]
    <3>1. 0 \in Byte
      BY DEF Byte
    <3>2. b \in [1..Len(b) -> Byte]
      BY <1>2
    <3>3. b' \in [1..Len(b) -> Byte]
      <4> HIDE DEF next
      <4> QED BY <2>2, <3>1, <3>2
    <3> QED BY <1>2, <3>3
  <2> QED BY <1>1, <2>1, <2>2
<1> HIDE DEF n, value, next
<1>6. field \in Field /\ Tail(todo) \in Layouts
  BY <1>1, FrontFacts
<1>7. got' \in [Names -> Seq(Nat)]
  BY <1>1, <1>4, <1>6 DEF PInv, Typed, Take, Field
<1>8. pos' = pos + n /\ UNCHANGED <<args, pc, err, places, phase, left, kept>>
  BY <1>1 DEF Take
<1>9. /\ todo' \in Layouts /\ Weight(todo) <= Weight(todo') + n
  <2>1. PICK w \in Nat : w = Weight(Tail(todo)) /\ Weight(todo) = FieldSize(field) + w
    BY <1>1, FrontFacts
  <2>2. CASE field.kind = "strings" /\ field.size > 1
    <3>1. field.size \in Nat /\ FieldSize(field) = 4 * field.size
      BY <1>6, <2>2 DEF Field, FieldSize
    <3>2. PICK k \in Nat : k = field.size - 1
      BY <2>2, <3>1
    <3>3. todo' = Strings(k) \o Tail(todo)
      BY <1>1, <2>2, <3>2
    <3>4. todo' \in Layouts /\ Weight(todo') = 4 * k + w
      BY <1>6, <2>1, <3>3, WeightOfStrings
    <3>5. FieldSize(field) = 4 * (k + 1)
      BY <3>1, <3>2
    <3>6. 4 * (k + 1) + w <= (4 * k + w) + n
      BY <1>3
    <3> QED BY <2>1, <3>4, <3>5, <3>6
  <2>3. CASE ~(field.kind = "strings" /\ field.size > 1)
    <3>1. todo' = Tail(todo)
      BY <1>1, <2>3
    <3>2. FieldSize(field) <= 4
      <4>1. field.size \in Nat
        BY <1>6 DEF Field
      <4> QED BY <1>1, <2>3, <4>1 DEF FieldSize, IsString
    <3>3. FieldSize(field) \in Nat
      BY <1>1, FrontFacts
    <3>4. FieldSize(field) + w <= w + n
      BY <1>3, <3>2, <3>3
    <3> QED BY <1>6, <2>1, <3>1, <3>4
  <2> QED BY <2>2, <2>3
<1>10. pos + n <= Len(b)
  BY <1>2 DEF n
<1> QED BY <1>1, <1>3, <1>5, <1>7, <1>8, <1>9, <1>10, FieldKeeps

LEMMA ReadGroupKeeps == PInv /\ ReadGroup => PInv'
<1> SUFFICES ASSUME PInv, ReadGroup PROVE PInv'
  OBVIOUS
<1>1. /\ pc = "field" /\ todo # <<>> /\ FieldError = "none" /\ field.kind = "group"
      /\ Take(4, <<>>) /\ b' = b
      /\ todo' = When(Length > 0, Strings(Length)) \o Tail(todo)
  BY DEF ReadGroup
<1>2. Length \in Nat /\ pos + 4 <= Len(b)
  BY <1>1, LengthFacts
<1>3. field \in Field /\ Tail(todo) \in Layouts
  BY <1>1, FrontFacts
<1>4. <<>> \in Seq(Nat)
  OBVIOUS
<1>5. got' \in [Names -> Seq(Nat)]
  BY <1>1, <1>3, <1>4 DEF PInv, Typed, Take, Field
<1>6. todo' \in Layouts /\ Weight(todo) <= Weight(todo') + 4
  <2>1. PICK w \in Nat : w = Weight(Tail(todo)) /\ Weight(todo) = FieldSize(field) + w
    BY <1>1, FrontFacts
  <2>2. FieldSize(field) = 4
    BY <1>1 DEF FieldSize
  <2>3. CASE Length > 0
    <3>1. todo' = Strings(Length) \o Tail(todo)
      BY <1>1, <2>3 DEF When
    <3>2. todo' \in Layouts /\ Weight(todo') = 4 * Length + w
      BY <1>2, <1>3, <2>1, <3>1, WeightOfStrings
    <3> QED BY <1>2, <2>1, <2>2, <3>2
  <2>4. CASE ~(Length > 0)
    <3>1. todo' = <<>> \o Tail(todo)
      BY <1>1, <2>4 DEF When
    <3>2. todo' = Tail(todo)
      BY <1>3, <3>1 DEF Layouts
    <3> QED BY <1>3, <2>1, <2>2, <3>2
  <2> QED BY <2>3, <2>4
<1>7. pos' = pos + 4 /\ UNCHANGED <<args, pc, err, places, phase, left, kept>>
  BY <1>1 DEF Take
<1>8. b' \in Seq(Byte) /\ Len(b') = Len(b) /\ 4 \in Nat
  BY <1>1 DEF PInv, Typed
<1> QED BY <1>1, <1>2, <1>5, <1>6, <1>7, <1>8, FieldKeeps

-----------------------------------------------------------------------------
(* The loop of Parse.                                                      *)

LEMMA EndRecordKeeps == PInv /\ EndRecord => PInv'
<1> SUFFICES ASSUME PInv, EndRecord PROVE PInv'
  OBVIOUS
<1>1. /\ pc = "field" /\ todo = <<>> /\ left' = left - 1 /\ pc' = "record"
      /\ header' = IF current = "header" THEN got ELSE header
      /\ records' = IF current \in DOMAIN records
                    THEN [records EXCEPT ![current] = Append(@, Record(current))] ELSE records
      /\ UNCHANGED <<args, err, places, cursor, phase, todo, got>>
  BY DEF EndRecord, current
<1>2. DOMAIN records = Kept /\ left > 0 /\ left \in Nat /\ phase \in DOMAIN Phases
  BY <1>1 DEF PInv, Typed, TypeOK
<1>3. header' \in [Names -> Seq(Nat)]
  BY <1>1 DEF PInv, Typed
<1>4. ASSUME NEW p \in Kept
      PROVE  /\ \E T : records'[p] \in Seq(T)
             /\ Len(records[p]) \in Nat
             /\ p # current => records'[p] = records[p]
             /\ p = current => Len(records'[p]) = Len(records[p]) + 1
  <2>1. PICK T : records[p] \in Seq(T)
    BY DEF PInv, Typed
  <2>2. CASE p # current
    <3>1. records'[p] = records[p]
      BY <1>1, <1>2, <2>2
    <3> QED BY <2>1, <2>2, <3>1
  <2>3. CASE p = current
    <3> DEFINE x == Record(current)
    <3>1. records'[p] = Append(records[p], x)
      BY <1>1, <1>2, <2>3
    <3> HIDE DEF x
    <3>2. records[p] \in Seq(T \cup {x}) /\ Len(records[p]) \in Nat
      <4>1. \A i \in 1..Len(records[p]) : records[p][i] \in T \cup {x}
        BY <2>1
      <4>2. records[p] \in [1..Len(records[p]) -> T \cup {x}] /\ Len(records[p]) \in Nat
        BY <2>1, <4>1
      <4> QED BY <4>2, IsSeq
    <3>3. Append(records[p], x) \in Seq(T \cup {x})
          /\ Len(Append(records[p], x)) = Len(records[p]) + 1
      BY <3>2, AppendProperties
    <3> QED BY <2>3, <3>1, <3>2, <3>3
  <2> QED BY <2>2, <2>3
<1>5. DOMAIN records' = Kept
  BY <1>1, <1>2
<1>6. Typed'
  <2>1. left' \in Nat
    BY <1>1, <1>2
  <2> QED BY <1>1, <1>3, <1>4, <1>5, <2>1 DEF PInv, Typed, TypeOK, args, places, cursor
<1>7. InTurn'
  <2>1. ASSUME NEW k \in DOMAIN Phases, Phases[k] \in Kept, k > phase PROVE records'[Phases[k]] = <<>>
    <3>1. records[Phases[k]] = <<>>
      BY <1>1, <2>1 DEF PInv, InTurn
    <3>2. CASE Phases[k] # current
      BY <1>4, <2>1, <3>1, <3>2
    <3>3. CASE Phases[k] = current
      <4>1. FALSE
        <5>1. k \in 1..17 /\ phase \in 1..17 /\ k # phase
          BY <1>2, <2>1, PhaseFacts
        <5> QED BY <3>3, <5>1 DEF current, Phases
      <4> QED BY <4>1
    <3> QED BY <3>2, <3>3
  <2> QED BY <1>1, <2>1 DEF PInv, InTurn, Reading
<1>8. \A p \in Kept : SmallestRecord(p)' = SmallestRecord(p)
  <2>1. version' = version
    BY <1>1 DEF places
  <2> QED BY <2>1, SmallestSame
<1>9. current \in Kept => Len(records'[current]) * SmallestRecord(current) <= pos
  <2> SUFFICES ASSUME current \in Kept
               PROVE  Len(records'[current]) * SmallestRecord(current) <= pos
    OBVIOUS
  <2>1. (Len(records[current]) + 1) * SmallestRecord(current) <= pos + Weight(todo)
    BY <1>1 DEF PInv, Paid
  <2>2. Weight(todo) = 0 /\ Len(records'[current]) = Len(records[current]) + 1 /\ pos \in Nat
    BY <1>1, <1>4, WeightOfNone, CursorFacts
  <2> QED BY <2>1, <2>2
<1>10. Paid'
  <2>1. Len(b') <= limit'
    BY <1>1 DEF PInv, Paid, Reading, limit, args, cursor
  <2>2. current' = current /\ pos' = pos
    BY <1>1 DEF current, cursor
  <2>3. current \in Kept => SmallestRecord(current)' = SmallestRecord(current)
    <3>1. SmallestRecord(current)' = Weight(Layout(version', header', current'))
      BY DEF SmallestRecord
    <3>2. version' = version
      BY <1>1 DEF places
    <3>3. current \in Kept => Layout(version, header', current) = Layout(version, header, current)
      BY SmallestType
    <3> QED BY <2>2, <3>1, <3>2, <3>3 DEF SmallestRecord
  <2> QED BY <1>1, <1>9, <2>1, <2>2, <2>3 DEF Paid, Reading
<1>11. RecordsAreBacked'
  <2>1. limit' = limit
    BY <1>1 DEF limit, args
  <2>2. ASSUME NEW p \in Kept, Len(records'[p]) > 0
        PROVE  Len(records'[p]) * SmallestRecord(p) <= limit
    <3>1. CASE p # current
      BY <1>2, <1>4, <2>2, <3>1 DEF PInv, RecordsAreBacked
    <3>2. CASE p = current
      <4>1. PICK q, m \in Nat : q = pos /\ m = Len(b) /\ q <= m
        BY CursorFacts
      <4>2. PICK l \in Nat : l = limit
        BY LimitType DEF PInv, Typed
      <4>3. m <= l
        BY <1>1, <4>1, <4>2 DEF PInv, Paid, Reading
      <4>4. PICK r \in Nat : r = Len(records'[p]) * SmallestRecord(p)
        <5>1. Len(records'[p]) \in Nat /\ SmallestRecord(p) \in Nat
          BY <1>4, <3>2, SmallestType
        <5> QED BY <5>1
      <4>5. r <= q
        BY <1>9, <3>2, <4>1, <4>4
      <4> QED BY <4>1, <4>2, <4>3, <4>4, <4>5
    <3> QED BY <3>1, <3>2
  <2>3. \A p \in Kept : Len(records'[p]) > 0 => Len(records'[p]) * SmallestRecord(p)' <= limit'
    BY <1>8, <2>1, <2>2
  <2> QED BY <1>5, <2>3 DEF RecordsAreBacked
<1> QED BY <1>6, <1>7, <1>10, <1>11 DEF PInv

LEMMA NextPhaseKeeps == PInv /\ NextPhase => PInv'
<1> SUFFICES ASSUME PInv, NextPhase PROVE PInv'
  OBVIOUS
<1>1. /\ pc = "record" /\ current \notin {"wizard", "dataEntries"} /\ phase' = phase + 1
      /\ left' = Times(header, Phases[phase + 1])
      /\ UNCHANGED <<args, pc, err, places, cursor, todo, got, kept>>
  BY DEF NextPhase, LastOfStream, current
<1>2. phase + 1 \in DOMAIN Phases /\ phase \in 1..17
  <2>1. phase \in 1..17
    BY PhaseFacts DEF PInv, Typed, TypeOK
  <2>2. phase # 17
    BY <1>1, PhaseFacts DEF current
  <2> QED BY <2>1, <2>2, PhaseFacts
<1>3. left' \in Nat
  BY <1>1, <1>2, TimesType DEF PInv, Typed
<1>4. Typed'
  BY <1>1, <1>2, <1>3 DEF PInv, Typed, TypeOK, args, places, cursor, kept
<1>5. InTurn'
  <2>1. \A k \in DOMAIN Phases : k > phase + 1 => k > phase
    BY <1>2, PhaseFacts
  <2> QED BY <1>1, <2>1 DEF PInv, InTurn, Reading, kept
<1>6. Paid'
  <2>1. Len(b') <= limit'
    BY <1>1 DEF PInv, Paid, Reading, limit, args, cursor
  <2>2. ASSUME current' \in Kept PROVE Len(records'[current']) * SmallestRecord(current)' <= pos'
    <3>1. records'[current'] = <<>>
      <4>1. phase + 1 > phase /\ current' = Phases[phase + 1]
        BY <1>1, <1>2 DEF current
      <4> QED BY <1>1, <1>2, <2>2, <4>1 DEF PInv, InTurn, kept
    <3>2. SmallestRecord(current)' \in Nat
      <4>1. \A p \in Kept : SmallestRecord(p)' \in Nat
        <5>1. version' = version
          BY <1>1 DEF places
        <5> QED BY <5>1, SmallestSame, SmallestType
      <4>2. SmallestRecord(current)' = Weight(Layout(version', header', current'))
        BY DEF SmallestRecord
      <4>3. \A p \in Kept : Weight(Layout(version', header', p)) \in Nat
        BY <4>1 DEF SmallestRecord
      <4> QED BY <2>2, <4>2, <4>3
    <3>3. Len(<<>>) = 0 /\ pos' \in Nat
      BY <1>1, CursorFacts DEF cursor
    <3> QED BY <3>1, <3>2, <3>3
  <2> QED BY <1>1, <2>1, <2>2 DEF Paid, Reading
<1>7. RecordsAreBacked'
  BY <1>1, BackedStays DEF PInv, kept, places
<1> QED BY <1>4, <1>5, <1>6, <1>7 DEF PInv

LEMMA EndStreamKeeps == PInv /\ EndStream => PInv'
<1> SUFFICES ASSUME PInv, EndStream PROVE PInv'
  OBVIOUS
<1>1. StreamError \in Errs
  BY DEF StreamError, Errs
<1>2. CASE Fail(StreamError)
  BY <1>1, <1>2, FailKeeps
<1>3. CASE /\ IF Phases[phase] = "wizard" THEN pc' = "block" /\ phase' = phase + 1
                                          ELSE pc' = "done" /\ UNCHANGED phase
           /\ UNCHANGED <<args, err, places, cursor, left, todo, got, kept>>
  <2>1. pc = "record" /\ phase \in 1..17
    BY PhaseFacts DEF EndStream, PInv, Typed, TypeOK
  <2>2. RecordsAreBacked'
    BY <1>3, BackedStays DEF PInv, kept, places
  <2>3. CASE Phases[phase] = "wizard"
    <3>1. phase = 16 /\ phase' = 17 /\ pc' = "block" /\ 17 \in DOMAIN Phases
      BY <1>3, <2>1, <2>3, PhaseFacts
    <3>2. Typed'
      BY <1>3, <3>1, <2>1 DEF PInv, Typed, TypeOK, args, places, cursor, kept
    <3>3. InTurn'
      <4>1. \A k \in DOMAIN Phases : (k > 17 \/ k = 17) => k > phase
        BY <3>1, PhaseFacts
      <4>2. records' = records
        BY <1>3 DEF kept
      <4> QED BY <2>1, <3>1, <4>1, <4>2 DEF PInv, InTurn, Reading
    <3>4. Paid'
      BY <3>1 DEF Paid, Reading
    <3> QED BY <2>2, <3>2, <3>3, <3>4 DEF PInv
  <2>4. CASE Phases[phase] # "wizard"
    <3>1. pc' = "done" /\ phase' = phase
      BY <1>3, <2>4
    <3>2. Typed'
      BY <1>3, <2>1, <3>1 DEF PInv, Typed, TypeOK, args, places, cursor, kept
    <3>3. InTurn' /\ Paid'
      BY <3>1 DEF InTurn, Paid, Reading
    <3> QED BY <2>2, <3>2, <3>3 DEF PInv
  <2> QED BY <2>3, <2>4
<1> QED BY <1>2, <1>3 DEF EndStream

LEMMA StepKeeps == PInv /\ [Next]_vars => PInv'
<1> SUFFICES ASSUME PInv, [Next]_vars PROVE PInv'
  OBVIOUS
<1>1. CASE UNCHANGED vars
  <2>1. RecordsAreBacked'
    BY <1>1, BackedStays DEF PInv, vars, kept, places
  <2> QED BY <1>1, <2>1
      DEF PInv, Typed, TypeOK, InTurn, Paid, Reading, current, limit, SmallestRecord,
          vars, args, places, cursor, loop, kept
<1>2. CASE Step
  BY <1>2, FindSetupKeeps, ReadVersionKeeps, ReadEncryptionKeeps, ReadBlockKeeps, StartRecordKeeps,
     RejectFieldKeeps, ReadFieldKeeps, ReadStringKeeps, ReadGroupKeeps, EndRecordKeeps,
     NextPhaseKeeps, EndStreamKeeps DEF Step
<1> QED BY <1>1, <1>2 DEF Next, Returned

-----------------------------------------------------------------------------
(* The theorems.                                                           *)

\* The cursor stays inside its stream and every loop counts down to 0,
\* whatever the streams say (cursor.read, stringRaw, mustReadCursor).
THEOREM CursorStays == Spec => []TypeOK
<1>1. PInv => TypeOK
  BY DEF PInv, Typed
<1> QED BY <1>1, InitKeeps, StepKeeps, PTL DEF Spec

\* However large a count in the header is, the records that are built have
\* taken their bytes from a stream the header limit bounds (the loops of Parse).
THEOREM RecordsTakeBytes == Spec => []RecordsAreBacked
<1>1. PInv => RecordsAreBacked
  BY DEF PInv
<1> QED BY <1>1, InitKeeps, StepKeeps, PTL DEF Spec

\* Where sections do not overlap, rvaToFile gives the file offset of any
\* section that maps the address.
THEOREM SectionsDecide == Spec => []AddressesAreUnambiguous
<1>1. PInv => AddressesAreUnambiguous
  <2> SUFFICES ASSUME PInv,
                      \A i, j \in DOMAIN Sections : i # j => Disjoint(Sections[i], Sections[j]),
                      NEW i \in DOMAIN Sections, NEW rva \in installer.addresses,
                      Maps(Sections[i], rva)
               PROVE  rvaToFile(Sections, rva) = fileOffset(Sections[i], rva)
    BY DEF AddressesAreUnambiguous
  <2>1. installer \in Installers
    BY DEF PInv, Typed
  <2>2. WellTyped(file) /\ rva \in Int
    BY <2>1, SetupAssumption DEF file
  <2>3. Sections \in Seq(Section)
    BY <2>2, SectionsType
  <2> QED BY <2>2, <2>3, LeastMaps
<1> QED BY <1>1, InitKeeps, StepKeeps, PTL DEF Spec

=============================================================================
