---------------------------- MODULE SetupLayout ----------------------------
(***************************************************************************)
(* The layout of the setup streams (internal/setup/setup.go), as the       *)
(* readers of the records walk it.  The layout of a record is a sequence   *)
(* of fields that depends on the version; fields between two that matter   *)
(* are one field of their common size.  Only 6.x data gets that far, so    *)
(* tests of older versions are decided.                                    *)
(***************************************************************************)
EXTENDS Integers, SequencesExt

-----------------------------------------------------------------------------
(* Versions <<major, minor, patch, revision>>.                              *)
Before(v, a, n, p, r) ==
  \/ v[1] < a
  \/ v[1] = a /\ v[2] < n
  \/ v[1] = a /\ v[2] = n /\ v[3] < p
  \/ v[1] = a /\ v[2] = n /\ v[3] = p /\ v[4] < r
AtLeast(v, n, p) == ~Before(v, 6, n, p, 0)
Colours(v) == Before(v, 6, 4, 0, 1)     \* background colours and window flags

\* Little-endian numbers, UTF-16 code units, single bits.
Number(bytes) ==
  LET last[n \in 0..Len(bytes)] ==      \* the number the last n bytes are
        IF n = 0 THEN 0 ELSE bytes[Len(bytes) - n + 1] + 256 * last[n - 1]
  IN  last[Len(bytes)]
Bit(bytes, k) == k \div 8 < Len(bytes) /\ (bytes[1 + k \div 8] \div 2 ^ (k % 8)) % 2 = 1
Units(s) == [i \in 1..(Len(s) + 1) \div 2 |->
              s[2 * i - 1] + IF 2 * i <= Len(s) THEN 256 * s[2 * i] ELSE 0]

-----------------------------------------------------------------------------
(* The layout of the records.                                               *)
Fixed(n, name) == <<[kind |-> "fixed", size |-> n, name |-> name]>>
Must(n, name)  == <<[kind |-> "must",  size |-> n, name |-> name]>>   \* mustReadCursor
Text(name)     == <<[kind |-> "utf16", size |-> 0, name |-> name]>>
Raw(name)      == <<[kind |-> "raw",   size |-> 0, name |-> name]>>
Skip(n)        == Fixed(n, "")
Strings(n)     == <<[kind |-> "strings", size |-> n, name |-> ""]>>
Group          == <<[kind |-> "group", size |-> 0, name |-> ""]>>
When(c, fields) == IF c THEN fields ELSE <<>>
If(c, n) == IF c THEN n ELSE 0

WindowsRange == Skip(20)
Condition == Strings(6)

CountNames == <<"languages", "messages", "permissions", "types", "components", "tasks", "directories",
                "issigKeys", "files", "dataEntries", "icons", "inis", "registries",
                "deletes", "uninstallDeletes", "runs", "uninstallRuns">>
Counts(v) == FlattenSeq([i \in DOMAIN CountNames |->
            When(CountNames[i] # "issigKeys" \/ AtLeast(v, 5, 0), Fixed(4, CountNames[i]))])

\* The flags every 6.x header has, and those that come and go.
FlagCount(v) ==
  36 + If(Colours(v), 5) + If(~AtLeast(v, 7, 0), 5) + If(~AtLeast(v, 5, 0), 1)
     + If(~AtLeast(v, 6, 0), 1) + If(AtLeast(v, 3, 0), 1) + If(AtLeast(v, 6, 0), 3)
     + If(AtLeast(v, 6, 0) /\ ~AtLeast(v, 7, 0), 1) + If(AtLeast(v, 7, 0), 2)
EncryptionBit(v) == 31 + If(Colours(v), 5)
FlagBytes(v) == IF AtLeast(v, 7, 0) THEN 8 ELSE (FlagCount(v) + 7) \div 8

HeaderTexts(v) ==
  Text("AppName") \o Text("") \o Text("AppID") \o Text("") \o Text("Publisher") \o Strings(4)
    \o Text("AppVersion") \o Strings(2) \o Text("BaseFilename")
    \o Strings(17 + If(AtLeast(v, 3, 0), 2) + If(AtLeast(v, 4, 2), 1))
    \o When(AtLeast(v, 5, 0), Raw("sevenZip"))
    \o Strings(4 + If(AtLeast(v, 7, 0), 5))

HeaderNumbers(v) ==
  WindowsRange
    \o Skip(10 + If(Colours(v), 8) + If(AtLeast(v, 5, 2), 8) + If(AtLeast(v, 6, 0), 8)
               + If(AtLeast(v, 6, 1), 1) + If(AtLeast(v, 7, 0), 10))
    \o When(~AtLeast(v, 4, 0), Must(20, "Password") \o Fixed(8, "PasswordSalt"))
    \o When(AtLeast(v, 4, 0) /\ ~AtLeast(v, 5, 0), Must(4, "Password") \o Fixed(44, "PasswordSalt"))
    \o Skip(8) \o Fixed(4, "SlicesPerDisk") \o Skip(6) \o Fixed(1, "Compression") \o Skip(10)
    \o Fixed(FlagBytes(v), "Flags")

HeaderFields(v) == HeaderTexts(v) \o Counts(v) \o HeaderNumbers(v)

LanguageFields(v) ==
  Text("Name") \o Text("DisplayName") \o Strings(6 + If(~AtLeast(v, 6, 0), 2))
    \o Fixed(4 - If(AtLeast(v, 6, 0), 2), "ID") \o Skip(17)

FileFields(v) ==
  Text("Source") \o Text("Destination") \o Strings(2) \o Text("Components") \o Text("Tasks")
    \o Text("Languages") \o Text("Check") \o Text("AfterInstall") \o Text("BeforeInstall")
    \o When(AtLeast(v, 5, 0), Strings(6) \o Must(32, "Digest") \o Fixed(1, "verification"))
    \o WindowsRange \o Fixed(4, "Location") \o Skip(4) \o Fixed(8, "Size") \o Skip(2)
    \o Fixed(IF AtLeast(v, 7, 0) THEN 8 ELSE 5, "Flags") \o Skip(1)

\* Wizard images, small images, and their dark and dynamic variants.
WizardGroups(v) == 2 + If(AtLeast(v, 6, 0), 2) + If(AtLeast(v, 7, 0), 2)

\* Data entries of 6.3 to 6.4.2 have a signing mode and a second byte of flags.
Signed(v) == AtLeast(v, 3, 0) /\ ~AtLeast(v, 4, 3)
DataFields(v) ==
  Fixed(4, "FirstSlice") \o Fixed(4, "LastSlice") \o Fixed(IF AtLeast(v, 5, 2) THEN 8 ELSE 4, "ChunkOffset")
    \o Fixed(8, "FileOffset") \o Fixed(8, "FileSize") \o Fixed(8, "ChunkSize")
    \o Must(IF AtLeast(v, 4, 0) THEN 32 ELSE 20, "Digest") \o Skip(16)
    \o Fixed(1 + If(Signed(v), 1), "Flags") \o When(Signed(v), Skip(1))

\* mapCompression
Compressions == <<"stored", "zlib", "bzip2", "lzma1", "lzma2">>
CompressionOf(h) == LET c == Number(h["Compression"]) IN IF c < 5 THEN Compressions[c + 1] ELSE "unknown"

\* The records of which nothing is kept, but for three strings of a registry entry.
OneByte(v) == IF AtLeast(v, 7, 0) THEN 1 ELSE 4     \* the size of a level or a flag set
MessageFields      == Strings(2) \o Skip(4)
PermissionFields   == Strings(1)
TypeFields         == Strings(2) \o WindowsRange \o Skip(10)
ComponentFields(v) == Strings(5) \o Skip(8 + OneByte(v) + 1) \o WindowsRange \o Skip(9)
TaskFields(v)      == Strings(6) \o Skip(OneByte(v) + 1) \o WindowsRange \o Skip(1)
DirectoryFields    == Strings(5) \o Skip(4) \o WindowsRange \o Skip(3)
ISSigKeyFields     == Strings(3)
IconFields(v)      == Strings(6) \o Condition \o Strings(1) \o When(AtLeast(v, 1, 0), Skip(16))
                        \o WindowsRange \o Skip(12)
INIFields          == Strings(4) \o Condition \o WindowsRange \o Skip(1)
RegistryFields     == Text("Key") \o Text("Name") \o Text("Value") \o Strings(4) \o WindowsRange \o Skip(9)
DeleteFields       == Strings(1) \o Condition \o WindowsRange \o Skip(1)
RunFields          == Strings(7) \o Condition \o WindowsRange \o Skip(7)
WizardFields(v, h) == FlattenSeq([i \in 1..WizardGroups(v) |-> Group])
                        \o When(CompressionOf(h) \in {"bzip2", "zlib"}, Strings(1))
                        \o When(h["sevenZip"] # <<>>, Strings(1))

Layout(v, h, p) ==
  CASE p = "header"      -> HeaderFields(v)
    [] p = "languages"   -> LanguageFields(v)
    [] p = "messages"    -> MessageFields
    [] p = "permissions" -> PermissionFields
    [] p = "types"       -> TypeFields
    [] p = "components"  -> ComponentFields(v)
    [] p = "tasks"       -> TaskFields(v)
    [] p = "directories" -> DirectoryFields
    [] p = "issigKeys"   -> ISSigKeyFields
    [] p = "files"       -> FileFields(v)
    [] p = "icons"       -> IconFields(v)
    [] p = "inis"        -> INIFields
    [] p = "registries"  -> RegistryFields
    [] p = "deletes"     -> DeleteFields
    [] p = "runs"        -> RunFields
    [] p = "wizard"      -> WizardFields(v, h)
    [] p = "dataEntries" -> DataFields(v)

Phases == <<"header", "languages", "messages", "permissions", "types", "components", "tasks",
            "directories", "issigKeys", "files", "icons", "inis", "registries", "deletes", "runs",
            "wizard", "dataEntries">>

\* How many records of a kind there are; a count that the version lacks is 0.
Count(h, name) == Number(h[name])
\* Mutant of Times: the uninstaller's deletes and runs are not read.
TimesInstalled(h, p) == IF p \in {"header", "wizard"} THEN 1 ELSE Count(h, p)
Times(h, p) ==
  CASE p \in {"header", "wizard"} -> 1
    [] p = "deletes"     -> Count(h, "deletes") + Count(h, "uninstallDeletes")
    [] p = "runs"        -> Count(h, "runs") + Count(h, "uninstallRuns")
    [] OTHER         -> Count(h, p)

=============================================================================
