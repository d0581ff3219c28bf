----------------------------- MODULE SetupParse -----------------------------
(***************************************************************************)
(* setup.Parse (internal/setup/setup.go): locate the setup data, check its *)
(* version, and decode two streams with a cursor.  The first one holds a   *)
(* header and, in a fixed order, as many records of each kind as it        *)
(* counts; the second one holds the data entries.  The streams are         *)
(* sequences of bytes, and an action reads one field of a record.          *)
(***************************************************************************)
EXTENDS Loader, SetupLayout, Sums

CONSTANTS
  Installers,         \* what Parse is called with: see Installer
  HeaderLimits,       \* the values of Options.HeaderLimit
  DefaultHeaderLimit, \* defaultHeaderLimit
  PartSize            \* the bytes under one checksum in a block: 4096

Byte == 0..255

\* The numbers in the structures of a file are those of their words.
Section == [va: Nat, virtualSize: Nat, raw: Nat, rawSize: Nat]
WellTyped(f) ==
  \A off \in DOMAIN f.at : LET o == f.at[off] IN
    /\ o.kind = "table" => /\ o.version \in Nat /\ o.header \in Int
                           /\ o.revision # 2 => o.words \in [1..7 -> 0..MaxU32]
    /\ o.kind = "pe" => o.sections \in Seq(Section)
    /\ o.kind = "encryption" => o.encrypted \in BOOLEAN
    /\ o.kind = "block" => o.stored \in Nat /\ o.content \in Seq(Byte)

ASSUME SetupAssumption ==
  /\ \A x \in Installers : WellTyped(x.file) /\ x.addresses \subseteq Nat
  /\ HeaderLimits \subseteq Int /\ DefaultHeaderLimit \in Nat \ {0} /\ PartSize \in Nat \ {0}

Names == {CountNames[i] : i \in DOMAIN CountNames}
           \cup {"", "AppName", "AppID", "Publisher", "AppVersion", "BaseFilename", "sevenZip",
                 "Password", "PasswordSalt", "SlicesPerDisk", "Compression", "Flags",
                 "Name", "DisplayName", "ID", "Source", "Destination", "Components", "Tasks",
                 "Languages", "Check", "AfterInstall", "BeforeInstall", "Digest", "verification",
                 "Location", "Size", "Key", "Value", "FirstSlice", "LastSlice", "ChunkOffset",
                 "FileOffset", "FileSize", "ChunkSize"}
HeaderNames == {"AppName", "AppID", "Publisher", "AppVersion", "BaseFilename"}
NoFields == [n \in Names |-> <<>>]

VARIABLES
  installer, headerLimit,          \* the arguments
  pc, err, offsets, version, outerEncrypted,
  position,                        \* where the next structure is in the file
  b, pos,                          \* cursor.b, cursor.pos
  phase, left, todo, got,          \* the loop of Parse, its record, the fields of it
  header, records                  \* the fields of the header, the records that are kept

args   == <<installer, headerLimit>>
places == <<offsets, version, outerEncrypted, position>>
cursor == <<b, pos>>
loop   == <<phase, left, todo, got>>
kept   == <<header, records>>
vars == <<args, pc, err, places, cursor, loop, kept>>

file == installer.file
limit == IF headerLimit <= 0 THEN DefaultHeaderLimit ELSE headerLimit

Init ==
  /\ installer \in Installers
  /\ headerLimit \in HeaderLimits
  /\ pc = "locate" /\ err = "none"
  /\ offsets = NoOffsets /\ version = <<0, 0, 0, 0>> /\ outerEncrypted = FALSE /\ position = 0
  /\ b = <<>> /\ pos = 0
  /\ phase = 1 /\ left = 0 /\ todo = <<>> /\ got = NoFields
  /\ header = NoFields
  /\ records = [p \in {"languages", "files", "registries", "dataEntries"} |-> <<>>]

\* Parse returns an error.
Fail(e) == /\ e # "none"
           /\ pc' = "done" /\ err' = e
           /\ UNCHANGED <<args, places, cursor, loop, kept>>

-----------------------------------------------------------------------------
(* What lies before the streams.                                            *)

FindSetup ==
  /\ pc = "locate"
  /\ LET found == Locate(file) IN
     \/ Fail(found.err)
     \/ /\ found.err = "none"
        /\ pc' = "version"
        /\ offsets' = found.offsets /\ position' = found.offsets.header
        /\ UNCHANGED <<args, err, version, outerEncrypted, cursor, loop, kept>>

\* readVersion: three or four numbers below 256; a part that is none is -1.
VersionError ==
  LET text == Object(file, position) IN
  IF ~Readable(file, position, 64) THEN "Corrupt"
  ELSE IF text.kind # "version" THEN "InvalidFormat"
  ELSE IF Len(text.parts) \notin 3..4 \/ \E i \in DOMAIN text.parts : text.parts[i] \notin Byte
  THEN "InvalidFormat"
  ELSE IF text.parts[1] # 6 \/ text.parts[2] > 7 THEN "UnsupportedVersion"
  ELSE "none"

ReadVersion ==
  /\ pc = "version"
  /\ \/ Fail(VersionError)
     \/ /\ VersionError = "none"
        /\ version' = Object(file, position).parts \o When(Len(Object(file, position).parts) = 3, <<0>>)
        /\ position' = position + 64
        /\ pc' = IF AtLeast(version', 5, 0) THEN "encryption" ELSE "block"
        /\ UNCHANGED <<args, err, offsets, outerEncrypted, cursor, loop, kept>>

EncryptionError ==
  IF ~Readable(file, position, 53) THEN "Corrupt"
  ELSE IF ~(Is(file, position, "encryption") /\ Object(file, position).intact) THEN "ChecksumMismatch"
  ELSE "none"

ReadEncryptionHeader ==
  /\ pc = "encryption"
  /\ \/ Fail(EncryptionError)
     \/ /\ EncryptionError = "none"
        /\ outerEncrypted' = Object(file, position).encrypted
        /\ position' = position + 53
        /\ pc' = "block"
        /\ UNCHANGED <<args, err, offsets, version, cursor, loop, kept>>

-----------------------------------------------------------------------------
(* readBlock.  A block declares the size of its parts, each of which is a   *)
(* checksum and up to PartSize bytes; bad is the first part whose checksum  *)
(* is wrong.  content is what the parts hold, decompressed if need be, and  *)
(* broken says that decompression then ends in an error.                    *)

BlockHeader == IF AtLeast(version, 7, 0) THEN 13 ELSE 9

\* unwrapBlockChunks
UnwrapError(block) ==
  LET rest == block.stored % (4 + PartSize)
      parts == block.stored \div (4 + PartSize) + If(rest > 4, 1)
  IN IF block.bad \in 1..parts THEN "ChecksumMismatch"
     ELSE IF rest \in 1..4 THEN "Corrupt"
     ELSE "none"

\* Bytes as they are, or LZMA1, of which readLimited takes one byte too many.
DecodeError(block) ==
  IF Len(block.content) > limit THEN "LimitExceeded"
  ELSE IF block.compressed /\ block.broken THEN "Corrupt"
  ELSE "none"

\* What is no block header has a wrong checksum.
BlockError ==
  LET block == Object(file, position) IN
  IF ~Readable(file, position, BlockHeader) THEN "Corrupt"
  ELSE IF block.kind # "block" THEN "ChecksumMismatch"
  ELSE IF block.stored > limit THEN "LimitExceeded"
  ELSE IF ~block.intact THEN "ChecksumMismatch"
  ELSE IF ~Readable(file, position + BlockHeader, block.stored) THEN "Corrupt"
  ELSE IF UnwrapError(block) # "none" THEN UnwrapError(block)
  ELSE DecodeError(block)

Following(block) == position + BlockHeader + block.stored

\* The primary block is read in the first phase, the secondary one in the last.
ReadBlock ==
  /\ pc = "block"
  /\ \/ Fail(BlockError)
     \/ /\ BlockError = "none"
        /\ b' = Object(file, position).content /\ pos' = 0
        /\ position' = Following(Object(file, position))
        /\ left' = Times(header, Phases[phase])
        /\ pc' = "record"
        /\ UNCHANGED <<args, err, offsets, version, outerEncrypted, phase, todo, got, kept>>

-----------------------------------------------------------------------------
(* Records.                                                                 *)

\* The next record of the kind, its fields in front of the cursor.
StartRecord ==
  /\ pc = "record" /\ left > 0
  /\ todo' = Layout(version, header, Phases[phase]) /\ got' = NoFields
  /\ pc' = "field"
  /\ UNCHANGED <<args, err, places, cursor, phase, left, kept>>

remaining == Len(b) - pos
Bytes(from, n) == SubSeq(b, from + 1, from + n)
field == Head(todo)
Length == Number(Bytes(pos, 4))
IsString(f) == f.kind \in {"utf16", "raw"} \/ (f.kind = "strings" /\ f.size > 0)

\* Mutant of FieldError: a read that begins at the end of the stream succeeds.
FieldErrorAtEnd ==
  IF IsString(field) \/ field.kind = "group"
  THEN IF remaining < 4 THEN "Corrupt"
       ELSE IF IsString(field) /\ Length > remaining - 4 THEN "LimitExceeded"
       ELSE "none"
  ELSE IF field.kind = "fixed" /\ field.size > remaining /\ remaining > 0 THEN "Corrupt"
  ELSE "none"
\* stringRaw, u32 and read fail at the end of the stream; mustReadCursor does not.
FieldError ==
  IF IsString(field) \/ field.kind = "group"
  THEN IF remaining < 4 THEN "Corrupt"
       ELSE IF IsString(field) /\ (Length > remaining - 4 \/ Length > limit) THEN "LimitExceeded"
       ELSE "none"
  ELSE IF field.kind = "fixed" /\ field.size > remaining THEN "Corrupt"
  ELSE IF field.name = "verification" /\ b[pos + 1] > 2 THEN "Corrupt"
  ELSE "none"

RejectField ==
  /\ pc = "field" /\ todo # <<>>
  /\ Fail(FieldError)

\* A field of the cursor's: n bytes from its place on, value is what it says.
Take(n, value) == /\ pos' = pos + n
                  /\ got' = [got EXCEPT ![field.name] = value]
                  /\ UNCHANGED <<args, pc, err, places, phase, left, kept>>

\* Mutant of MustValue: zeros for the bytes there are not.
MustValuePadded == [i \in 1..field.size |-> IF pos + i <= Len(b) THEN b[pos + i] ELSE 0]
MustValue == IF remaining < field.size THEN <<>> ELSE Bytes(pos, field.size)

ReadField ==
  /\ pc = "field" /\ todo # <<>> /\ FieldError = "none"
  /\ field.kind \in {"fixed", "must"}
  /\ Take(Len(MustValue), MustValue)
  /\ todo' = Tail(todo) /\ UNCHANGED b

\* stringRaw, skipString and stringUTF16.  An odd UTF-16 string is padded with
\* append on a slice of b: the zero goes over the byte that follows in b.
ReadString ==
  /\ pc = "field" /\ todo # <<>> /\ FieldError = "none"
  /\ IsString(field)
  /\ LET text == Bytes(pos + 4, Length)
         next == pos + 4 + Length
     IN /\ Take(4 + Length, IF field.kind = "utf16" THEN Units(text) ELSE text)
        /\ b' = IF field.kind = "utf16" /\ Length % 2 = 1 /\ next < Len(b)
                THEN [b EXCEPT ![next + 1] = 0] ELSE b
  /\ todo' = IF field.kind = "strings" /\ field.size > 1
             THEN Strings(field.size - 1) \o Tail(todo) ELSE Tail(todo)

\* A counted group of strings.
ReadGroup ==
  /\ pc = "field" /\ todo # <<>> /\ FieldError = "none"
  /\ field.kind = "group"
  /\ Take(4, <<>>)
  /\ todo' = When(Length > 0, Strings(Length)) \o Tail(todo) /\ UNCHANGED b

-----------------------------------------------------------------------------
(* What is kept of a record.                                                *)

DefaultName == <<100, 101, 102, 97, 117, 108, 116>>      \* "default"
Language == [Name |-> IF got["Name"] = <<>> THEN DefaultName ELSE got["Name"],
             DisplayName |-> got["DisplayName"], ID |-> Number(got["ID"])]

FileEntry ==
  [Source |-> got["Source"], Destination |-> got["Destination"],
   Components |-> got["Components"], Tasks |-> got["Tasks"], Languages |-> got["Languages"],
   Check |-> got["Check"], AfterInstall |-> got["AfterInstall"], BeforeInstall |-> got["BeforeInstall"],
   Checksum |-> IF got["verification"] = <<1>> THEN got["Digest"] ELSE <<>>,
   Location |-> Number(got["Location"]), Size |-> Number(got["Size"]),
   Temporary |-> Bit(got["Flags"], 3), DontCopy |-> Bit(got["Flags"], 19),
   Bits32 |-> Bit(got["Flags"], 26), Bits64 |-> Bit(got["Flags"], 27)]

RegistryEntry == [Key |-> got["Key"], Name |-> got["Name"], Value |-> got["Value"]]

DataEntry ==
  [FirstSlice |-> Number(got["FirstSlice"]), LastSlice |-> Number(got["LastSlice"]),
   ChunkOffset |-> Number(got["ChunkOffset"]), ChunkSize |-> Number(got["ChunkSize"]),
   FileOffset |-> Number(got["FileOffset"]), FileSize |-> Number(got["FileSize"]),
   Digest |-> got["Digest"],
   Compression |-> IF Bit(got["Flags"], 4) THEN CompressionOf(header) ELSE "stored",
   Encryption |-> IF ~Bit(got["Flags"], 3) THEN "plaintext"
                  ELSE IF AtLeast(version, 4, 0) THEN "xchacha20" ELSE "arc4sha1",
   Filter |-> IF Bit(got["Flags"], 2) THEN "instruction5309" ELSE "none"]

\* The archive Parse returns.  UnsupportedEncryption is Encrypted.
Parsed ==
  [version |-> version, offsets |-> offsets, compression |-> CompressionOf(header),
   encrypted |-> IF AtLeast(version, 5, 0) THEN outerEncrypted
                 ELSE Bit(header["Flags"], EncryptionBit(version)),
   names |-> [n \in HeaderNames |-> header[n]], records |-> records]

Record(p) == CASE p = "languages"   -> Language
               [] p = "files"       -> FileEntry
               [] p = "registries"  -> RegistryEntry
               [] p = "dataEntries" -> DataEntry

EndRecord ==
  /\ pc = "field" /\ todo = <<>>
  /\ left' = left - 1
  /\ header' = IF Phases[phase] = "header" THEN got ELSE header
  /\ records' = IF Phases[phase] \in DOMAIN records
                THEN [records EXCEPT ![Phases[phase]] = Append(@, Record(Phases[phase]))] ELSE records
  /\ pc' = "record"
  /\ UNCHANGED <<args, err, places, cursor, phase, todo, got>>

\* A stream ends with the wizard images, or with the data entries.
LastOfStream == Phases[phase] \in {"wizard", "dataEntries"}

NextPhase ==
  /\ pc = "record" /\ left = 0 /\ ~LastOfStream
  /\ phase' = phase + 1
  /\ left' = Times(header, Phases[phase + 1])
  /\ UNCHANGED <<args, pc, err, places, cursor, todo, got, kept>>

\* Mutant of StreamError: what is left of a stream is ignored.
StreamErrorNone == "none"
StreamError == IF remaining # 0 THEN "Corrupt" ELSE "none"

EndStream ==
  /\ pc = "record" /\ left = 0 /\ LastOfStream
  /\ \/ Fail(StreamError)
     \/ /\ StreamError = "none"
        /\ IF Phases[phase] = "wizard" THEN pc' = "block" /\ phase' = phase + 1
                                       ELSE pc' = "done" /\ UNCHANGED phase
        /\ UNCHANGED <<args, err, places, cursor, left, todo, got, kept>>

Returned == pc = "done" /\ UNCHANGED vars

Step == \/ FindSetup \/ ReadVersion \/ ReadEncryptionHeader \/ ReadBlock
        \/ StartRecord \/ RejectField \/ ReadField \/ ReadString \/ ReadGroup
        \/ EndRecord \/ NextPhase \/ EndStream
Next == Step \/ Returned

Spec == Init /\ [][Next]_vars

-----------------------------------------------------------------------------
(* Properties.                                                              *)

\* The cursor stays inside the stream it was made for (cursor.read), every
\* loop counts down to 0, and a call that goes on has met no error.
TypeOK ==
  /\ pc \in {"locate", "version", "encryption", "block", "record", "field", "done"}
  /\ err \in {"none", "Corrupt", "ChecksumMismatch", "InvalidFormat", "UnsupportedVersion",
              "LimitExceeded", "panic"}
  /\ pc # "done" => err = "none"
  /\ position \in Nat /\ pos \in 0..Len(b) /\ \A i \in DOMAIN b : b[i] \in Byte
  /\ phase \in DOMAIN Phases /\ left \in Nat
  /\ outerEncrypted \in BOOLEAN
  /\ DOMAIN got = Names /\ DOMAIN header = Names

\* Whatever the version, the container and the number of records of each kind,
\* Parse returns what was written, and fails exactly when one of the streams,
\* stored or decoded, is longer than the header limit (Parse, readBlock,
\* loader.Locate).
ReadsWhatIsWritten ==
  pc = "done" /\ installer.kind = "sound" =>
    IF installer.needs > limit THEN err = "LimitExceeded"
    ELSE err = "none" /\ Parsed = installer.written

\* The last entry of the list read may lack its digest: mustReadCursor ignores
\* that the stream ends there, and what follows is read from the digest's bytes.
Undigested(e) == [e EXCEPT !.Digest = <<>>, !.Compression = "", !.Encryption = "", !.Filter = ""]
SameEntries(s, t) ==
  /\ Len(s) = Len(t)
  /\ \A i \in DOMAIN s :
       s[i] = t[i] \/ (i = Len(s) /\ s[i].Digest = <<>> /\ Undigested(s[i]) = Undigested(t[i]))

\* Damage is noticed: a file that was cut, extended, corrupted or put together
\* wrongly gives an error and never another archive than the one written, but
\* for the digest of the last data entry (Parse, mustReadCursor).  The panic of
\* a loader of the oldest kind counts as an error here (RevisionOne in Loader).
DamageIsNoticed ==
  pc = "done" /\ installer.kind = "damaged" /\ err = "none" =>
    /\ [Parsed EXCEPT !.records.dataEntries = <<>>]
         = [installer.written EXCEPT !.records.dataEntries = <<>>]
    /\ SameEntries(records.dataEntries, installer.written.records.dataEntries)

\* A record of a kind takes at least this many bytes of a stream.
FieldSize(f) == CASE f.kind = "fixed" -> f.size
                  [] f.kind = "must" -> 0
                  [] f.kind = "strings" -> 4 * f.size
                  [] OTHER -> 4
Weight(fields) == Total([i \in 1..Len(fields) |-> FieldSize(fields[i])])
SmallestRecord(p) == Weight(Layout(version, header, p))

\* A count in the header promises nothing: however large it is, the records
\* that are built have taken their bytes from a stream the header limit bounds
\* (the loops of Parse).
RecordsAreBacked ==
  \A p \in DOMAIN records :
    Len(records[p]) > 0 => Len(records[p]) * SmallestRecord(p) <= limit

\* Where sections do not overlap, the order of the section table decides
\* nothing: the file offset of an address is that of any section that maps it
\* (rvaToFile returns at the first one).
Sections == LET dos == Object(file, 0) IN
            IF dos.kind = "dos" /\ Is(file, dos.pe, "pe") THEN Object(file, dos.pe).sections ELSE <<>>
Disjoint(s, t) == s.va + span(s) <= t.va \/ t.va + span(t) <= s.va
AddressesAreUnambiguous ==
  pc = "locate" /\ (\A i, j \in DOMAIN Sections : i # j => Disjoint(Sections[i], Sections[j])) =>
    \A i \in DOMAIN Sections : \A rva \in installer.addresses :
      Maps(Sections[i], rva) => rvaToFile(Sections, rva) = fileOffset(Sections[i], rva)

\* "Preserve the stream position while making malformed UTF-16 benign."
\* (setup.go:115): a string of an odd number of bytes costs that string its
\* last character at most.  The zero it is padded with is written into the
\* stream, over the length of the string that follows.
OddStringsAreBenign ==
  pc = "done" /\ installer.kind = "odd" => err = "none" /\ Parsed = installer.written

=============================================================================
