------------------------------- MODULE PEImage -------------------------------
(***************************************************************************)
(* The backend (PE_x64_backend.cpp): compile writes a Windows executable   *)
(* in one pass, headers first, then goes back to the header fields whose   *)
(* values were not known when they were written.                           *)
(*                                                                         *)
(* The file is the sequence of the pieces written to it, each at the       *)
(* position the file had, with what a loader reads in it.  A header field  *)
(* is known by its name: the offsets of the patched fields are the same in *)
(* IMAGE_NT_HEADERS32, which the code asks, and in IMAGE_NT_HEADERS64.     *)
(* The three writers go through the same steps, with other sizes and       *)
(* directories: PEBackends says which.  DLL_MODE is 0, as in the source.   *)
(***************************************************************************)
EXTENDS Integers, Sequences, SequencesExt, FiniteSets

CONSTANT DWORD_SIZE   \* number of values of a DWORD

section_alignment == 4096
file_alignment == 512
PE_header_start_address == 208
DosHeaderSize == 64
SectionHeaderSize == 40
DescriptorSize == 20
InstructionsSize == 44
MessageAddress == 8192
FunctionNames == <<"GetStdHandle", "WriteFile", "ExitProcess">>
FunctionSizes == <<12, 9, 11>>
Sections == <<"text", "rdata", "idata">>

VARIABLES
  function,    \* the writer that is called
  input,       \* ir: the sizes of its literals, and of the names of its
               \* libraries in the order the hash table has them
  written,     \* the pieces of the file, in the order they were written
  position,    \* get_file_position
  counted,     \* rdata_section_size or idata_section_size
  size_of_image,
  header,      \* the fields patched in the file
  step         \* what compile does next

image == <<input, written, position, counted, size_of_image, header>>
vars == <<function, image, step>>

ASSUME SizesAssumption == DWORD_SIZE \in Nat /\ DWORD_SIZE > file_alignment

Functions == {"x64", "x86", "generate_hello_world"}

\* IMAGE_NT_HEADERS64 or IMAGE_NT_HEADERS32, which has one field more, LONGLONG
\* or DWORD, addresses relative to the instruction or absolute ones, and import
\* directories that count the libraries or are written for one.
NtHeadersSize == IF function = "x64" THEN 264 ELSE 248
ThunkSize == IF function = "x64" THEN 8 ELSE 4
HasBaseOfData == function # "x64"
DirectoriesCount == function = "x64"
hello_world_calls ==
  IF function = "x64"
    THEN <<4096 + 13 + 8251, 4096 + 35 + 8237, 4096 + 43 + 8237>>
    ELSE <<12344, 12348, 12352>>

----------------------------------------------------------------------------
(* Sizes and addresses *)

AlignedUp(raw_size, alignement) ==
  ((raw_size + alignement - 1) \div alignement) * alignement
\* A whole unit more when the size is a multiple of it.
compute_aligned_size(raw_size, alignement) ==
  raw_size + (alignement - (raw_size % alignement))
align_address(address, alignement) == address + (address % alignement)

\* Of the first n sizes, and of all.
SumTo(sizes, n) ==
  LET total[i \in 0 .. n] == IF i = 0 THEN 0 ELSE total[i - 1] + sizes[i]
  IN  total[n]
Sum(sizes) == SumTo(sizes, Len(sizes))

VirtualSize(section) ==
  CASE section = "text"  -> InstructionsSize
    [] section = "rdata" -> Sum(input.literals)
    [] section = "idata" -> 126
SizeOfRawData(section) == compute_aligned_size(VirtualSize(section), file_alignment)

HeadersEnd ==
  PE_header_start_address + NtHeadersSize + Len(Sections) * SectionHeaderSize
text_section_address == compute_aligned_size(HeadersEnd, section_alignment)
text_pointer_to_raw_data == compute_aligned_size(HeadersEnd, file_alignment)
rdata_section_address ==
  compute_aligned_size(text_section_address + SizeOfRawData("text"),
                       section_alignment)
rdata_pointer_to_raw_data ==
  align_address(text_pointer_to_raw_data + SizeOfRawData("text"), file_alignment)
idata_section_address ==
  compute_aligned_size(rdata_section_address + SizeOfRawData("rdata"),
                       section_alignment)
idata_pointer_to_raw_data ==
  align_address(rdata_pointer_to_raw_data + SizeOfRawData("rdata"),
                file_alignment)

\* The import directory is hard coded, and what follows it as if one library
\* were imported.
ImportAddress == 12288
ImportTables == ImportAddress + 2 * DescriptorSize
TableSize == (Len(FunctionNames) + 1) * ThunkSize
HNT_size == Sum([k \in DOMAIN FunctionSizes |-> 2 + FunctionSizes[k] + 1])
HintForgotten(k) ==
  ImportTables + 2 * TableSize
    + SumTo([j \in DOMAIN FunctionSizes |-> FunctionSizes[j] + 1], k - 1)
FunctionRVA(k) ==
  ImportTables + 2 * TableSize
    + SumTo([j \in DOMAIN FunctionSizes |-> 2 + FunctionSizes[j] + 1], k - 1)
Libraries == IF DirectoriesCount THEN Len(input.libraries) ELSE 1
IATDirectory == ImportAddress + (Libraries + 1) * DescriptorSize + TableSize

----------------------------------------------------------------------------
(* Writing *)

Piece(what, section, size, rvas) ==
  [what |-> what, section |-> section, at |-> position, size |-> size,
   rvas |-> rvas]
Sizes(pieces) == [i \in DOMAIN pieces |-> pieces[i].size]
WriteBehind(pieces) ==
  /\ written' = written \o pieces
  /\ position' = position + Sum(Sizes(pieces))
Write(pieces) ==
  /\ written' = written \o
       [i \in DOMAIN pieces |->
          [pieces[i] EXCEPT !.at = position + SumTo(Sizes(pieces), i - 1)]]
  /\ position' = position + Sum(Sizes(pieces))
Zeros(section, count) == Piece("zeros", section, count % DWORD_SIZE, <<>>)
Content(what, section, size) == Piece(what, section, size, <<>>)

At(here, next) == step = here /\ step' = next

Blank == [SizeOfCode |-> 0, SizeOfInitializedData |-> 0,
          SizeOfUninitializedData |-> 0, AddressOfEntryPoint |-> 0,
          BaseOfCode |-> 0, BaseOfData |-> 0, SizeOfImage |-> 0, SizeOfHeaders |-> 0,
          VirtualAddress |-> [s \in ToSet(Sections) |-> 0],
          PointerToRawData |-> [s \in ToSet(Sections) |-> 0]]

Open(inputs) ==
  /\ input \in inputs
  /\ written = <<>>
  /\ position = 0
  /\ counted = 0
  /\ size_of_image = 0
  /\ header = Blank
  /\ step = "open"

OpenFails == At("open", "error") /\ UNCHANGED image

\* Up to the section headers, with the fields that are known.
WriteHeaders ==
  /\ At("open", "text")
  /\ Write(<<Content("dos_header", "headers", DosHeaderSize),
             Zeros("headers", PE_header_start_address - DosHeaderSize),
             Piece("nt_headers", "headers", NtHeadersSize,
                   <<ImportAddress, IATDirectory>>)>>
           \o [i \in DOMAIN Sections |->
                 Content(Sections[i], "headers", SectionHeaderSize)])
  /\ UNCHANGED <<input, counted, size_of_image, header>>

\* The size of the headers, which is where the file is, is what the addresses
\* of the first section are computed from.
SeekText ==
  /\ At("text", "code")
  /\ position' = text_pointer_to_raw_data
  /\ size_of_image' =
       compute_aligned_size(text_pointer_to_raw_data, section_alignment)
  /\ UNCHANGED <<input, written, counted, header>>

WriteCode ==
  /\ At("code", "literals")
  /\ Write(<<Content("code", "text", InstructionsSize),
             Zeros("text", SizeOfRawData("text") - InstructionsSize)>>)
  /\ size_of_image' = size_of_image
       + compute_aligned_size(SizeOfRawData("text"), section_alignment)
  /\ counted' = 0
  /\ UNCHANGED <<input, header>>

NbWritten(what) == Cardinality({i \in DOMAIN written : written[i].what = what})

WriteLiteral ==
  LET i == NbWritten("literal") + 1
  IN  /\ step = "literals" /\ i <= Len(input.literals)
      /\ Write(<<Content("literal", "rdata", input.literals[i])>>)
      /\ counted' = counted + input.literals[i]
      /\ UNCHANGED <<input, size_of_image, header, step>>

PadReadOnlyData ==
  /\ NbWritten("literal") = Len(input.literals)
  /\ At("literals", "descriptor")
  /\ Write(<<Zeros("rdata", SizeOfRawData("rdata") - counted)>>)
  /\ size_of_image' = size_of_image
       + compute_aligned_size(SizeOfRawData("rdata"), section_alignment)
  /\ counted' = 0
  /\ UNCHANGED <<input, header>>

\* One descriptor, with the addresses of the two tables and of the name.
WriteDescriptor ==
  /\ At("descriptor", "tables")
  /\ Write(<<Piece("descriptor", "idata", DescriptorSize,
                   <<ImportTables, ImportTables + 2 * TableSize + HNT_size,
                     ImportTables + TableSize>>),
             Zeros("idata", DescriptorSize)>>)
  /\ counted' = 2 * DescriptorSize
  /\ UNCHANGED <<input, size_of_image, header>>

\* The lookup table and the address table, which are the same in the file.
Table(what) ==
  Piece(what, "idata", Len(FunctionNames) * ThunkSize,
        [k \in DOMAIN FunctionNames |-> FunctionRVA(k)])
WriteTables ==
  /\ At("tables", "names")
  /\ Write(<<Table("ILT"), Zeros("idata", ThunkSize),
             Table("IAT"), Zeros("idata", ThunkSize)>>)
  /\ counted' = counted + 2 * TableSize
  /\ UNCHANGED <<input, size_of_image, header>>

WriteFunctionNames ==
  /\ At("names", "libraries")
  /\ Write([k \in DOMAIN FunctionNames |->
              Content(FunctionNames[k], "idata", 2 + FunctionSizes[k] + 1)])
  /\ counted' = counted + HNT_size
  /\ UNCHANGED <<input, size_of_image, header>>

UncountedZero ==
  LET i == NbWritten("library") + 1
  IN  /\ step = "libraries" /\ i <= Len(input.libraries)
      /\ Write(<<Content("library", "idata", input.libraries[i] + 1)>>)
      /\ counted' = counted + input.libraries[i]
      /\ UNCHANGED <<input, size_of_image, header, step>>
WriteLibraryName ==
  LET i == NbWritten("library") + 1
  IN  /\ step = "libraries" /\ i <= Len(input.libraries)
      /\ Write(<<Content("library", "idata", input.libraries[i] + 1)>>)
      /\ counted' = counted + input.libraries[i] + 1
      /\ UNCHANGED <<input, size_of_image, header, step>>

\* The padding is a DWORD: it wraps when the names do not fit.
PadImportData ==
  /\ NbWritten("library") = Len(input.libraries)
  /\ At("libraries", "size_of_code")
  /\ Write(<<Zeros("idata", SizeOfRawData("idata") - counted)>>)
  /\ size_of_image' = size_of_image
       + compute_aligned_size(SizeOfRawData("idata"), section_alignment)
  /\ UNCHANGED <<input, counted, header>>

----------------------------------------------------------------------------
(* Patching: each field is written over where it is in the headers.  Nothing  *)
(* asks for the position any more, and the model leaves it at the end.        *)

Patch(here, next, patched) ==
  /\ At(here, next)
  /\ header' = patched
  /\ UNCHANGED <<input, written, position, counted, size_of_image>>

PatchSizes ==
  Patch("size_of_code", "address_of_entry_point",
        [header EXCEPT !.SizeOfCode = SizeOfRawData("text"),
                       !.SizeOfInitializedData = SizeOfRawData("text"),
                       !.SizeOfUninitializedData = 0])
PatchAddresses ==
  Patch("address_of_entry_point", "size_of_image",
        [header EXCEPT !.AddressOfEntryPoint = text_section_address,
                       !.BaseOfCode = text_section_address,
                       !.BaseOfData = IF HasBaseOfData
                                        THEN rdata_section_address ELSE 0])
PatchSizeOfImage ==
  Patch("size_of_image", "text_header",
        [header EXCEPT
           !.SizeOfImage = size_of_image,
           !.SizeOfHeaders = compute_aligned_size(HeadersEnd, file_alignment)])
PatchTextHeader ==
  Patch("text_header", "rdata_header",
        [header EXCEPT !.VirtualAddress["text"] = text_section_address,
                       !.PointerToRawData["text"] = text_pointer_to_raw_data])
PatchRdataHeader ==
  Patch("rdata_header", "idata_header",
        [header EXCEPT !.VirtualAddress["rdata"] = rdata_section_address,
                       !.PointerToRawData["rdata"] = rdata_pointer_to_raw_data])
PatchIdataHeader ==
  Patch("idata_header", "closed",
        [header EXCEPT !.VirtualAddress["idata"] = idata_section_address,
                       !.PointerToRawData["idata"] = idata_pointer_to_raw_data])

Patches ==
  \/ PatchSizes
  \/ PatchAddresses
  \/ PatchSizeOfImage
  \/ PatchTextHeader
  \/ PatchRdataHeader
  \/ PatchIdataHeader

Data ==
  \/ SeekText
  \/ WriteCode
  \/ WriteLiteral
  \/ PadReadOnlyData
  \/ WriteDescriptor
  \/ WriteTables
  \/ WriteFunctionNames
  \/ WriteLibraryName
  \/ PadImportData

compile == OpenFails \/ WriteHeaders \/ Data \/ Patches

----------------------------------------------------------------------------
(* Properties *)

Steps == {"open", "error", "false", "text", "code", "literals", "descriptor", "tables",
          "names", "libraries", "size_of_code", "address_of_entry_point",
          "size_of_image", "text_header", "rdata_header", "idata_header",
          "closed"}
EndOf(piece) == piece.at + piece.size

\* Nothing is written over before the headers are patched, and the headers and
\* the data of the sections follow each other in the file, with one hole, before
\* the first section.
TypeOK ==
  /\ step \in Steps
  /\ \A i \in 1 .. Len(written) - 1 :
       /\ EndOf(written[i]) <= written[i + 1].at
       /\ written[i].section = written[i + 1].section =>
            EndOf(written[i]) = written[i + 1].at
  /\ step # "code" =>
       position = IF written = <<>> THEN 0 ELSE EndOf(Last(written))

\* Every section's header leads to its data: what was written for the section
\* starts at the address given in the header, takes the size given, and nothing
\* else is there, although the header was written before and patched after.  But
\* the import section has a fixed size, and longer names of libraries make the
\* padding wrap.
StartsSection(i) == i = 1 \/ written[i - 1].section # written[i].section
EndsSection(i) == i = Len(written) \/ written[i + 1].section # written[i].section
NamesFit ==
  SizeOfRawData("idata") >= 2 * DescriptorSize + 2 * TableSize + HNT_size
                              + Sum([i \in DOMAIN input.libraries |->
                                       input.libraries[i] + 1])
RawDataWhereHeadersSay ==
  step = "closed" =>
    /\ header.SizeOfHeaders = header.PointerToRawData["text"]
    /\ \A section \in ToSet(Sections) :
         \E i \in DOMAIN written : written[i].section = section
    /\ \A i \in DOMAIN written :
         LET section == written[i].section
         IN  /\ section = "headers" =>
                  EndOf(written[i]) <= header.SizeOfHeaders
             /\ section # "headers" /\ StartsSection(i) =>
                  written[i].at = header.PointerToRawData[section]
             /\ section \in {"text", "rdata"} /\ EndsSection(i) =>
                  EndOf(written[i]) =
                    header.PointerToRawData[section] + SizeOfRawData(section)
    /\ NamesFit <=>
         position = header.PointerToRawData["idata"] + SizeOfRawData("idata")

\* The sections are loaded one after another, each on pages of its own, after
\* the headers: the image ends where the last one does, and the message the code
\* prints and its entry point are the first bytes of their sections.
SectionsMapped ==
  step = "closed" =>
    LET After(section) ==
          compute_aligned_size(header.VirtualAddress[section]
                                 + SizeOfRawData(section), section_alignment)
    IN  /\ \A section \in ToSet(Sections) :
             /\ header.VirtualAddress[section] % section_alignment = 0
             /\ header.PointerToRawData[section] % file_alignment = 0
             /\ VirtualSize(section) <= SizeOfRawData(section)
             /\ header.VirtualAddress[section] + SizeOfRawData(section)
                  < After(section)
        /\ header.SizeOfHeaders <= header.VirtualAddress["text"]
        /\ \A i \in 1 .. Len(Sections) - 1 :
             header.VirtualAddress[Sections[i + 1]] = After(Sections[i])
        /\ header.SizeOfImage = After("idata")
        /\ header.AddressOfEntryPoint = header.VirtualAddress["text"]
        /\ HasBaseOfData => header.BaseOfData = header.VirtualAddress["rdata"]
        /\ MessageAddress = header.VirtualAddress["rdata"]

\* What a loader does with the imports, from their hard coded directory: it is
\* found when the literals leave the import section on the fourth page, and then
\* it leads to the descriptor, which leads to the tables and to the name of the
\* first library, the tables lead to the names of the functions, in the order
\* the code calls them, and the code calls through the address table.  The
\* directory of that table is right for one library.
PiecesAt(address) ==
  {p \in ToSet(written) :
     p.size # 0 /\ p.at = address - header.VirtualAddress["idata"]
                           + header.PointerToRawData["idata"]}
PieceAt(address) == CHOOSE p \in PiecesAt(address) : TRUE
What(address) == IF PiecesAt(address) = {} THEN "" ELSE PieceAt(address).what
ImportsFound ==
  LET descriptor == PieceAt(ImportAddress).rvas
      table      == PieceAt(descriptor[3]).rvas
  IN  /\ What(ImportAddress) = "descriptor"
      /\ What(descriptor[1]) = "ILT" /\ What(descriptor[3]) = "IAT"
      /\ PieceAt(descriptor[1]).rvas = table
      /\ input.libraries # <<>> => What(descriptor[2]) = "library"
      /\ \A k \in DOMAIN FunctionNames :
           /\ What(table[k]) = FunctionNames[k]
           /\ hello_world_calls[k] = descriptor[3] + (k - 1) * ThunkSize
      /\ (IATDirectory = descriptor[3]) <=> (Libraries = 1)
LoaderFindsImports ==
  step = "closed" =>
    IF Sum(input.literals) < section_alignment - file_alignment
      THEN ImportsFound
      ELSE What(ImportAddress) # "descriptor"
=============================================================================
