------------------------------ MODULE PEBackends ------------------------------
(***************************************************************************)
(* The three writers of executables: compile of PE_x64_backend.cpp, and    *)
(* the deprecated PE_x86_backend-deprecated.cpp, where compile and         *)
(* generate_hello_world write 32 bits images.  They go through the steps   *)
(* of PEImage; the last one has its data in the code, and returns false    *)
(* where the others stop the compiler.                                     *)
(***************************************************************************)
EXTENDS PEImage

CONSTANT Inputs   \* what each writer is called with, but generate_hello_world

ASSUME InputsAssumption ==
  \A writer \in {"x64", "x86"} : \A i \in Inputs[writer] :
    i.literals \in Seq(Nat) /\ i.libraries \in Seq(Nat)

\* message and dll_names.
HelloWorld == [literals |-> <<12>>, libraries |-> <<12>>]
InputsOf(f) == IF f = "generate_hello_world" THEN {HelloWorld} ELSE Inputs[f]

Init == function \in Functions /\ Open(InputsOf(function))

compile_x64 == function = "x64" /\ compile

compile_headers == OpenFails \/ WriteHeaders
compile_text_and_rdata ==
  \/ SeekText
  \/ WriteCode
  \/ WriteLiteral
  \/ PadReadOnlyData
compile_idata ==
  \/ WriteDescriptor
  \/ WriteTables
  \/ WriteFunctionNames
  \/ WriteLibraryName
  \/ PadImportData
compile_header_patches ==
  \/ PatchSizes
  \/ PatchAddresses
  \/ PatchSizeOfImage
compile_section_patches ==
  \/ PatchTextHeader
  \/ PatchRdataHeader
  \/ PatchIdataHeader
compile_x86 ==
  /\ function = "x86"
  /\ \/ compile_headers
     \/ compile_text_and_rdata
     \/ compile_idata
     \/ compile_header_patches
     \/ compile_section_patches

generate_headers ==
  \/ step = "open" /\ step' = "false" /\ UNCHANGED image
  \/ WriteHeaders
generate_text_and_rdata == compile_text_and_rdata
generate_idata == compile_idata
generate_header_patches == compile_header_patches
generate_section_patches == compile_section_patches
generate_hello_world ==
  /\ function = "generate_hello_world"
  /\ \/ generate_headers
     \/ generate_text_and_rdata
     \/ generate_idata
     \/ generate_header_patches
     \/ generate_section_patches

Next ==
  /\ compile_x64 \/ compile_x86 \/ generate_hello_world
  /\ UNCHANGED function

Spec == Init /\ [][Next]_vars
=============================================================================
