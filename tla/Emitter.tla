------------------------------- MODULE Emitter -------------------------------
(***************************************************************************)
(* LLVMJIT::emitModule and the EmitModuleContext constructor in           *)
(* src/Lib/LLVMJIT/LLVMEmitModule.cpp.  Emission is sequential: one step  *)
(* per loop iteration.  The IR module is an input chosen in Init from all  *)
(* small valid modules.  The LLVM module is kept as the sequence of named  *)
(* objects created in it, and the function shells with their signature,   *)
(* personality and prefix data; types, debug scopes and metadata are left  *)
(* out except the debug basic types.  The body emitter (EmitFunctionContext *)
(* .emit, not in this repository) either succeeds or throws.             *)
(***************************************************************************)
EXTENDS Naturals, Sequences, SequencesExt, FiniteSets

CONSTANTS
  Sigs,        \* the function signatures types[] may hold
  MaxTypes,    \* bound: irModule.types.size()
  MaxImports,  \* bound: irModule.functions.imports.size()
  MaxDefs,     \* bound: irModule.functions.defs.size()
  MaxObjects,  \* bound: tables, memories, globals, exceptionTypes each
  NoHandle     \* a null llvm::Constant*

VARIABLES
  ir,              \* the IR::Module being emitted (input)
  seh,             \* the target uses Windows SEH (_WIN32 / USE_WINDOWS_SEH)
  pc,              \* where emitModule is
  kind, idx,       \* which imported-constant loop, and its loop index
  symbols,         \* the named objects created in outLLVMModule, in order
  handles,         \* typeIds, tableOffsets, memoryOffsets, globals, exceptionTypeInstances
  defaultTableOffset, defaultMemoryOffset,
  functions,       \* moduleContext.functions: the function shells
  diValueTypes,    \* the debug basic type per ValueType
  finalized        \* how many times diBuilder.finalize() was called

vars == <<ir, seh, pc, kind, idx, symbols, handles, defaultTableOffset,
          defaultMemoryOffset, functions, diValueTypes, finalized>>

(* The five parallel arrays of imported constants, in emission order,     *)
(* named after their external-name prefix.                                *)
ConstantKinds == <<"typeId", "tableOffset", "memoryOffset", "global", "exceptionType">>

(* The arrays holding ptrtoint handles; the others keep the pointer. *)
IntKinds == {"typeId", "tableOffset", "memoryOffset"}

(* All valid IR modules within the bounds: every function's type index   *)
(* names an entry of types (type indices are 0-based, as in the code).   *)
IRModules ==
  { m \in [types : BoundedSeq(Sigs, MaxTypes),
           imports : BoundedSeq(0 .. MaxTypes - 1, MaxImports),
           defs : BoundedSeq(0 .. MaxTypes - 1, MaxDefs),
           tables : 0 .. MaxObjects, memories : 0 .. MaxObjects,
           globals : 0 .. MaxObjects, exceptionTypes : 0 .. MaxObjects] :
      \A i \in ToSet(m.imports) \cup ToSet(m.defs) : i < Len(m.types) }

-----------------------------------------------------------------------------
(* getExternalName(prefix, index): the decimal name "<prefix><index>".   *)
(* No prefix is another prefix followed by digits, so the pair is as      *)
(* injective as the string.  A fixed name has index -1.                  *)
ExternalName(prefix, i) == [name |-> prefix, index |-> i]
FixedName(n) == ExternalName(n, -1)

(* createImportedConstant: an external i8 global named externalName; the  *)
(* handle is its address, as a pointer or cast ptrtoint to iptr.          *)
ImportedConstant(externalName, asInt) == [sym |-> externalName, asInt |-> asInt]

(* irModule.functions.getType(i): imports first, then definitions. *)
GetType(m, i) ==
  IF i < Len(m.imports) THEN m.imports[i + 1] ELSE m.defs[i - Len(m.imports) + 1]

Count(m, k) ==
  CASE k = "typeId" -> Len(m.types)   [] k = "tableOffset" -> m.tables
    [] k = "memoryOffset" -> m.memories [] k = "global" -> m.globals
    [] k = "exceptionType" -> m.exceptionTypes

PersonalityName == IF seh THEN "__C_specific_handler" ELSE "__gxx_personality_v0"

(* The debug basic types of the constructor: DWARF encoding and bit width; *)
(* ValueType::any has none.                                              *)
DiTypes ==
  [v \in {"any", "i32", "i64", "f32", "f64", "v128", "anyref", "anyfunc", "nullref"} |->
     CASE v = "any" -> "none"
       [] v \in {"i32", "i64"} -> <<"signed", IF v = "i32" THEN 32 ELSE 64>>
       [] v \in {"f32", "f64"} -> <<"float", IF v = "f32" THEN 32 ELSE 64>>
       [] v = "v128" -> <<"signed", 128>>
       [] OTHER -> <<"address", 8>>]

-----------------------------------------------------------------------------
Init ==
  /\ ir \in IRModules
  /\ seh \in BOOLEAN
  /\ pc = "context"
  /\ kind = 1 /\ idx = 0
  /\ symbols = <<>>
  /\ handles = [k \in ToSet(ConstantKinds) |-> <<>>]
  /\ defaultTableOffset = NoHandle /\ defaultMemoryOffset = NoHandle
  /\ functions = <<>>
  /\ diValueTypes = [v \in {} |-> "none"]
  /\ finalized = 0

(* The EmitModuleContext constructor: null default offsets, the debug     *)
(* compile unit and basic types, and __cxa_begin_catch unless SEH.        *)
ConstructContext ==
  /\ pc = "context"
  /\ diValueTypes' = DiTypes
  /\ symbols' = IF seh THEN <<>> ELSE <<FixedName("__cxa_begin_catch")>>
  /\ pc' = "personality"
  /\ UNCHANGED <<ir, seh, kind, idx, handles, defaultTableOffset,
                 defaultMemoryOffset, functions, finalized>>

(* The personality function declaration, named by target. *)
CreatePersonality ==
  /\ pc = "personality"
  /\ symbols' = Append(symbols, FixedName(PersonalityName))
  /\ pc' = "constants"
  /\ UNCHANGED <<ir, seh, kind, idx, handles, defaultTableOffset,
                 defaultMemoryOffset, functions, diValueTypes, finalized>>

(* One iteration of the loops over types, tables, memories, globals and  *)
(* exception types; leaving the table or memory loop sets the default    *)
(* offset to element 0 if there is one.                                  *)
CreateImportedConstants ==
  LET k == ConstantKinds[kind] IN
  /\ pc = "constants"
  /\ \/ /\ idx < Count(ir, k)
        /\ symbols' = Append(symbols, ExternalName(k, idx))
        /\ handles' = [handles EXCEPT ![k] =
                         Append(@, ImportedConstant(ExternalName(k, idx), k \in IntKinds))]
        /\ idx' = idx + 1
        /\ UNCHANGED <<kind, pc, defaultTableOffset, defaultMemoryOffset>>
     \/ /\ idx = Count(ir, k)
        /\ defaultTableOffset' = IF k = "tableOffset" /\ handles[k] # <<>>
                                   THEN handles[k][1] ELSE defaultTableOffset
        /\ defaultMemoryOffset' = IF k = "memoryOffset" /\ handles[k] # <<>>
                                    THEN handles[k][1] ELSE defaultMemoryOffset
        /\ idx' = 0
        /\ IF kind = Len(ConstantKinds) THEN pc' = "fixed" /\ UNCHANGED kind
                                         ELSE kind' = kind + 1 /\ UNCHANGED pc
        /\ UNCHANGED <<symbols, handles>>
  /\ UNCHANGED <<ir, seh, functions, diValueTypes, finalized>>

(* moduleInstance (a pointer) and tableReferenceBias (ptrtoint). *)
CreateFixedSymbols ==
  /\ pc = "fixed"
  /\ symbols' = symbols \o <<FixedName("moduleInstance"), FixedName("tableReferenceBias")>>
  /\ pc' = "functions"
  /\ UNCHANGED <<ir, seh, kind, idx, handles, defaultTableOffset,
                 defaultMemoryOffset, functions, diValueTypes, finalized>>

(* One iteration of the loop creating a function shell per function      *)
(* index: imports are functionImport<i>, definitions functionDef<i - n>. *)
CreateFunction ==
  LET n == Len(ir.imports)
      name == IF idx >= n THEN ExternalName("functionDef", idx - n)
                          ELSE ExternalName("functionImport", idx)
  IN
  /\ pc = "functions"
  /\ \/ /\ idx < n + Len(ir.defs)
        /\ functions' = Append(functions,
                          [name |-> name, sig |-> ir.types[GetType(ir, idx) + 1],
                           personality |-> FALSE, prefix |-> <<>>, emitted |-> FALSE])
        /\ symbols' = Append(symbols, name)
        /\ idx' = idx + 1
        /\ UNCHANGED pc
     \/ /\ idx = n + Len(ir.defs)
        /\ pc' = "defs" /\ idx' = 0
        /\ UNCHANGED <<functions, symbols>>
  /\ UNCHANGED <<ir, seh, kind, handles, defaultTableOffset, defaultMemoryOffset,
                 diValueTypes, finalized>>

(* Mutant: the prefix's type word indexed by the definition's position,  *)
(* not by its type index.                                                *)
EmitFunctionDefTypeIndex ==
  LET j == idx
      f == Len(ir.imports) + j + 1
      instance == ImportedConstant(ExternalName("functionDefInstance", j), TRUE)
      shell == [functions[f] EXCEPT !.personality = TRUE,
                  !.prefix = <<instance, handles["typeId"][IF j < Len(ir.types) THEN j + 1 ELSE 1]>>]
  IN
  /\ pc = "defs"
  /\ \/ /\ j < Len(ir.defs) /\ symbols' = Append(symbols, instance.sym)
        /\ functions' = [functions EXCEPT ![f] = [shell EXCEPT !.emitted = TRUE]]
        /\ idx' = idx + 1 /\ UNCHANGED pc
     \/ j = Len(ir.defs) /\ pc' = "finalize" /\ UNCHANGED <<symbols, functions, idx>>
  /\ UNCHANGED <<ir, seh, kind, handles, defaultTableOffset, defaultMemoryOffset,
                 diValueTypes, finalized>>

(* One iteration of the loop over definitions: attach the personality,   *)
(* create functionDefInstance<j>, set the prefix data, emit the body      *)
(* (which may throw out of emitModule).                                   *)
EmitFunctionDef ==
  LET j == idx
      f == Len(ir.imports) + j + 1
      instance == ImportedConstant(ExternalName("functionDefInstance", j), TRUE)
      shell == [functions[f] EXCEPT
                  !.personality = TRUE,
                  !.prefix = <<instance, handles["typeId"][ir.defs[j + 1] + 1]>>]
  IN
  /\ pc = "defs"
  /\ \/ /\ j < Len(ir.defs)
        /\ symbols' = Append(symbols, instance.sym)
        /\ \/ functions' = [functions EXCEPT ![f] = [shell EXCEPT !.emitted = TRUE]]
              /\ idx' = idx + 1 /\ UNCHANGED pc
           \/ functions' = [functions EXCEPT ![f] = shell]
              /\ pc' = "failed" /\ UNCHANGED idx
     \/ /\ j = Len(ir.defs)
        /\ pc' = "finalize"
        /\ UNCHANGED <<symbols, functions, idx>>
  /\ UNCHANGED <<ir, seh, kind, handles, defaultTableOffset, defaultMemoryOffset,
                 diValueTypes, finalized>>

(* diBuilder.finalize(), then emitModule returns. *)
Finalize ==
  /\ pc = "finalize"
  /\ finalized' = finalized + 1
  /\ pc' = "done"
  /\ UNCHANGED <<ir, seh, kind, idx, symbols, handles, defaultTableOffset,
                 defaultMemoryOffset, functions, diValueTypes>>

(* emitModule has returned, or thrown the body emitter's exception. *)
Terminated == pc \in {"done", "failed"} /\ UNCHANGED vars

Next ==
  \/ ConstructContext \/ CreatePersonality \/ CreateImportedConstants
  \/ CreateFixedSymbols \/ CreateFunction \/ EmitFunctionDef \/ Finalize
  \/ Terminated

Spec == Init /\ [][Next]_vars

-----------------------------------------------------------------------------
(* The external symbols spec.md section 6 lists for an IR module. *)
ExpectedSymbols(m) ==
  UNION { { ExternalName(k, i) : i \in 0 .. Count(m, k) - 1 } : k \in ToSet(ConstantKinds) }
  \cup { ExternalName("functionImport", i) : i \in 0 .. Len(m.imports) - 1 }
  \cup { ExternalName(p, j) : p \in {"functionDef", "functionDefInstance"},
                              j \in 0 .. Len(m.defs) - 1 }
  \cup { FixedName(n) : n \in {"moduleInstance", "tableReferenceBias", PersonalityName} }
  \cup (IF seh THEN {} ELSE {FixedName("__cxa_begin_catch")})

(* When emitModule returns, the LLVM module is the one spec.md sections 3 *)
(* and 8 describe: exactly the listed external symbols, none created      *)
(* twice; function index i (imports first) is the shell named for it,     *)
(* with the signature of its type index; each definition j has the       *)
(* personality and the prefix words (ptrtoint functionDefInstance<j>,     *)
(* typeIds[type of j]) and a body; default offsets are element 0 of a     *)
(* non-empty array and null otherwise; globals and exception types are    *)
(* pointers, the rest ptrtoint; the debug types have the DWARF encodings  *)
(* of the contract; finalize ran once.  It ties the naming loop, the      *)
(* getType lookup, the definition loop's index offset and the typeIds     *)
(* indexing together.                                                     *)
EmittedModuleMatchesSpec ==
  pc = "done" =>
    LET n == Len(ir.imports)
        IntAddr(name) == ImportedConstant(name, TRUE)
    IN
    /\ ToSet(symbols) = ExpectedSymbols(ir)
    /\ Len(symbols) = Cardinality(ToSet(symbols))
    /\ Len(functions) = n + Len(ir.defs)
    /\ \A i \in 0 .. n - 1 :
         functions[i + 1] = [name |-> ExternalName("functionImport", i),
                             sig |-> ir.types[ir.imports[i + 1] + 1],
                             personality |-> FALSE, prefix |-> <<>>, emitted |-> FALSE]
    /\ \A j \in 0 .. Len(ir.defs) - 1 :
         functions[n + j + 1] =
           [name |-> ExternalName("functionDef", j),
            sig |-> ir.types[ir.defs[j + 1] + 1],
            personality |-> TRUE, emitted |-> TRUE,
            prefix |-> <<IntAddr(ExternalName("functionDefInstance", j)),
                         IntAddr(ExternalName("typeId", ir.defs[j + 1]))>>]
    /\ defaultTableOffset = IF ir.tables > 0 THEN IntAddr(ExternalName("tableOffset", 0))
                                            ELSE NoHandle
    /\ defaultMemoryOffset = IF ir.memories > 0 THEN IntAddr(ExternalName("memoryOffset", 0))
                                                ELSE NoHandle
    /\ \A k \in ToSet(ConstantKinds) :
         handles[k] = [i \in 1 .. Count(ir, k) |-> ImportedConstant(ExternalName(k, i - 1), k \in IntKinds)]
    /\ \A v \in DOMAIN diValueTypes :
         diValueTypes[v] = "none" <=> v = "any"
    /\ \A v \in {"f32", "f64"} : diValueTypes[v][1] = "float"
    /\ \A v \in {"anyref", "anyfunc", "nullref"} : diValueTypes[v][1] = "address"
    /\ finalized = 1

=============================================================================
