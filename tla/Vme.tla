-------------------------------- MODULE Vme ---------------------------------
(***************************************************************************)
(* A kernel built for one of two machines of AM, x86-qemu or native, and   *)
(* the virtual memory below it: both keep the promise of AddressSpace.     *)
(***************************************************************************)
EXTENDS X86Vme, NativeVme

vars == <<programVars, x86Vars, nativeVars>>

Init == /\ arch \in {"x86", "native"}
        /\ ProgramInit /\ vme_init /\ NativeInit

Next == \/ X86Next /\ UNCHANGED nativeVars
        \/ NativeNext /\ UNCHANGED x86Vars

Spec == Init /\ [][Next]_vars

VmeTypeOK == ProgramTypeOK /\ X86TypeOK /\ NativeTypeOK

Seen == IF home[running] = Kernel THEN {}
        ELSE IF arch = "x86" THEN X86Seen ELSE NativeSeen

AS == INSTANCE AddressSpace
        WITH table <- IF arch = "x86" THEN X86Table ELSE NativeTable, seen <- Seen

(* On either machine: map changes one page of one space and nothing else;  *)
(* a thread sees the pages of its own space, all of them, and no other     *)
(* frame, except one taken away from it since it was switched to.          *)
ImplementsAddressSpace == AS!Spec
=============================================================================
