---------------------------- MODULE ToolRegistry ----------------------------
(***************************************************************************)
(* agent-tools/src/registry.rs and the #[tool] macro: a registry maps the  *)
(* name of a tool to a handle, its metadata and its body.  A tool is added *)
(* by its binding, or by KernelMessageHandlerBuilder::with_tools, which is *)
(* given functions and finds their bindings in the link-time inventory by  *)
(* the name of the function's type.                                        *)
(***************************************************************************)
EXTENDS Naturals, Sequences, FiniteSets, SequencesExt

\* The functions annotated with #[tool]: [name, version, caps, args, type], the
\* attribute's arguments, the parameters' names and the type of the function.
CONSTANTS ToolFns, CapabilityIds

Blank == ""

\* The macro refuses a function without parameters.
ToolAssumption ==
  /\ IsFiniteSet(ToolFns)
  /\ \A f \in ToolFns : f.args # {} /\ f.caps \in SUBSET STRING

VARIABLE registered   \* handles by name, each standing for its function

\* <f>_binding() fails on blank metadata and on a malformed capability.
BindingOk(f) ==
  /\ f.name # Blank
  /\ f.version # Blank
  /\ f.caps \subseteq CapabilityIds

Bound(name) == name \in DOMAIN registered

With(handles, f) == [n \in DOMAIN handles \cup {f.name} |-> IF n = f.name THEN f ELSE handles[n]]

\* register_<f>(registry): a second registration of a name is refused.
Register(f) ==
  /\ BindingOk(f)
  /\ ~Bound(f.name)
  /\ registered' = With(registered, f)

\* The body decodes its only argument from the whole input, several from the
\* fields of an object.
Decodes(f, input) ==
  IF Cardinality(f.args) = 1 THEN input.fits
  ELSE input.object /\ f.args \subseteq input.fields /\ input.fits

-----------------------------------------------------------------------------
(* KernelMessageHandlerBuilder *)

\* The orders in which the linker may have collected the inventory.
Inventories == SetToSeqs(ToolFns)

\* descriptor_from_type_name: the first one of that type.
DescriptorOf(inventory, type) ==
  inventory[CHOOSE i \in 1..Len(inventory) :
              /\ inventory[i].type = type
              /\ \A k \in 1..(i - 1) : inventory[k].type # type]

\* with_tools(functions).build(), as the registries it may give; none if a
\* binding fails or two have one name.  The functions are elements of one array,
\* hence pointers of one type.  (A function item has a type of its own, which is
\* not in the inventory: the lookup panics.)
Built(inventory, functions) ==
  LET found == [i \in 1..Len(functions) |-> DescriptorOf(inventory, functions[i].type)]
  IN  IF /\ \A i \in 1..Len(found) : BindingOk(found[i])
         /\ \A i, k \in 1..Len(found) : found[i].name = found[k].name => i = k
      THEN {[n \in {found[i].name : i \in 1..Len(found)} |->
               found[CHOOSE i \in 1..Len(found) : found[i].name = n]]}
      ELSE {}
=============================================================================
