----------------------------- MODULE MCLibrary -----------------------------
(***************************************************************************)
(* The four clients of os/ds, string.c and printfmt.c: BitmapClients,      *)
(* ListClients, StringClients and a call of snprintf().  They share        *)
(* nothing, so a behaviour exercises one of them.                          *)
(***************************************************************************)
EXTENDS BitmapClients, ListClients, StringClients, Printfmt

CONSTANT BufSize       \* sizes passed to snprintf()

VARIABLE client        \* whose behaviour this is

vars == <<client, bits, listVars, areaVars, printVars>>

\* Arguments of conversions that are negative or sequences.
MCStrArg == {<<"t", "ctl", "t">>}

MCErrArg == {-2, 10}

MCStarArg == {-1, 3}

Init ==
  /\ client \in {"bitmap", "lists", "strings", "snprintf"}
  /\ BitmapInit(IF client = "bitmap" THEN SUBSET Behind ELSE {{}})
  /\ ListInit
  /\ StringInit(IF client = "strings" THEN [Area -> Bytes] ELSE {[a \in Area |-> 0]})
  /\ PrintInit(IF client = "snprintf" THEN BufSize ELSE {0})

bitmap_use ==
  client = "bitmap" /\ BitmapNext /\ UNCHANGED <<client, listVars, areaVars, printVars>>

list_use == client = "lists" /\ ListNext /\ UNCHANGED <<client, bits, areaVars, printVars>>

string_use ==
  client = "strings" /\ StringNext /\ UNCHANGED <<client, bits, listVars, printVars>>

print_use ==
  client = "snprintf" /\ PrintNext /\ UNCHANGED <<client, bits, listVars, areaVars>>

Spec == Init /\ [][bitmap_use \/ list_use \/ string_use \/ print_use]_vars
=============================================================================
