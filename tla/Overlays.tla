------------------------------ MODULE Overlays ------------------------------
(***************************************************************************)
(* What a language session promises the table it is used on: a layer of    *)
(* bindings that hides the ones below it and is gone when it is closed.    *)
(* A write goes to the binding that is seen, so that it goes with its      *)
(* layer, or to the table itself when no layer has the name.  The promise  *)
(* stands as long as layers are closed in the reverse of their order.      *)
(***************************************************************************)
EXTENDS Naturals, Sequences

CONSTANTS Names, Values

VARIABLES
    base,       \* the table's own bindings
    layers,     \* a binding for some names each, the last on top
    orderly     \* every close so far was of the top layer

\* n is not bound above layer i; 0 is the table.
Seen(stack, n, i) == \A j \in i + 1 .. Len(stack) : n \notin DOMAIN stack[j]

\* Only bindings that are seen may change between two tables.
Written(b, stack, new_b, new_stack) ==
    /\ \A n \in Names : Seen(stack, n, 0) \/ new_b[n] = b[n]
    /\ \A i \in DOMAIN stack :
         /\ DOMAIN new_stack[i] = DOMAIN stack[i]
         /\ \A n \in DOMAIN stack[i] : Seen(stack, n, i) \/ new_stack[i][n] = stack[i][n]

Init == base \in [Names -> Values] /\ layers = <<>> /\ orderly = TRUE

\* The program assigns, or a use in place writes its exports.
Write == Len(layers') = Len(layers) /\ Written(base, layers, base', layers')

\* A use opens a layer and leaves what is below it; one in place binds nothing
\* in its layer and writes below it instead.
Open ==
    LET top == layers'[Len(layers')]
    IN  /\ Len(layers') = Len(layers) + 1
        /\ \/ base' = base /\ layers' = Append(layers, top)
           \/ DOMAIN top = {} /\ Written(base, layers, base', layers')

Close == layers # <<>> /\ layers' = SubSeq(layers, 1, Len(layers) - 1) /\ UNCHANGED base

Next == \/ orderly' = FALSE
        \/ orderly' = orderly /\ (Write \/ Open \/ Close)

Spec == Init /\ [][Next]_<<base, layers, orderly>>

=============================================================================
