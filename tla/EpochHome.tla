------------------------------ MODULE EpochHome ------------------------------
(* What the data-epoch protection promises of a data home: the home is at    *)
(* every moment whole and in one format.  It is edited in that format, it    *)
(* goes up in one step that keeps the user's data, and it goes back in one   *)
(* step to what was saved of it.  There is no journal here, no barrier, no   *)
(* crash and no half-written store.                                          *)
EXTENDS Naturals

CONSTANTS
    Stores,       \* the persistent stores
    MaxEpoch,     \* the highest epoch
    FormatAt(_, _)  \* the format of a store in a home of an epoch

VARIABLES
    epoch,     \* 0 while nobody has put a number on the home
    content,   \* what each store holds
    kept       \* the homes that can be gone back to
vars == <<epoch, content, kept>>

Whole(stores, e) ==
    \A s \in Stores : /\ stores[s].state \in {"ok", "missing"}
                      /\ stores[s].state = "ok" => stores[s].edges = FormatAt(s, e)

Init ==
    /\ epoch = 0 /\ kept = {}
    /\ content \in [Stores -> [state : {"ok", "missing"}, edges : {{}}, rev : {0}]]

\* A number is put on the home: any on an empty one, the first on one with data.
Number ==
    /\ epoch = 0 /\ epoch' \in 1 .. MaxEpoch
    /\ epoch' = 1 \/ \A s \in Stores : content[s].state = "missing"
    /\ UNCHANGED <<content, kept>>

\* The user's data changes, in the format of the home.
Edit ==
    /\ \A s \in Stores :
          \/ content'[s] = content[s]
          \/ /\ content'[s].state = "ok" /\ content'[s].edges = FormatAt(s, epoch)
             /\ content'[s].rev > content[s].rev
    /\ UNCHANGED <<epoch, kept>>

\* Part of the home is saved, as it is.
Save ==
    /\ \E of \in SUBSET Stores :
          kept' = kept \cup {[from |-> IF epoch = 0 THEN 1 ELSE epoch,
                              stores |-> [s \in of |-> content[s]]]}
    /\ UNCHANGED <<epoch, content>>

Forget == kept' \subseteq kept /\ UNCHANGED <<epoch, content>>

\* Every store takes the format of a later epoch and keeps the user's data.
GoUp ==
    /\ epoch' \in epoch + 1 .. MaxEpoch
    /\ content' = [s \in Stores |-> IF content[s].state = "missing" THEN content[s]
                                    ELSE [content[s] EXCEPT !.edges = FormatAt(s, epoch')]]
    /\ UNCHANGED kept

\* What was saved comes back; the rest of the home is in the format of then.
GoBack ==
    /\ \E k \in kept :
          /\ epoch' = k.from /\ (epoch = 0 \/ k.from <= epoch)
          /\ content' = [s \in Stores |-> IF s \in DOMAIN k.stores THEN k.stores[s] ELSE content[s]]
    /\ Whole(content', epoch')
    /\ UNCHANGED kept

Next == Number \/ Edit \/ Save \/ Forget \/ GoUp \/ GoBack

Spec == Init /\ [][Next]_vars
=============================================================================
