----------------------------- MODULE NoteStore ------------------------------
(***************************************************************************)
(* What the readers of notes are promised, whatever caches, sessions and   *)
(* transactions lie between them and the rows: a read that begins on a     *)
(* live note returns a content somebody committed to that note, and with   *)
(* Fresh one that was current at some moment since the read began.         *)
(* No read begins on a deleted note, which with Final gets no new contents.*)
(***************************************************************************)
EXTENDS Naturals, Sequences

CONSTANTS
    Notes,     \* ids of notes
    Readers,   \* whoever may be reading
    Nothing,   \* not a note and not a content
    Fresh,     \* whether reads are current or merely of some committed content
    Final      \* whether a deletion is final for those who were writing, too

VARIABLES
    contents,  \* the contents committed to each note, oldest first
    deleted,   \* the notes that are deleted
    reads      \* the read each reader is in, and its answer

storeVars == <<contents, deleted, reads>>

NotReading == [note |-> Nothing, since |-> 0, answer |-> Nothing]

Init ==
    /\ contents = [n \in Notes |-> <<>>]
    /\ deleted = {}
    /\ reads = [r \in Readers |-> NotReading]

\* A writer commits whatever it likes.
Write(n) ==
    /\ Final => n \notin deleted
    /\ contents'[n] # <<>>
    /\ contents' = [contents EXCEPT ![n] = Append(@, contents'[n][Len(contents'[n])])]
    /\ UNCHANGED <<deleted, reads>>

Delete(n) ==
    /\ contents[n] # <<>>
    /\ deleted' = deleted \cup {n}
    /\ UNCHANGED <<contents, reads>>

Begin(r, n) ==
    /\ reads[r] = NotReading
    /\ contents[n] # <<>> /\ n \notin deleted
    /\ reads' = [reads EXCEPT ![r] = [note |-> n, since |-> Len(contents[n]),
                                      answer |-> Nothing]]
    /\ UNCHANGED <<contents, deleted>>

Return(r) ==
    /\ reads[r].note # Nothing /\ reads[r].answer = Nothing
    /\ LET n == reads[r].note
           oldest == IF Fresh THEN reads[r].since ELSE 1
       IN  \E i \in oldest .. Len(contents[n]) :
               reads' = [reads EXCEPT ![r].answer = contents[n][i]]
    /\ UNCHANGED <<contents, deleted>>

\* The answer has been received, or the read is given up.
End(r) ==
    /\ reads[r] # NotReading
    /\ reads' = [reads EXCEPT ![r] = NotReading]
    /\ UNCHANGED <<contents, deleted>>

\* The server restarts: every read under way is lost.
EndAll ==
    /\ reads' = [r \in Readers |-> NotReading]
    /\ UNCHANGED <<contents, deleted>>

Next ==
    \/ \E n \in Notes : Write(n) \/ Delete(n)
    \/ \E r \in Readers : Return(r) \/ End(r) \/ \E n \in Notes : Begin(r, n)
    \/ EndAll

Spec == Init /\ [][Next]_storeVars
=============================================================================
