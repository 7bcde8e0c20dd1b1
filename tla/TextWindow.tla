----------------------------- MODULE TextWindow -----------------------------
(***************************************************************************)
(* page_text (_text_window.py): a long text is answered in windows, each    *)
(* naming the offset of the next.  A reader asks for one window after the   *)
(* other until none is named, and may ask for another size each time.       *)
(* A character is its position.                                             *)
(***************************************************************************)
EXTENDS Integers, Sequences

CONSTANTS Cap,     \* largest window (DEFAULT_MAX_TEXT_CHARS)
          Totals,  \* lengths a text may have
          Offsets, \* where a reader may begin
          Sizes,   \* window sizes a reader may ask for
          All      \* max_chars = null: the rest

ASSUME WindowAssumption ==
    /\ Cap \in Nat \ {0}
    /\ Totals \subseteq Nat /\ Offsets \subseteq Int /\ Sizes \subseteq Int
    /\ All \notin Int

VARIABLES total, \* the length of the text
          from,  \* where the reader began
          next,  \* the text_offset it asks for next
          got,   \* the characters it has, in order
          more   \* whether the last window named a next_offset

readerVars == <<total, from, next, got, more>>

Least(a, b) == IF a < b THEN a ELSE b
Most(a, b) == IF a > b THEN a ELSE b

WindowStart(offset) == Least(Most(offset, 0), total)

\* A size is brought between 1 and Cap, and the window ends with the text.
WindowEnd(offset, size) ==
    IF size = All THEN total
    ELSE Least(WindowStart(offset) + Most(1, Least(size, Cap)), total)

\* The text between two offsets.
Slice(start, end) == [i \in 1..(end - start) |-> start + i]

WindowTypeOK ==
    /\ total \in Totals
    /\ from \in Int /\ next \in Int
    /\ got \in Seq(1..total)
    /\ more \in BOOLEAN

ReaderInit ==
    /\ total \in Totals
    /\ next \in Offsets
    /\ from = WindowStart(next)
    /\ got = <<>>
    /\ more = TRUE

\* Mutated Window: the next one begins a character late.
WindowSkipping(size) ==
    LET start == WindowStart(next)
        end == WindowEnd(next, size)
    IN /\ more
       /\ got' = got \o Slice(start, end)
       /\ next' = end + 1
       /\ more' = (end < total)
       /\ UNCHANGED <<total, from>>

\* One window.
Window(size) ==
    LET start == WindowStart(next)
        end == WindowEnd(next, size)
    IN /\ more
       /\ got' = got \o Slice(start, end)
       /\ next' = end
       /\ more' = (end < total)
       /\ UNCHANGED <<total, from>>

ReaderNext == \E size \in Sizes \cup {All} : Window(size)

ReaderSpec == ReaderInit /\ [][ReaderNext]_readerVars

-----------------------------------------------------------------------------
\* The windows a reader has had, put together, are the text from where it began
\* to the next offset, nothing missing and nothing twice; when no next offset is
\* named they reach the end of the text.
PagesTile ==
    /\ WindowTypeOK
    /\ got = Slice(from, WindowStart(next))
    /\ ~more => WindowStart(next) = total
=============================================================================
