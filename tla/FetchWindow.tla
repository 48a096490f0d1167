------------------------------- MODULE FetchWindow -------------------------------
(***************************************************************************)
(* The promise of the instruction cache, with no slots and no counters:    *)
(* it remembers the words of the most recent unbroken run of external      *)
(* fetches, at most CacheWords of them, oldest first.                      *)
(***************************************************************************)
EXTENDS Integers, Sequences

CONSTANTS CacheWords,    \* 16
          AddressSpace,  \* 2^14: addresses wrap
          Words,         \* instructions
          Unknown        \* an address or a word whose validity is low

VARIABLE window   \* sequence of [address, word], oldest first

Entry(address, word) == [address |-> address, word |-> word]

Holds(address) == \E i \in DOMAIN window : window[i].address = address

\* What a lookup answers: the word last fetched from that address, if the run
\* still holds it.
Lookup(address) ==
  IF Holds(address)
    THEN LET i == CHOOSE i \in DOMAIN window : window[i].address = address
         IN  window[i].word
    ELSE Unknown

Continues(address) ==
  window # <<>> /\ address = (window[Len(window)].address + 1) % AddressSpace

Refetch(address, word) ==
  window' = [i \in DOMAIN window |->
               IF window[i].address = address THEN Entry(address, word) ELSE window[i]]

Extend(address, word) ==
  window' = Append(IF Len(window) = CacheWords THEN Tail(window) ELSE window,
                   Entry(address, word))

Fill(address, word) ==
  CASE Holds(address) -> Refetch(address, word)
    [] ~Holds(address) /\ Continues(address) -> Extend(address, word)
    [] OTHER -> window' = <<Entry(address, word)>>

\* RESET, or a fetch whose address is not known.
Forget == window' = <<>>

Init == window = <<>>

Next ==
  \/ Forget
  \/ \E address \in 0 .. AddressSpace - 1, word \in Words \cup {Unknown} : Fill(address, word)

Spec == Init /\ [][Next]_window

=============================================================================
