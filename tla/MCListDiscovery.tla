--------------------------- MODULE MCListDiscovery ---------------------------
(* Accounts with lists of several, of one, of no and of ten places, with an *)
(* entry that is no list, and with two lists of one name.                    *)
EXTENDS ListDiscovery

Entry(id, name, places) == [id |-> id, name |-> name, places |-> places]

MCAccounts ==
    { <<>>,
      <<Entry("x", "a", 3), Entry("y", "b", 1)>>,
      <<Entry("y", "a", 1), Entry("x", "b", 3)>>,
      <<Entry("z", "c", 0), Entry("x", "a", 10), Entry("y", "b", 3)>>,
      <<Entry("w", "d", NoCount), Entry("y", "b", 3)>>,
      <<Entry("x", "b", 1), Entry("y", "b", 3)>> }

=============================================================================
