----------------------- MODULE SequentialIndexBuilder -----------------------
(***************************************************************************)
(* The index builder as its callers see it, which is also the builder that *)
(* the comment "single-thread version" of dict_freq_index::builder keeps:  *)
(* every accepted posting list is encoded straight into m_lists and its    *)
(* end becomes the next endpoint; build() hands both to the index.         *)
(***************************************************************************)
EXTENDS Naturals, Sequences

CONSTANTS NumLists,     \* how many lists the builder is given
          Encoding      \* Encoding[i]: the bytes sequence_type::write makes of list i

VARIABLES m_lists, m_endpoints, index

svars == <<m_lists, m_endpoints, index>>

NoIndex == [built |-> FALSE]

SInit ==
    /\ m_lists = <<>>
    /\ m_endpoints = <<0>>
    /\ index = NoIndex

\* One call of add_posting_list for the next list.
SAddPostingList ==
    /\ ~index.built
    /\ Len(m_endpoints) <= NumLists
    /\ m_lists' = m_lists \o Encoding[Len(m_endpoints)]
    /\ m_endpoints' = Append(m_endpoints, Len(m_lists'))
    /\ UNCHANGED index

\* build(): the index takes everything over.
SBuild ==
    /\ ~index.built
    /\ Len(m_endpoints) = NumLists + 1
    /\ index' = [built |-> TRUE, size |-> NumLists,
                 lists |-> m_lists, endpoints |-> SubSeq(m_endpoints, 1, NumLists)]
    /\ m_lists' = <<>>
    /\ UNCHANGED m_endpoints

SNext == SAddPostingList \/ SBuild

SSpec == SInit /\ [][SNext]_svars
=============================================================================
