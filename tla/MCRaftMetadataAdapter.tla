----------------------- MODULE MCRaftMetadataAdapter -----------------------
EXTENDS RaftMetadataAdapter

CONSTANTS a, b

\* A shard with a preferred and a second replica, and one with a single replica.
TwoLists == {<<a, b>>, <<b>>}

=============================================================================
