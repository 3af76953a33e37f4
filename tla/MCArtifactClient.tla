-------------------------- MODULE MCArtifactClient --------------------------
EXTENDS ArtifactClient

MCUnreadable == {1}    \* the last version cannot be read
MCUnreadableFirst == {0}    \* the first version cannot, the next one can
=============================================================================
