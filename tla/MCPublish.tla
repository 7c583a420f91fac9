----------------------------- MODULE MCPublish -----------------------------
EXTENDS Publish
CONSTANTS s1, s2, s3, s4, h1, h2
=============================================================================
