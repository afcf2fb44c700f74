------------------------------ MODULE MCGrpcApi ------------------------------
EXTENDS GrpcApi
=============================================================================
