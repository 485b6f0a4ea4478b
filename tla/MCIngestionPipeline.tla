---------------------- MODULE MCIngestionPipeline ----------------------
EXTENDS IngestionPipeline
=============================================================================
