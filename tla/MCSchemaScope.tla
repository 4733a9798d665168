--------------------------- MODULE MCSchemaScope ---------------------------
EXTENDS SchemaScope
=============================================================================
