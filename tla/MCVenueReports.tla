---------------------------- MODULE MCVenueReports ----------------------------
\* Instances of VenueReports for TLC.
EXTENDS VenueReports, MCParameters

=============================================================================
