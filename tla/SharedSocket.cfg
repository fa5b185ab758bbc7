\* Requests of two tasks over one socket implement the link.
SPECIFICATION Spec
CONSTANTS
  Loops = {loop}
  Departures = {departure}
  MaxRequests = 3
  MaxDatagrams = 1
PROPERTY
  ImplementsLink
